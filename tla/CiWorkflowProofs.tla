---------------------------- MODULE CiWorkflowProofs ----------------------------
(***************************************************************************)
(* Proofs about the deployment workflow.                                   *)
(***************************************************************************)
EXTENDS CiWorkflow, TLAPS

Counts == [Awaits -> [Version0 -> Nat]]

(* One more handler, one less, at one place.                               *)
LEMMA SpawnAt ==
  ASSUME NEW hs \in Counts, NEW a \in Awaits, NEW v \in Version0
  PROVE  /\ Spawn(hs, a, v) \in Counts
         /\ \A b \in Awaits, w \in Version0 :
              Spawn(hs, a, v)[b][w] = IF b = a /\ w = v THEN hs[b][w] + 1
                                      ELSE hs[b][w]
BY DEF Spawn, Counts

LEMMA DropAt ==
  ASSUME NEW hs \in Counts, NEW a \in Awaits, NEW v \in Version0, hs[a][v] > 0
  PROVE  /\ Drop(hs, a, v) \in Counts
         /\ \A b \in Awaits, w \in Version0 :
              Drop(hs, a, v)[b][w] = IF b = a /\ w = v THEN hs[b][w] - 1
                                     ELSE hs[b][w]
BY DEF Drop, Counts

LEMMA MoveAt ==
  ASSUME NEW hs \in Counts, NEW a \in Awaits, NEW v \in Version0, hs[a][v] > 0,
         NEW c \in Awaits, NEW u \in Version0, a # c
  PROVE  /\ Spawn(Drop(hs, a, v), c, u) \in Counts
         /\ \A b \in Awaits, w \in Version0 :
              Spawn(Drop(hs, a, v), c, u)[b][w] =
                IF b = a /\ w = v THEN hs[b][w] - 1
                ELSE IF b = c /\ w = u THEN hs[b][w] + 1 ELSE hs[b][w]
<1> DEFINE ds == Drop(hs, a, v)
<1>1. /\ ds \in Counts
      /\ \A b \in Awaits, w \in Version0 :
           ds[b][w] = IF b = a /\ w = v THEN hs[b][w] - 1 ELSE hs[b][w]
  BY DropAt
<1> HIDE DEF ds
<1>2. /\ Spawn(ds, c, u) \in Counts
      /\ \A b \in Awaits, w \in Version0 :
           Spawn(ds, c, u)[b][w] = IF b = c /\ w = u THEN ds[b][w] + 1
                                   ELSE ds[b][w]
  BY <1>1, SpawnAt
<1>3. \A b \in Awaits, w \in Version0 :
        Spawn(ds, c, u)[b][w] = IF b = a /\ w = v THEN hs[b][w] - 1
                                ELSE IF b = c /\ w = u THEN hs[b][w] + 1
                                ELSE hs[b][w]
  BY <1>1, <1>2
<1> QED BY <1>2, <1>3 DEF ds

LEMMA NoneAt ==
  /\ NoHandlers \in Counts
  /\ \A b \in Awaits, w \in Version0 : NoHandlers[b][w] = 0
BY DEF NoHandlers, Counts

(* What the handlers of rollout.start and migration.start add.             *)
LEMMA HandleRolloutAt ==
  ASSUME NEW hs \in Counts, db \in Db
  PROVE  /\ HandleRollout(hs) \in Counts
         /\ \A b \in Awaits, w \in Version0 :
              \/ HandleRollout(hs)[b][w] = hs[b][w]
              \/ /\ HandleRollout(hs)[b][w] = hs[b][w] + 1
                 /\ b \in {"start rollout", "traffic"} /\ w = db.to
                 /\ b = "traffic" => w # None
                 /\ b = "start rollout" => db.from # None
<1>1. db.to \in Version0 /\ {"start rollout", "traffic"} \subseteq Awaits
  BY DEF Db, Awaits
<1>2. CASE db.from # None
  <2> DEFINE a == "start rollout"
             v == db.to
  <2>1. HandleRollout(hs) = Spawn(hs, a, v)
    BY <1>2 DEF HandleRollout
  <2>2. a \in Awaits /\ v \in Version0
    BY <1>1
  <2>3. /\ Spawn(hs, a, v) \in Counts
        /\ \A b \in Awaits, w \in Version0 :
             Spawn(hs, a, v)[b][w] = IF b = a /\ w = v THEN hs[b][w] + 1
                                     ELSE hs[b][w]
    <3> HIDE DEF a, v
    <3> QED BY <2>2, SpawnAt
  <2>4. \A b \in Awaits, w \in Version0 :
          \/ HandleRollout(hs)[b][w] = hs[b][w]
          \/ HandleRollout(hs)[b][w] = hs[b][w] + 1 /\ b = a /\ w = v
    <3> HIDE DEF a, v
    <3> QED BY <2>1, <2>3
  <2> QED BY <1>2, <2>1, <2>3, <2>4
<1>3. CASE db.from = None /\ db.to # None
  <2> DEFINE a == "traffic"
             v == db.to
  <2>1. HandleRollout(hs) = Spawn(hs, a, v)
    BY <1>3 DEF HandleRollout
  <2>2. a \in Awaits /\ v \in Version0
    BY <1>1
  <2>3. /\ Spawn(hs, a, v) \in Counts
        /\ \A b \in Awaits, w \in Version0 :
             Spawn(hs, a, v)[b][w] = IF b = a /\ w = v THEN hs[b][w] + 1
                                     ELSE hs[b][w]
    <3> HIDE DEF a, v
    <3> QED BY <2>2, SpawnAt
  <2>4. \A b \in Awaits, w \in Version0 :
          \/ HandleRollout(hs)[b][w] = hs[b][w]
          \/ HandleRollout(hs)[b][w] = hs[b][w] + 1 /\ b = a /\ w = v
    <3> HIDE DEF a, v
    <3> QED BY <2>1, <2>3
  <2> QED BY <1>3, <2>1, <2>3, <2>4
<1>4. CASE db.from = None /\ db.to = None
  BY <1>4 DEF HandleRollout
<1> QED BY <1>2, <1>3, <1>4

LEMMA HandleMigrationAt ==
  ASSUME NEW hs \in Counts, db \in Db
  PROVE  /\ HandleMigration(hs) \in Counts
         /\ \A b \in Awaits, w \in Version0 :
              \/ HandleMigration(hs)[b][w] = hs[b][w]
              \/ /\ HandleMigration(hs)[b][w] = hs[b][w] + 1
                 /\ b = "start migration" /\ w # None /\ db.config = "migratory"
<1>1. db.from \in Version0 /\ "start migration" \in Awaits
  BY DEF Db, Awaits
<1>2. CASE db.config # "migratory" \/ db.from = None \/ db.to = None
  BY <1>2 DEF HandleMigration
<1>3. CASE ~(db.config # "migratory" \/ db.from = None \/ db.to = None)
  <2> DEFINE a == "start migration"
             v == db.from
  <2>1. HandleMigration(hs) = Spawn(hs, a, v)
    BY <1>3 DEF HandleMigration
  <2>2. a \in Awaits /\ v \in Version0
    BY <1>1
  <2>3. /\ Spawn(hs, a, v) \in Counts
        /\ \A b \in Awaits, w \in Version0 :
             Spawn(hs, a, v)[b][w] = IF b = a /\ w = v THEN hs[b][w] + 1
                                     ELSE hs[b][w]
    <3> HIDE DEF a, v
    <3> QED BY <2>2, SpawnAt
  <2>4. \A b \in Awaits, w \in Version0 :
          \/ HandleMigration(hs)[b][w] = hs[b][w]
          \/ HandleMigration(hs)[b][w] = hs[b][w] + 1 /\ b = a /\ w = v
    <3> HIDE DEF a, v
    <3> QED BY <2>1, <2>3
  <2> QED BY <1>3, VersionAssumption, <1>1, <2>1, <2>3, <2>4
<1> QED BY <1>2, <1>3

-----------------------------------------------------------------------------
(* What a step does to the handlers, place by place.                       *)

Moves(a, v, c, u) ==
  /\ handlers' \in Counts
  /\ \A b \in Awaits, w \in Version0 :
       handlers'[b][w] = IF b = a /\ w = v THEN handlers[b][w] - 1
                         ELSE IF b = c /\ w = u THEN handlers[b][w] + 1
                         ELSE handlers[b][w]

Drops(a, v) ==
  /\ handlers' \in Counts
  /\ \A b \in Awaits, w \in Version0 :
       handlers'[b][w] = IF b = a /\ w = v THEN handlers[b][w] - 1
                         ELSE handlers[b][w]

Adds(a, v) ==
  /\ handlers' \in Counts
  /\ \A b \in Awaits, w \in Version0 :
       handlers'[b][w] = IF b = a /\ w = v THEN handlers[b][w] + 1
                         ELSE handlers[b][w]

Empties ==
  /\ handlers' \in Counts
  /\ \A b \in Awaits, w \in Version0 : handlers'[b][w] = 0

EmptiesBut(a, v) ==
  /\ handlers' \in Counts
  /\ \A b \in Awaits, w \in Version0 :
       handlers'[b][w] = IF b = a /\ w = v THEN 1 ELSE 0

\* A handler of rollout.start goes to its first wait, if it has one.
AsksRollout(b, w) ==
  \/ handlers'[b][w] = handlers[b][w]
  \/ /\ handlers'[b][w] = handlers[b][w] + 1
     /\ b \in {"start rollout", "traffic"} /\ w = db.to
     /\ b = "traffic" => w # None
     /\ b = "start rollout" => db.from # None

\* A handler of migration.start goes to its first wait, if it has one.
AsksMigration(b, w) ==
  \/ handlers'[b][w] = handlers[b][w]
  \/ /\ handlers'[b][w] = handlers[b][w] + 1
     /\ b = "start migration" /\ w # None /\ db.config = "migratory"

LEMMA MovesAt ==
  ASSUME handlers \in Counts, NEW a \in Awaits, NEW v \in Version0,
         handlers[a][v] > 0, NEW c \in Awaits, NEW u \in Version0, a # c,
         handlers' = Spawn(Drop(handlers, a, v), c, u)
  PROVE  Moves(a, v, c, u)
BY MoveAt DEF Moves

LEMMA DropsAt ==
  ASSUME handlers \in Counts, NEW a \in Awaits, NEW v \in Version0,
         handlers[a][v] > 0, handlers' = Drop(handlers, a, v)
  PROVE  Drops(a, v)
BY DropAt DEF Drops

LEMMA EmptiesAt ==
  ASSUME handlers' = NoHandlers
  PROVE  Empties
BY NoneAt DEF Empties

LEMMA DeployAt ==
  ASSUME handlers \in Counts, NEW v \in Versions, Deploy(v)
  PROVE  /\ open => Adds("flags", v)
         /\ ~open => EmptiesBut("flags", v)
<1>1. v \in Version0 /\ "flags" \in Awaits
  BY DEF Version0, Awaits
<1>2. ASSUME open PROVE Adds("flags", v)
  BY <1>1, <1>2, SpawnAt DEF Deploy, Adds
<1>3. ASSUME ~open PROVE EmptiesBut("flags", v)
  BY <1>1, <1>3, NoneAt, SpawnAt DEF Deploy, EmptiesBut
<1> QED BY <1>2, <1>3

LEMMA SignalStartRolloutAt ==
  ASSUME handlers \in Counts, db \in Db, SignalStartRollout
  PROVE  /\ handlers' \in Counts
         /\ \A b \in Awaits, w \in Version0 : AsksRollout(b, w)
<1>1. handlers' = HandleRollout(handlers)
  BY DEF SignalStartRollout
<1>2. /\ HandleRollout(handlers) \in Counts
      /\ \A b \in Awaits, w \in Version0 :
           \/ HandleRollout(handlers)[b][w] = handlers[b][w]
           \/ /\ HandleRollout(handlers)[b][w] = handlers[b][w] + 1
              /\ b \in {"start rollout", "traffic"} /\ w = db.to
              /\ b = "traffic" => w # None
              /\ b = "start rollout" => db.from # None
  BY HandleRolloutAt
<1>3. ASSUME NEW b \in Awaits, NEW w \in Version0 PROVE AsksRollout(b, w)
  BY <1>1, <1>2 DEF AsksRollout
<1> QED BY <1>1, <1>2, <1>3

LEMMA SignalStartMigrationAt ==
  ASSUME handlers \in Counts, db \in Db, SignalStartMigration
  PROVE  /\ handlers' \in Counts
         /\ \A b \in Awaits, w \in Version0 : AsksMigration(b, w)
<1>1. handlers' = HandleMigration(handlers)
  BY DEF SignalStartMigration
<1>2. /\ HandleMigration(handlers) \in Counts
      /\ \A b \in Awaits, w \in Version0 :
           \/ HandleMigration(handlers)[b][w] = handlers[b][w]
           \/ /\ HandleMigration(handlers)[b][w] = handlers[b][w] + 1
              /\ b = "start migration" /\ w # None /\ db.config = "migratory"
  BY HandleMigrationAt
<1>3. ASSUME NEW b \in Awaits, NEW w \in Version0 PROVE AsksMigration(b, w)
  BY <1>1, <1>2 DEF AsksMigration
<1> QED BY <1>1, <1>2, <1>3

LEMMA RolloutEndsAt ==
  ASSUME handlers \in Counts, NEW told \in RolloutEnd, RolloutEnds(told),
         rollout.version \in Version0, handlers["rollout"][rollout.version] > 0
  PROVE  Moves("rollout", rollout.version, told, rollout.version)
BY MovesAt DEF RolloutEnds, RolloutEnd, Awaits

LEMMA SimulatedAt ==
  ASSUME handlers \in Counts, db \in Db, NEW v \in Versions, Simulated(v)
  PROVE  /\ handlers' \in Counts
         /\ \A w \in Version0 :
              handlers'["simulate"][w] = IF w = v THEN handlers["simulate"][w] - 1
                                         ELSE handlers["simulate"][w]
         /\ \A b \in Awaits \ {"simulate"}, w \in Version0 : AsksRollout(b, w)
<1> DEFINE a == "simulate"
           hs == Drop(handlers, a, v)
<1>1. /\ v \in Version0 /\ a \in Awaits
      /\ handlers[a][v] > 0
      /\ handlers' \in {hs, HandleRollout(hs)}
  BY DEF Version0, Awaits, Simulated
<1>2. /\ hs \in Counts
      /\ \A b \in Awaits, w \in Version0 :
           hs[b][w] = IF b = a /\ w = v THEN handlers[b][w] - 1
                      ELSE handlers[b][w]
  <2> HIDE DEF a
  <2> QED BY <1>1, DropAt
<1> HIDE DEF hs, a
<1>3. /\ handlers' \in Counts
      /\ \A b \in Awaits, w \in Version0 :
           \/ handlers'[b][w] = hs[b][w]
           \/ /\ handlers'[b][w] = hs[b][w] + 1
              /\ b \in {"start rollout", "traffic"} /\ w = db.to
              /\ b = "traffic" => w # None
              /\ b = "start rollout" => db.from # None
  <2>1. /\ HandleRollout(hs) \in Counts
        /\ \A b \in Awaits, w \in Version0 :
             \/ HandleRollout(hs)[b][w] = hs[b][w]
             \/ /\ HandleRollout(hs)[b][w] = hs[b][w] + 1
                /\ b \in {"start rollout", "traffic"} /\ w = db.to
                /\ b = "traffic" => w # None
                /\ b = "start rollout" => db.from # None
    BY <1>2, HandleRolloutAt
  <2>2. CASE handlers' = hs
    BY <1>2, <2>2
  <2>3. CASE handlers' = HandleRollout(hs)
    BY <2>1, <2>3
  <2> QED BY <1>1, <2>2, <2>3
<1>4. a \notin {"start rollout", "traffic"}
  BY DEF a
<1>5. \A w \in Version0 :
        handlers'[a][w] = IF w = v THEN handlers[a][w] - 1 ELSE handlers[a][w]
  <2> TAKE w \in Version0
  <2>1. hs[a][w] = IF w = v THEN handlers[a][w] - 1 ELSE handlers[a][w]
    BY <1>1, <1>2
  <2>2. handlers'[a][w] = hs[a][w]
    BY <1>1, <1>3, <1>4
  <2> QED BY <2>1, <2>2
<1>6. ASSUME NEW b \in Awaits \ {a}, NEW w \in Version0
      PROVE  AsksRollout(b, w)
  <2>1. hs[b][w] = handlers[b][w]
    BY <1>2
  <2>2. \/ handlers'[b][w] = hs[b][w]
        \/ /\ handlers'[b][w] = hs[b][w] + 1
           /\ b \in {"start rollout", "traffic"} /\ w = db.to
           /\ b = "traffic" => w # None
           /\ b = "start rollout" => db.from # None
    BY <1>3
  <2> QED BY <2>1, <2>2 DEF AsksRollout
<1> QED BY <1>3, <1>5, <1>6 DEF a

LEMMA RolloutStartsAt ==
  ASSUME handlers \in Counts, db \in Db, NEW v \in Version0, RolloutStarts(v)
  PROVE  /\ handlers' \in Counts
         /\ \A w \in Version0 :
              /\ handlers'["start rollout"][w] =
                   IF w = v THEN handlers["start rollout"][w] - 1
                   ELSE handlers["start rollout"][w]
              /\ handlers'["rollout"][w] =
                   IF w = v THEN handlers["rollout"][w] + 1
                   ELSE handlers["rollout"][w]
         /\ \A b \in Awaits \ {"start rollout", "rollout"}, w \in Version0 :
              AsksMigration(b, w)
<1> DEFINE a == "start rollout"
           c == "rollout"
           hs == Spawn(Drop(handlers, a, v), c, v)
<1>1. /\ a \in Awaits /\ c \in Awaits /\ a # c
      /\ handlers[a][v] > 0
      /\ handlers' = HandleMigration(hs)
  BY DEF Awaits, RolloutStarts
<1>2. /\ hs \in Counts
      /\ \A b \in Awaits, w \in Version0 :
           hs[b][w] = IF b = a /\ w = v THEN handlers[b][w] - 1
                      ELSE IF b = c /\ w = v THEN handlers[b][w] + 1
                      ELSE handlers[b][w]
  <2> HIDE DEF a, c
  <2> QED BY <1>1, MoveAt
<1> HIDE DEF hs, a, c
<1>3. /\ handlers' \in Counts
      /\ \A b \in Awaits, w \in Version0 :
           \/ handlers'[b][w] = hs[b][w]
           \/ /\ handlers'[b][w] = hs[b][w] + 1
              /\ b = "start migration" /\ w # None /\ db.config = "migratory"
  <2>1. /\ HandleMigration(hs) \in Counts
        /\ \A b \in Awaits, w \in Version0 :
             \/ HandleMigration(hs)[b][w] = hs[b][w]
             \/ /\ HandleMigration(hs)[b][w] = hs[b][w] + 1
                /\ b = "start migration" /\ w # None /\ db.config = "migratory"
    BY <1>2, HandleMigrationAt
  <2> QED BY <1>1, <2>1
<1>4. "start migration" \notin {a, c}
  BY DEF a, c
<1>5. ASSUME NEW w \in Version0
      PROVE  /\ handlers'[a][w] = IF w = v THEN handlers[a][w] - 1
                                  ELSE handlers[a][w]
             /\ handlers'[c][w] = IF w = v THEN handlers[c][w] + 1
                                  ELSE handlers[c][w]
  <2>1. /\ hs[a][w] = IF w = v THEN handlers[a][w] - 1 ELSE handlers[a][w]
        /\ hs[c][w] = IF w = v THEN handlers[c][w] + 1 ELSE handlers[c][w]
    BY <1>1, <1>2
  <2>2. handlers'[a][w] = hs[a][w] /\ handlers'[c][w] = hs[c][w]
    BY <1>1, <1>3, <1>4
  <2> QED BY <2>1, <2>2
<1>6. ASSUME NEW b \in Awaits \ {a, c}, NEW w \in Version0
      PROVE  AsksMigration(b, w)
  <2>1. hs[b][w] = handlers[b][w]
    BY <1>2
  <2>2. \/ handlers'[b][w] = hs[b][w]
        \/ /\ handlers'[b][w] = hs[b][w] + 1
           /\ b = "start migration" /\ w # None /\ db.config = "migratory"
    BY <1>3
  <2> QED BY <2>1, <2>2 DEF AsksMigration
<1> QED BY <1>3, <1>5, <1>6 DEF a, c

LEMMA MigrationEndsAt ==
  ASSUME handlers \in Counts, NEW told \in MigrationEnd, MigrationEnds(told),
         migration.version \in Version0
  PROVE  /\ handlers["migration"][migration.version] > 0 =>
              Moves("migration", migration.version, told, migration.version)
         /\ ~(handlers["migration"][migration.version] > 0) => handlers' = handlers
<1>1. /\ "migration" \in Awaits /\ told \in Awaits /\ told # "migration"
  BY DEF Awaits, MigrationEnd
<1>2. ASSUME handlers["migration"][migration.version] > 0
      PROVE  Moves("migration", migration.version, told, migration.version)
  <2>1. handlers' = Spawn(Drop(handlers, "migration", migration.version), told,
                          migration.version)
    BY <1>2 DEF MigrationEnds
  <2> QED BY <1>1, <1>2, <2>1, MovesAt
<1>3. ASSUME ~(handlers["migration"][migration.version] > 0)
      PROVE  handlers' = handlers
  BY <1>3 DEF MigrationEnds
<1> QED BY <1>2, <1>3

LEMMA ActivityAt ==
  ASSUME handlers \in Counts, NEW v \in Versions
  PROVE  /\ FlagsRead(v) => Moves("flags", v, "apply", v)
         /\ FlagApplied(v) => Moves("apply", v, "simulate", v)
         /\ TrafficRouted(v) => Drops("traffic", v)
         /\ ActivityFails(v) =>
              \E a \in {"flags", "apply", "simulate", "traffic"} : Drops(a, v)
<1>1. v \in Version0
  BY DEF Version0
<1>2. FlagsRead(v) => Moves("flags", v, "apply", v)
  BY <1>1, MovesAt DEF FlagsRead, Awaits
<1>3. FlagApplied(v) => Moves("apply", v, "simulate", v)
  BY <1>1, MovesAt DEF FlagApplied, Awaits
<1>4. TrafficRouted(v) => Drops("traffic", v)
  BY <1>1, DropsAt DEF TrafficRouted, Awaits
<1>5. ASSUME ActivityFails(v)
      PROVE  \E a \in {"flags", "apply", "simulate", "traffic"} : Drops(a, v)
  <2>1. PICK a \in {"flags", "apply", "simulate", "traffic"} :
          handlers[a][v] > 0 /\ handlers' = Drop(handlers, a, v)
    BY <1>5 DEF ActivityFails
  <2>2. a \in Awaits
    BY DEF Awaits
  <2>3. Drops(a, v)
    BY <1>1, <2>1, <2>2, DropsAt
  <2> QED BY <2>3
<1> QED BY <1>2, <1>3, <1>4, <1>5

LEMMA ChildAt ==
  ASSUME handlers \in Counts, NEW v \in Version0
  PROVE  /\ RolloutRefused(v) => Drops("start rollout", v)
         /\ MigrationRefused(v) => Drops("start migration", v)
         /\ CleanupRefused(v) => Drops("start cleanup", v)
         /\ MigrationStarts(v) => Moves("start migration", v, "migration", v)
         /\ CleanupStarts(v) => Empties
<1>1. RolloutRefused(v) => Drops("start rollout", v)
  BY DropsAt DEF RolloutRefused, Refused, Awaits
<1>2. MigrationRefused(v) => Drops("start migration", v)
  BY DropsAt DEF MigrationRefused, Refused, Awaits
<1>3. CleanupRefused(v) => Drops("start cleanup", v)
  BY DropsAt DEF CleanupRefused, Refused, Awaits
<1>4. MigrationStarts(v) => Moves("start migration", v, "migration", v)
  BY MovesAt DEF MigrationStarts, Awaits
<1>5. CleanupStarts(v) => Empties
  BY EmptiesAt DEF CleanupStarts, Close
<1> QED BY <1>1, <1>2, <1>3, <1>4, <1>5

Closes == /\ open' = FALSE /\ Empties
          /\ rollout' = NoRollout

LEMMA RolloutDoneAt ==
  ASSUME handlers \in Counts, db \in Db, NEW told \in RolloutEnd,
         NEW v \in Version0, RolloutDone(told, v)
  PROVE  /\ handlers[told][v] > 0
         /\ \/ /\ db.config = "nonMigratory" /\ UNCHANGED <<open, rollout>>
               /\ db.from # None /\ Moves(told, v, "start cleanup", db.from)
            \/ /\ db.config # "nonMigratory" /\ UNCHANGED <<open, rollout>>
               /\ db.migration = "none" /\ Drops(told, v)
            \/ /\ IF db.config = "nonMigratory" THEN db.from = None ELSE db.migration # "none"
               /\ Closes
<1>1. told \in Awaits /\ "start cleanup" \in Awaits /\ told # "start cleanup"
  BY DEF RolloutEnd, Awaits
<1>2. db.from \in Version0 /\ handlers[told][v] > 0
  BY DEF Db, RolloutDone
<1>3. CASE /\ db.config = "nonMigratory" /\ db.from # None /\ UNCHANGED <<open, rollout>>
           /\ handlers' = Spawn(Drop(handlers, told, v), "start cleanup", db.from)
  <2>1. Moves(told, v, "start cleanup", db.from)
    BY <1>1, <1>2, <1>3, MovesAt
  <2> QED BY <1>2, <1>3, <2>1
<1>4. CASE /\ db.config # "nonMigratory" /\ db.migration = "none" /\ UNCHANGED <<open, rollout>>
           /\ handlers' = Drop(handlers, told, v)
  <2>1. Drops(told, v)
    BY <1>1, <1>2, <1>4, DropsAt
  <2> QED BY <1>2, <1>4, <2>1
<1>5. CASE /\ IF db.config = "nonMigratory" THEN db.from = None ELSE db.migration # "none"
           /\ Close
  <2>1. Closes
    BY <1>5, EmptiesAt DEF Close, Closes
  <2> QED BY <1>2, <1>5, <2>1
<1> QED BY <1>3, <1>4, <1>5 DEF RolloutDone

LEMMA MigrationDoneAt ==
  ASSUME handlers \in Counts, NEW told \in MigrationEnd, NEW v \in Version0,
         MigrationDone(told, v)
  PROVE  /\ handlers[told][v] > 0
         /\ \/ db.rollout # "none" /\ Closes
            \/ /\ db.rollout = "none" /\ UNCHANGED <<open, rollout>>
               /\ Drops(told, v)
<1>1. told \in Awaits /\ handlers[told][v] > 0
  BY DEF MigrationEnd, Awaits, MigrationDone
<1>2. CASE db.rollout # "none" /\ Close
  <2>1. Closes
    BY <1>2, EmptiesAt DEF Close, Closes
  <2> QED BY <1>1, <1>2, <2>1
<1>3. CASE /\ db.rollout = "none" /\ UNCHANGED <<open, rollout>>
           /\ handlers' = Drop(handlers, told, v)
  <2>1. Drops(told, v)
    BY <1>1, <1>3, DropsAt
  <2> QED BY <1>1, <1>3, <2>1
<1> QED BY <1>2, <1>3 DEF MigrationDone

-----------------------------------------------------------------------------
(* Types, and two facts they need: somebody waits for a rollout that runs, *)
(* and a closed execution has no handlers.                                 *)

\* What a handler may await without a version.
Versionless == {"start rollout", "rollout"} \cup RolloutEnd

HandlersOK ==
  /\ handlers \in Counts
  /\ \A a \in Awaits : handlers[a][None] > 0 => a \in Versionless

RestOK ==
  /\ open \in BOOLEAN /\ refused \in BOOLEAN /\ mixed \in BOOLEAN
  /\ db \in Db
  /\ seq \in [Versions -> Nat]
  /\ rollout \in [running : BOOLEAN, version : Version0]
  /\ migration \in [state : {"none", "running", "stuck"}, version : Version0]
  /\ migration.state # "none" => migration.version # None
  /\ cleaning \subseteq Versions
  /\ serving \in Version0
  /\ deploys \in Nat /\ started \in [Children -> Nat]

BoundsOK ==
  /\ signals \in 0..MaxSignals /\ failures \in 0..MaxFailures
  /\ continues \in 0..MaxContinues

Attended ==
  /\ rollout.running => handlers["rollout"][rollout.version] > 0
  /\ ~open => \A a \in Awaits, v \in Version0 : handlers[a][v] = 0

TypeInv == HandlersOK /\ RestOK /\ BoundsOK /\ Attended

LEMMA TypeParts == TypeOK <=> HandlersOK /\ RestOK /\ BoundsOK
BY DEF TypeOK, HandlersOK, RestOK, BoundsOK, Counts, Versionless

LEMMA TypeInit == Init => TypeInv
<1> SUFFICES ASSUME Init PROVE TypeInv
  OBVIOUS
<1>1. handlers \in Counts /\ \A b \in Awaits, w \in Version0 : handlers[b][w] = 0
  BY NoneAt DEF Init
<1>2. HandlersOK
  <2>1. None \in Version0
    BY DEF Version0
  <2>2. \A a \in Awaits : ~(handlers[a][None] > 0)
    BY <1>1, <2>1
  <2> QED BY <1>1, <2>2 DEF HandlersOK
<1>3. db \in Db
  <2>1. EmptyDb \in Db
    BY DEF EmptyDb, Db, Version0, Exits, Kinds
  <2> QED BY <2>1 DEF Init
<1>4. RestOK
  <2>1. seq \in [Versions -> Nat] /\ serving \in Version0
    BY VersionAssumption DEF Init, Version0
  <2>2. started \in [Children -> Nat]
    BY DEF Init, NoneStarted
  <2>3. /\ rollout \in [running : BOOLEAN, version : Version0]
        /\ migration \in [state : {"none", "running", "stuck"}, version : Version0]
        /\ migration.state = "none"
    BY DEF Init, NoRollout, Version0
  <2> QED BY <1>3, <2>1, <2>2, <2>3 DEF Init, RestOK
<1>5. BoundsOK
  BY BoundAssumption DEF Init, BoundsOK
<1>6. Attended
  BY <1>1 DEF Init, NoRollout, Attended
<1> QED BY <1>2, <1>4, <1>5, <1>6 DEF TypeInv

LEMMA BoundsStep == BoundsOK /\ [Next]_vars => BoundsOK'
<1> SUFFICES ASSUME BoundsOK, [Next]_vars PROVE BoundsOK'
  OBVIOUS
<1> USE BoundAssumption DEF BoundsOK, Failure, Signalled
<1>1. ASSUME NEW v \in Versions, Deploy(v) PROVE BoundsOK'
  BY <1>1 DEF Deploy, bounds, history
<1>2. ASSUME SignalStartRollout PROVE BoundsOK'
  BY <1>2 DEF SignalStartRollout, bounds, history
<1>3. ASSUME SignalStartMigration PROVE BoundsOK'
  BY <1>3 DEF SignalStartMigration, bounds, history
<1>4. ASSUME CancelRollout PROVE BoundsOK'
  <2>1. Signalled /\ failures' = failures /\ continues' = continues
    BY <1>4, Zenon DEF CancelRollout
  <2> QED BY <2>1
<1>5. ASSUME ContinueAsNew PROVE BoundsOK'
  BY <1>5 DEF ContinueAsNew, bounds, history
<1>6. ASSUME NEW v \in Versions, FlagsRead(v) PROVE BoundsOK'
  BY <1>6 DEF FlagsRead, bounds, history
<1>7. ASSUME NEW v \in Versions, FlagApplied(v) PROVE BoundsOK'
  BY <1>7 DEF FlagApplied, bounds, history
<1>8. ASSUME NEW v \in Versions, Simulated(v) PROVE BoundsOK'
  BY <1>8 DEF Simulated, bounds, history
<1>9. ASSUME NEW v \in Versions, TrafficRouted(v) PROVE BoundsOK'
  BY <1>9 DEF TrafficRouted, bounds, history
<1>10. ASSUME NEW v \in Versions, ActivityFails(v) PROVE BoundsOK'
  BY <1>10 DEF ActivityFails, bounds, history
<1>11. ASSUME NEW v \in Version0, RolloutStarts(v) PROVE BoundsOK'
  BY <1>11 DEF RolloutStarts, bounds, history
<1>12. ASSUME NEW v \in Version0, RolloutRefused(v) PROVE BoundsOK'
  BY <1>12 DEF RolloutRefused, Refused, bounds, history
<1>13. ASSUME RolloutSucceeds PROVE BoundsOK'
  BY <1>13 DEF RolloutSucceeds, bounds, history
<1>14. ASSUME RolloutFails PROVE BoundsOK'
  <2>1. /\ failures' = failures \/ Failure
        /\ signals' = signals /\ continues' = continues
    BY <1>14, Zenon DEF RolloutFails
  <2> QED BY <2>1
<1>15. ASSUME NEW v \in Version0, MigrationStarts(v) PROVE BoundsOK'
  BY <1>15 DEF MigrationStarts, bounds, history
<1>16. ASSUME NEW v \in Version0, MigrationRefused(v) PROVE BoundsOK'
  BY <1>16 DEF MigrationRefused, Refused, bounds, history
<1>17. ASSUME MigrationSucceeds PROVE BoundsOK'
  BY <1>17 DEF MigrationSucceeds, bounds, history
<1>18. ASSUME MigrationSticks PROVE BoundsOK'
  BY <1>18 DEF MigrationSticks, bounds, history
<1>19. ASSUME MigrationTerminated PROVE BoundsOK'
  <2>1. Failure /\ signals' = signals /\ continues' = continues
    BY <1>19, Zenon DEF MigrationTerminated
  <2> QED BY <2>1
<1>20. ASSUME NEW v \in Versions, CleanupEnds(v) PROVE BoundsOK'
  BY <1>20 DEF CleanupEnds, bounds, history
<1>21. ASSUME NEW told \in RolloutEnd, NEW v \in Version0, RolloutDone(told, v) PROVE BoundsOK'
  BY <1>21 DEF RolloutDone, bounds, history
<1>22. ASSUME NEW told \in MigrationEnd, NEW v \in Version0, MigrationDone(told, v) PROVE BoundsOK'
  BY <1>22 DEF MigrationDone, bounds, history
<1>23. ASSUME NEW v \in Version0, CleanupStarts(v) PROVE BoundsOK'
  BY <1>23 DEF CleanupStarts, bounds, history
<1>24. ASSUME NEW v \in Version0, CleanupRefused(v) PROVE BoundsOK'
  BY <1>24 DEF CleanupRefused, Refused, bounds, history
<1>25. ASSUME UNCHANGED vars PROVE BoundsOK'
  BY <1>25 DEF vars, bounds
<1> QED
  BY <1>1, <1>2, <1>3, <1>4, <1>5, <1>6, <1>7, <1>8, <1>9, <1>10, <1>11, <1>12, <1>13, <1>14, <1>15, <1>16, <1>17, <1>18, <1>19, <1>20, <1>21, <1>22, <1>23, <1>24, <1>25
     DEF Next, Client, Faults, Activity, Child

LEMMA RestStep == HandlersOK /\ RestOK /\ [Next]_vars => RestOK'
<1> SUFFICES ASSUME HandlersOK, RestOK, [Next]_vars PROVE RestOK'
  OBVIOUS
<1> USE DEF RestOK
<1>e. EmptyDb \in Db /\ NoneStarted \in [Children -> Nat]
  BY DEF EmptyDb, Db, Version0, Exits, Kinds, NoneStarted
<1>r. NoRollout \in [running : BOOLEAN, version : Version0]
  BY DEF NoRollout, Version0
<1>m. \A v \in Version0 :
        /\ handlers["start migration"][v] > 0 => v # None
        /\ handlers["start cleanup"][v] > 0 => v # None
  BY DEF HandlersOK, Awaits, RolloutEnd, Versionless
<1>1. ASSUME NEW v \in Versions, Deploy(v) PROVE RestOK'
  <2>1. CASE open
    BY <1>1, <2>1 DEF Deploy
  <2>2. CASE ~open
    <3>1. /\ open' = TRUE /\ db' = EmptyDb /\ deploys' = 1
          /\ started' = NoneStarted /\ refused' = FALSE /\ mixed' = FALSE
          /\ UNCHANGED <<seq, rollout, migration, cleaning, serving>>
      BY <1>1, <2>2 DEF Deploy
    <3> QED BY <1>e, <3>1
  <2> QED BY <2>1, <2>2
<1>2. ASSUME SignalStartRollout PROVE RestOK'
  BY <1>2 DEF SignalStartRollout, history
<1>3. ASSUME SignalStartMigration PROVE RestOK'
  BY <1>3 DEF SignalStartMigration, history
<1>4. ASSUME CancelRollout PROVE RestOK'
  BY <1>4, <1>r DEF CancelRollout, RolloutEnds, history
<1>5. ASSUME ContinueAsNew PROVE RestOK'
  BY <1>5, <1>e, <1>r DEF ContinueAsNew, history
<1>6. ASSUME NEW v \in Versions, FlagsRead(v) PROVE RestOK'
  BY <1>6 DEF FlagsRead, history, Db
<1>7. ASSUME NEW v \in Versions, FlagApplied(v) PROVE RestOK'
  BY <1>7 DEF FlagApplied, GetsFlag, history, Db, Version0
<1>8. ASSUME NEW v \in Versions, Simulated(v) PROVE RestOK'
  BY <1>8 DEF Simulated, history
<1>9. ASSUME NEW v \in Versions, TrafficRouted(v) PROVE RestOK'
  BY <1>9 DEF TrafficRouted, history, Version0
<1>10. ASSUME NEW v \in Versions, ActivityFails(v) PROVE RestOK'
  BY <1>10 DEF ActivityFails, GetsFlag, history, Version0
<1>11. ASSUME NEW v \in Version0, RolloutStarts(v) PROVE RestOK'
  <2>1. /\ rollout' = [running |-> TRUE, version |-> v]
        /\ started' = [started EXCEPT !["rollout"] = @ + 1]
        /\ UNCHANGED <<open, db, seq, migration, cleaning, serving, deploys,
                       refused, mixed>>
    BY <1>11 DEF RolloutStarts
  <2>2. rollout' \in [running : BOOLEAN, version : Version0]
    BY <2>1
  <2>3. started' \in [Children -> Nat]
    BY <2>1 DEF Children
  <2> QED BY <2>1, <2>2, <2>3
<1>12. ASSUME NEW v \in Version0, RolloutRefused(v) PROVE RestOK'
  BY <1>12 DEF RolloutRefused, Refused, history
<1>13. ASSUME RolloutSucceeds PROVE RestOK'
  BY <1>13, <1>r DEF RolloutSucceeds, RolloutEnds, history, Version0
<1>14. ASSUME RolloutFails PROVE RestOK'
  BY <1>14, <1>r DEF RolloutFails, RolloutEnds, history
<1>15. ASSUME NEW v \in Version0, MigrationStarts(v) PROVE RestOK'
  <2>1. /\ migration' = [state |-> "running", version |-> v]
        /\ started' = [started EXCEPT !["migration"] = @ + 1]
        /\ UNCHANGED <<open, db, seq, rollout, cleaning, serving, deploys,
                       refused, mixed>>
        /\ v # None
    BY <1>15, <1>m DEF MigrationStarts
  <2> QED BY <2>1 DEF Children
<1>16. ASSUME NEW v \in Version0, MigrationRefused(v) PROVE RestOK'
  BY <1>16 DEF MigrationRefused, Refused, history
<1>17. ASSUME MigrationSucceeds PROVE RestOK'
  BY <1>17 DEF MigrationSucceeds, MigrationEnds, history, Version0
<1>18. ASSUME MigrationSticks PROVE RestOK'
  BY <1>18 DEF MigrationSticks, history
<1>19. ASSUME MigrationTerminated PROVE RestOK'
  BY <1>19 DEF MigrationTerminated, MigrationEnds, history, Version0
<1>20. ASSUME NEW v \in Versions, CleanupEnds(v) PROVE RestOK'
  BY <1>20 DEF CleanupEnds, history
<1>21. ASSUME NEW told \in RolloutEnd, NEW v \in Version0, RolloutDone(told, v) PROVE RestOK'
  BY <1>21, <1>r DEF RolloutDone, Close, history, Db, ExitOf, Exits
<1>22. ASSUME NEW told \in MigrationEnd, NEW v \in Version0, MigrationDone(told, v) PROVE RestOK'
  BY <1>22, <1>r DEF MigrationDone, Close, history, Db, ExitOf, Exits
<1>23. ASSUME NEW v \in Version0, CleanupStarts(v) PROVE RestOK'
  <2>1. /\ open' = FALSE /\ rollout' = NoRollout
        /\ cleaning' = cleaning \cup {v} /\ v # None
        /\ UNCHANGED <<db, seq, migration, history>>
    BY <1>23, <1>m DEF CleanupStarts, Close
  <2> QED BY <1>r, <2>1 DEF history, Version0
<1>24. ASSUME NEW v \in Version0, CleanupRefused(v) PROVE RestOK'
  BY <1>24 DEF CleanupRefused, Refused, history
<1>25. ASSUME UNCHANGED vars PROVE RestOK'
  BY <1>25 DEF vars, history
<1> QED
  BY <1>1, <1>2, <1>3, <1>4, <1>5, <1>6, <1>7, <1>8, <1>9, <1>10, <1>11, <1>12, <1>13, <1>14, <1>15, <1>16, <1>17, <1>18, <1>19, <1>20, <1>21, <1>22, <1>23, <1>24, <1>25
     DEF Next, Client, Faults, Activity, Child

(* A step that moves or ends one handler, or all, and has little to do with *)
(* rollouts.                                                               *)
LEMMA OpenAt ==
  ASSUME Attended, NEW a \in Awaits, NEW v \in Version0, handlers[a][v] > 0
  PROVE  open
BY DEF Attended

LEMMA MovesKeeps ==
  ASSUME TypeInv, NEW a \in Awaits, NEW v \in Version0, handlers[a][v] > 0,
         NEW c \in Awaits, NEW u \in Version0, Moves(a, v, c, u),
         u # None \/ c \in Versionless,
         a # c, a # "rollout", UNCHANGED <<open, rollout>>
  PROVE  HandlersOK' /\ Attended'
<1>1. /\ None \in Version0 /\ handlers \in Counts /\ "rollout" \in Awaits
      /\ rollout.version \in Version0
  BY DEF TypeInv, HandlersOK, RestOK, Version0, Awaits
<1>2. ASSUME NEW b \in Awaits, handlers'[b][None] > 0
      PROVE  b \in Versionless
  <2>1. handlers[b][None] > 0 \/ (b = c /\ u = None)
    BY <1>1, <1>2 DEF Moves, Counts
  <2> QED BY <2>1 DEF TypeInv, HandlersOK
<1>3. open
  BY DEF TypeInv, Attended
<1>4. rollout'.running => handlers'["rollout"][rollout'.version] > 0
  <2>1. handlers'["rollout"][rollout.version] >= handlers["rollout"][rollout.version]
    BY <1>1 DEF Moves, Counts
  <2> QED BY <1>1, <2>1 DEF TypeInv, Attended, Moves, Counts
<1> QED BY <1>2, <1>3, <1>4 DEF HandlersOK, Attended, Moves

LEMMA DropsKeeps ==
  ASSUME TypeInv, NEW a \in Awaits, NEW v \in Version0, handlers[a][v] > 0,
         Drops(a, v), a # "rollout", UNCHANGED <<open, rollout>>
  PROVE  HandlersOK' /\ Attended'
<1>1. /\ None \in Version0 /\ handlers \in Counts /\ "rollout" \in Awaits
      /\ rollout.version \in Version0
  BY DEF TypeInv, HandlersOK, RestOK, Version0, Awaits
<1>2. ASSUME NEW b \in Awaits, handlers'[b][None] > 0
      PROVE  b \in Versionless
  <2>1. handlers[b][None] > 0
    BY <1>1, <1>2 DEF Drops, Counts
  <2> QED BY <2>1 DEF TypeInv, HandlersOK
<1>3. open
  BY DEF TypeInv, Attended
<1>4. handlers'["rollout"][rollout.version] = handlers["rollout"][rollout.version]
  BY <1>1 DEF Drops
<1> QED BY <1>2, <1>3, <1>4 DEF HandlersOK, Attended, Drops, TypeInv

LEMMA EmptiesKeeps ==
  ASSUME RestOK, Empties, rollout' = NoRollout
  PROVE  HandlersOK' /\ Attended'
<1>1. None \in Version0 /\ ~rollout'.running
  BY DEF NoRollout, Version0
<1>2. \A a \in Awaits : ~(handlers'[a][None] > 0)
  BY <1>1 DEF Empties
<1> QED BY <1>1, <1>2 DEF HandlersOK, Attended, Empties

LEMMA RolloutEndsKeeps ==
  ASSUME TypeInv, NEW told \in RolloutEnd, RolloutEnds(told), rollout.running,
         UNCHANGED open
  PROVE  /\ Moves("rollout", rollout.version, told, rollout.version)
         /\ ~rollout'.running /\ open
         /\ HandlersOK' /\ Attended'
<1>1. /\ None \in Version0 /\ handlers \in Counts
      /\ "rollout" \in Awaits /\ told \in Awaits
      /\ rollout.version \in Version0 /\ handlers["rollout"][rollout.version] > 0
  BY DEF TypeInv, HandlersOK, RestOK, Attended, Version0, Awaits, RolloutEnd
<1>2. Moves("rollout", rollout.version, told, rollout.version)
  BY <1>1, RolloutEndsAt
<1>3. ASSUME NEW b \in Awaits, handlers'[b][None] > 0
      PROVE  b \in Versionless
  <2>1. handlers[b][None] > 0 \/ b = told
    BY <1>1, <1>2, <1>3 DEF Moves, Counts
  <2> QED BY <2>1 DEF TypeInv, HandlersOK, Versionless
<1>4. open /\ ~rollout'.running
  BY <1>1 DEF TypeInv, Attended, RolloutEnds, NoRollout
<1> QED BY <1>2, <1>3, <1>4 DEF HandlersOK, Attended, Moves

LEMMA MigrationEndsKeeps ==
  ASSUME TypeInv, NEW told \in MigrationEnd, MigrationEnds(told),
         migration.state # "none", UNCHANGED <<open, rollout>>
  PROVE  HandlersOK' /\ Attended'
<1>1. /\ handlers \in Counts /\ migration.version \in Version0
      /\ migration.version # None
      /\ "migration" \in Awaits /\ told \in Awaits /\ told # "migration"
  BY DEF TypeInv, HandlersOK, RestOK, Awaits, MigrationEnd
<1>2. CASE handlers["migration"][migration.version] > 0
  <2>1. Moves("migration", migration.version, told, migration.version)
    BY <1>1, <1>2, MigrationEndsAt
  <2> QED BY <1>1, <1>2, <2>1, MovesKeeps
<1>3. CASE ~(handlers["migration"][migration.version] > 0)
  <2>1. handlers' = handlers
    BY <1>1, <1>3, MigrationEndsAt
  <2> QED BY <2>1 DEF TypeInv, HandlersOK, Attended
<1> QED BY <1>2, <1>3

LEMMA HandlersStep == TypeInv /\ [Next]_vars => HandlersOK' /\ Attended'
<1> SUFFICES ASSUME TypeInv, [Next]_vars PROVE HandlersOK' /\ Attended'
  OBVIOUS
<1>t. /\ handlers \in Counts /\ db \in Db /\ Versions \subseteq Version0
      /\ None \in Version0 /\ db.from \in Version0
      /\ rollout \in [running : BOOLEAN, version : Version0]
      /\ migration.version \in Version0
      /\ migration.state # "none" => migration.version # None
      /\ RestOK /\ Attended /\ HandlersOK
  BY DEF TypeInv, HandlersOK, RestOK, Version0, Db
<1>n. \A v \in Versions : v \in Version0 /\ v # None
  BY <1>t, VersionAssumption
<1>1. ASSUME NEW v \in Versions, Deploy(v) PROVE HandlersOK' /\ Attended'
  <2>1. CASE open
    <3>1. Adds("flags", v) /\ open' = open /\ rollout' = rollout
      BY <1>t, <1>1, <2>1, DeployAt DEF Deploy
    <3>2. \A b \in Awaits : handlers'[b][None] = handlers[b][None]
      BY <1>t, <1>n, <3>1 DEF Adds
    <3>3. "rollout" \in Awaits /\ \A w \in Version0 :
            handlers'["rollout"][w] = handlers["rollout"][w]
      BY <3>1 DEF Adds, Awaits
    <3> QED BY <1>t, <2>1, <3>1, <3>2, <3>3 DEF HandlersOK, Attended, Adds
  <2>2. CASE ~open
    <3>1. EmptiesBut("flags", v) /\ open' /\ rollout' = rollout
      BY <1>t, <1>1, <2>2, DeployAt DEF Deploy
    <3>2. \A b \in Awaits : ~(handlers'[b][None] > 0)
      BY <1>t, <1>n, <3>1 DEF EmptiesBut
    <3>3. ~rollout'.running
      <4>1. "rollout" \in Awaits /\ rollout.version \in Version0
        BY <1>t DEF Awaits
      <4>2. rollout.running => open
        BY <1>t, <4>1, OpenAt DEF Attended
      <4> QED BY <2>2, <3>1, <4>2
    <3> QED BY <3>1, <3>2, <3>3 DEF HandlersOK, Attended, EmptiesBut
  <2> QED BY <2>1, <2>2
<1>2. ASSUME SignalStartRollout PROVE HandlersOK' /\ Attended'
  <2>1. /\ open /\ open' = open /\ rollout' = rollout /\ handlers' \in Counts
        /\ \A b \in Awaits, w \in Version0 : AsksRollout(b, w)
    BY <1>t, <1>2, SignalStartRolloutAt DEF SignalStartRollout
  <2>2. \A b \in Awaits : handlers'[b][None] > 0 => b \in Versionless
    BY <1>t, <2>1 DEF AsksRollout, HandlersOK, Versionless
  <2>3. "rollout" \in Awaits /\ \A w \in Version0 :
          handlers'["rollout"][w] = handlers["rollout"][w]
    BY <2>1 DEF AsksRollout, Awaits
  <2> QED BY <1>t, <2>1, <2>2, <2>3 DEF HandlersOK, Attended
<1>3. ASSUME SignalStartMigration PROVE HandlersOK' /\ Attended'
  <2>1. /\ open /\ open' = open /\ rollout' = rollout /\ handlers' \in Counts
        /\ \A b \in Awaits, w \in Version0 : AsksMigration(b, w)
    BY <1>t, <1>3, SignalStartMigrationAt DEF SignalStartMigration
  <2>2. \A b \in Awaits : handlers'[b][None] > 0 => b \in Versionless
    BY <1>t, <2>1 DEF AsksMigration, HandlersOK
  <2>3. "rollout" \in Awaits /\ \A w \in Version0 :
          handlers'["rollout"][w] = handlers["rollout"][w]
    BY <2>1 DEF AsksMigration, Awaits
  <2> QED BY <1>t, <2>1, <2>2, <2>3 DEF HandlersOK, Attended
<1>4. ASSUME CancelRollout PROVE HandlersOK' /\ Attended'
  <2>1. CASE rollout.running /\ RolloutEnds("rollout error")
    BY <1>4, <2>1, RolloutEndsKeeps DEF CancelRollout, RolloutEnd
  <2>2. CASE UNCHANGED <<rollout, handlers>>
    BY <1>t, <1>4, <2>2 DEF CancelRollout, HandlersOK, Attended
  <2> QED BY <1>4, <2>1, <2>2 DEF CancelRollout
<1>5. ASSUME ContinueAsNew PROVE HandlersOK' /\ Attended'
  BY <1>t, <1>5, EmptiesAt, EmptiesKeeps DEF ContinueAsNew
<1>6. ASSUME NEW v \in Versions, FlagsRead(v) PROVE HandlersOK' /\ Attended'
  <2>1. /\ Moves("flags", v, "apply", v) /\ handlers["flags"][v] > 0
        /\ UNCHANGED <<open, rollout>>
    BY <1>t, <1>n, <1>6, ActivityAt DEF FlagsRead
  <2> QED BY <1>t, <1>n, <2>1, MovesKeeps DEF Awaits
<1>7. ASSUME NEW v \in Versions, FlagApplied(v) PROVE HandlersOK' /\ Attended'
  <2>1. /\ Moves("apply", v, "simulate", v) /\ handlers["apply"][v] > 0
        /\ UNCHANGED <<open, rollout>>
    BY <1>t, <1>n, <1>7, ActivityAt DEF FlagApplied
  <2> QED BY <1>t, <1>n, <2>1, MovesKeeps DEF Awaits
<1>8. ASSUME NEW v \in Versions, Simulated(v) PROVE HandlersOK' /\ Attended'
  <2>1. /\ handlers' \in Counts /\ handlers["simulate"][v] > 0
        /\ handlers'["simulate"][None] = handlers["simulate"][None]
        /\ \A b \in Awaits \ {"simulate"}, w \in Version0 : AsksRollout(b, w)
        /\ open' = open /\ rollout' = rollout
    BY <1>t, <1>n, <1>8, SimulatedAt DEF Simulated
  <2>2. \A b \in Awaits : handlers'[b][None] > 0 => b \in Versionless
    BY <1>t, <2>1 DEF AsksRollout, HandlersOK, Versionless
  <2>3. "rollout" \in Awaits /\ \A w \in Version0 :
          handlers'["rollout"][w] = handlers["rollout"][w]
    BY <2>1 DEF AsksRollout, Awaits
  <2>4. open
    <3>1. "simulate" \in Awaits
      BY DEF Awaits
    <3> QED BY <1>t, <1>n, <2>1, <3>1, OpenAt
  <2> QED BY <1>t, <2>1, <2>2, <2>3, <2>4 DEF HandlersOK, Attended
<1>9. ASSUME NEW v \in Versions, TrafficRouted(v) PROVE HandlersOK' /\ Attended'
  <2>1. /\ Drops("traffic", v) /\ handlers["traffic"][v] > 0
        /\ UNCHANGED <<open, rollout>>
    BY <1>t, <1>n, <1>9, ActivityAt DEF TrafficRouted, history
  <2> QED BY <1>t, <1>n, <2>1, DropsKeeps DEF Awaits
<1>10. ASSUME NEW v \in Versions, ActivityFails(v)
      PROVE  HandlersOK' /\ Attended'
  <2>1. PICK a \in {"flags", "apply", "simulate", "traffic"} :
          /\ handlers[a][v] > 0 /\ handlers' = Drop(handlers, a, v)
          /\ UNCHANGED <<open, rollout>>
    BY <1>10 DEF ActivityFails
  <2>2. a \in Awaits /\ a # "rollout"
    BY DEF Awaits
  <2>3. Drops(a, v)
    BY <1>t, <1>n, <2>1, <2>2, DropsAt
  <2> QED BY <1>n, <2>1, <2>2, <2>3, DropsKeeps
<1>11. ASSUME NEW v \in Version0, RolloutStarts(v)
      PROVE  HandlersOK' /\ Attended'
  <2>1. /\ handlers' \in Counts /\ handlers["start rollout"][v] > 0
        /\ rollout'.version = v /\ open' = open
        /\ handlers'["rollout"][v] = handlers["rollout"][v] + 1
        /\ \A b \in Awaits \ {"start rollout", "rollout"}, w \in Version0 :
             AsksMigration(b, w)
    BY <1>t, <1>11, RolloutStartsAt DEF RolloutStarts
  <2>2. \A b \in Awaits : handlers'[b][None] > 0 => b \in Versionless
    BY <1>t, <2>1 DEF AsksMigration, HandlersOK, Versionless
  <2>3. open /\ handlers["rollout"][v] \in Nat
    <3>1. "start rollout" \in Awaits /\ "rollout" \in Awaits
      BY DEF Awaits
    <3> QED BY <1>t, <2>1, <3>1, OpenAt DEF Counts
  <2>4. handlers'["rollout"][v] > 0
    <3> DEFINE n == handlers["rollout"][v]
    <3>1. n \in Nat /\ handlers'["rollout"][v] = n + 1
      BY <2>1, <2>3
    <3> HIDE DEF n
    <3> QED BY <3>1
  <2> QED BY <2>1, <2>2, <2>3, <2>4 DEF HandlersOK, Attended
<1>12. ASSUME NEW v \in Version0, RolloutRefused(v)
      PROVE  HandlersOK' /\ Attended'
  <2>1. /\ Drops("start rollout", v) /\ handlers["start rollout"][v] > 0
        /\ UNCHANGED <<open, rollout>>
    BY <1>t, <1>n, <1>12, ChildAt DEF RolloutRefused, Refused
  <2> QED BY <1>t, <1>n, <2>1, DropsKeeps DEF Awaits
<1>13. ASSUME RolloutSucceeds PROVE HandlersOK' /\ Attended'
  <2>1. rollout.running /\ RolloutEnds("rollout ok") /\ UNCHANGED open
    BY <1>13 DEF RolloutSucceeds
  <2> QED BY <2>1, RolloutEndsKeeps DEF RolloutEnd
<1>14. ASSUME RolloutFails PROVE HandlersOK' /\ Attended'
  <2>1. rollout.running /\ RolloutEnds("rollout error") /\ UNCHANGED open
    BY <1>14 DEF RolloutFails
  <2> QED BY <2>1, RolloutEndsKeeps DEF RolloutEnd
<1>15. ASSUME NEW v \in Version0, MigrationStarts(v)
      PROVE  HandlersOK' /\ Attended'
  <2>1. /\ Moves("start migration", v, "migration", v)
        /\ handlers["start migration"][v] > 0 /\ UNCHANGED <<open, rollout>>
    BY <1>t, <1>15, ChildAt DEF MigrationStarts
  <2>2. v # None
    BY <1>t, <2>1 DEF HandlersOK, Awaits, Versionless, RolloutEnd
  <2> QED BY <2>1, <2>2, MovesKeeps DEF Awaits
<1>16. ASSUME NEW v \in Version0, MigrationRefused(v)
      PROVE  HandlersOK' /\ Attended'
  <2>1. /\ Drops("start migration", v) /\ handlers["start migration"][v] > 0
        /\ UNCHANGED <<open, rollout>>
    BY <1>t, <1>n, <1>16, ChildAt DEF MigrationRefused, Refused
  <2> QED BY <1>t, <1>n, <2>1, DropsKeeps DEF Awaits
<1>17. ASSUME MigrationSucceeds PROVE HandlersOK' /\ Attended'
  <2>1. /\ MigrationEnds("migration ok") /\ UNCHANGED <<open, rollout>>
        /\ migration.state # "none"
    BY <1>17 DEF MigrationSucceeds
  <2> QED BY <1>t, <2>1, MigrationEndsKeeps DEF MigrationEnd
<1>18. ASSUME MigrationSticks PROVE HandlersOK' /\ Attended'
  BY <1>t, <1>18 DEF MigrationSticks, HandlersOK, Attended
<1>19. ASSUME MigrationTerminated PROVE HandlersOK' /\ Attended'
  <2>1. /\ MigrationEnds("migration error") /\ UNCHANGED <<open, rollout>>
        /\ migration.state # "none"
    BY <1>19 DEF MigrationTerminated
  <2> QED BY <1>t, <2>1, MigrationEndsKeeps DEF MigrationEnd
<1>20. ASSUME NEW v \in Versions, CleanupEnds(v) PROVE HandlersOK' /\ Attended'
  BY <1>t, <1>20 DEF CleanupEnds, HandlersOK, Attended
<1>21. ASSUME NEW told \in RolloutEnd, NEW v \in Version0, RolloutDone(told, v)
      PROVE  HandlersOK' /\ Attended'
  <2>1. told \in Awaits /\ told # "rollout" /\ told # "start cleanup"
        /\ "start cleanup" \in Awaits
    BY DEF RolloutEnd, Awaits
  <2>2. CASE /\ db.from # None /\ Moves(told, v, "start cleanup", db.from)
             /\ handlers[told][v] > 0 /\ UNCHANGED <<open, rollout>>
    BY <1>t, <2>1, <2>2, MovesKeeps
  <2>3. CASE Drops(told, v) /\ handlers[told][v] > 0 /\ UNCHANGED <<open, rollout>>
    BY <1>t, <2>1, <2>3, DropsKeeps
  <2>4. CASE Closes
    BY <1>t, <2>4, EmptiesKeeps DEF Closes
  <2> QED BY <1>t, <1>21, <2>2, <2>3, <2>4, RolloutDoneAt
<1>22. ASSUME NEW told \in MigrationEnd, NEW v \in Version0, MigrationDone(told, v)
      PROVE  HandlersOK' /\ Attended'
  <2>1. told \in Awaits /\ told # "rollout"
    BY DEF MigrationEnd, Awaits
  <2>2. CASE Drops(told, v) /\ handlers[told][v] > 0 /\ UNCHANGED <<open, rollout>>
    BY <1>t, <2>1, <2>2, DropsKeeps
  <2>3. CASE Closes
    BY <1>t, <2>3, EmptiesKeeps DEF Closes
  <2> QED BY <1>t, <1>22, <2>2, <2>3, MigrationDoneAt
<1>23. ASSUME NEW v \in Version0, CleanupStarts(v)
      PROVE  HandlersOK' /\ Attended'
  <2>1. Empties /\ rollout' = NoRollout
    BY <1>t, <1>23, ChildAt DEF CleanupStarts, Close
  <2> QED BY <1>t, <2>1, EmptiesKeeps
<1>24. ASSUME NEW v \in Version0, CleanupRefused(v)
      PROVE  HandlersOK' /\ Attended'
  <2>1. /\ Drops("start cleanup", v) /\ handlers["start cleanup"][v] > 0
        /\ UNCHANGED <<open, rollout>>
    BY <1>t, <1>n, <1>24, ChildAt DEF CleanupRefused, Refused
  <2> QED BY <1>t, <1>n, <2>1, DropsKeeps DEF Awaits
<1>25. ASSUME UNCHANGED vars PROVE HandlersOK' /\ Attended'
  BY <1>t, <1>25 DEF vars, HandlersOK, Attended
<1> QED
  BY <1>1, <1>2, <1>3, <1>4, <1>5, <1>6, <1>7, <1>8, <1>9, <1>10, <1>11, <1>12, <1>13, <1>14, <1>15, <1>16, <1>17, <1>18, <1>19, <1>20, <1>21, <1>22, <1>23, <1>24, <1>25
     DEF Next, Client, Faults, Activity, Child

LEMMA TypeStep == TypeInv /\ [Next]_vars => TypeInv'
BY RestStep, BoundsStep, HandlersStep DEF TypeInv

LEMMA TypeAlways == Spec => []TypeInv
BY TypeInit, TypeStep, PTL DEF Spec

\* Every variable of the deployment workflow has its type, whatever the order of
\* signals, results and failures; only a rollout can be without a version.
THEOREM TypeCorrect == Spec => []TypeOK
<1>1. TypeInv => TypeOK
  BY TypeParts DEF TypeInv
<1> QED BY <1>1, TypeAlways, PTL

-----------------------------------------------------------------------------
(* What a step does to what decides the end: the results of rollout and    *)
(* migration, the handlers that wait for them or bring them, and the start *)
(* of the cleanup.                                                         *)

Watched == RolloutEnd \cup MigrationEnd \cup {"migration", "start cleanup"}

Keeps(b) == \A w \in Version0 : handlers'[b][w] = handlers[b][w]

ExitsKept == db'.rollout = db.rollout /\ db'.migration = db.migration

\* What one deployment of the execution has said of migrating stays, unless
\* another says otherwise, and that is not forgotten.
ConfigStays ==
  /\ mixed => mixed'
  /\ ~mixed' => db.config \in {"none", db'.config}

\* One that does not migrate asks for no migration; one that asks gets its
\* migration, or is refused it.
UnaskedStays ==
  /\ ConfigStays
  /\ db.config # "migratory" /\ (\A w \in Version0 : handlers["start migration"][w] = 0)
       => \A w \in Version0 : handlers'["start migration"][w] = 0
  /\ ~refused' /\ started'["migration"] = started["migration"] =>
       \A w \in Version0 :
         handlers["start migration"][w] # 0 => handlers'["start migration"][w] # 0

Cleared ==
  /\ ~rollout'.running /\ migration' = migration
  /\ \A b \in Watched, w \in Version0 : handlers'[b][w] = 0
  /\ \A w \in Version0 : handlers'["start migration"][w] = 0

Quiet ==
  /\ \A b \in Watched : Keeps(b)
  /\ UnaskedStays /\ ExitsKept
  /\ (open' <=> open) /\ started' = started /\ (refused => refused')
  /\ rollout' = rollout
  /\ migration'.version = migration.version
  /\ migration.state # "none" => migration'.state # "none"

Restarts ==
  /\ Cleared /\ open'
  /\ db'.rollout = "none" /\ db'.migration = "none" /\ started' = NoneStarted

Ends ==
  /\ Cleared /\ open /\ ~open' /\ started' = started
  /\ \/ /\ \E told \in RolloutEnd, v \in Version0 : handlers[told][v] > 0
        /\ db.config = "nonMigratory" \/ db.migration # "none"
        /\ db'.migration = db.migration
     \/ /\ \E told \in MigrationEnd, v \in Version0 : handlers[told][v] > 0
        /\ db.rollout # "none"
        /\ db'.rollout = db.rollout
     \/ /\ \E v \in Version0 : handlers["start cleanup"][v] > 0
        /\ ExitsKept

RolloutBegins ==
  /\ \A b \in Watched : Keeps(b)
  /\ UnaskedStays /\ ExitsKept
  /\ open /\ open' /\ (refused => refused') /\ migration' = migration
  /\ ~rollout.running /\ rollout'.running /\ \E v \in Version0 : RolloutStarts(v)
  /\ started'["rollout"] = started["rollout"] + 1
  /\ started'["migration"] = started["migration"]

RolloutIsOver(told) ==
  /\ \A b \in Watched \ {told} : Keeps(b)
  /\ UnaskedStays /\ ExitsKept
  /\ open /\ open' /\ (refused => refused') /\ migration' = migration
  /\ rollout.running /\ ~rollout'.running /\ started' = started
  /\ \E v \in Version0 : handlers'[told][v] > 0
  /\ \A v \in Version0 : handlers'[told][v] > 0 =>
       handlers[told][v] > 0 \/ v = rollout.version
  /\ told = "rollout ok" => rollout.version # None

MigrationBegins(v) ==
  /\ \A b \in Watched \ {"migration"} : Keeps(b)
  /\ handlers'["migration"][v] = handlers["migration"][v] + 1
  /\ \A w \in Version0 \ {v} : handlers'["migration"][w] = handlers["migration"][w]
  /\ handlers["start migration"][v] # 0 /\ UnaskedStays /\ ExitsKept
  /\ open /\ open' /\ (refused => refused')
  /\ rollout' = rollout
  /\ migration.state = "none" /\ migration'.state = "running"
  /\ migration'.version = v
  /\ started'["rollout"] = started["rollout"]
  /\ started'["migration"] = started["migration"] + 1

MigrationIsOver(told) ==
  /\ \A b \in Watched \ {told, "migration"} : Keeps(b)
  /\ LET v == migration.version
     IN  \/ /\ Keeps(told) /\ Keeps("migration")
            /\ handlers["migration"][v] = 0
         \/ /\ handlers["migration"][v] # 0
            /\ handlers'["migration"][v] = handlers["migration"][v] - 1
            /\ \A w \in Version0 \ {v} :
                 handlers'["migration"][w] = handlers["migration"][w]
            /\ handlers'[told][v] > 0
  /\ UnaskedStays /\ ExitsKept
  /\ (open' <=> open) /\ (refused => refused') /\ started' = started
  /\ rollout' = rollout /\ migration.state # "none"

RolloutHeard(told, v) ==
  /\ handlers[told][v] > 0
  /\ \A b \in Watched \ {told, "start cleanup"} : Keeps(b)
  /\ \/ /\ db.config = "nonMigratory"
        /\ \E w \in Version0 : handlers'["start cleanup"][w] > 0
     \/ /\ db.config # "nonMigratory" /\ db.migration = "none"
        /\ Keeps("start cleanup")
  /\ db'.config = db.config
  /\ \A w \in Version0 : handlers'[told][w] > 0 => handlers[told][w] > 0
  /\ db'.rollout = "ok" => told = "rollout ok"
  /\ UnaskedStays /\ db'.rollout # "none" /\ db'.migration = db.migration
  /\ open /\ open' /\ (refused => refused') /\ started' = started
  /\ rollout' = rollout /\ migration' = migration

MigrationHeard(told, v) ==
  /\ handlers[told][v] > 0
  /\ \A b \in Watched \ {told} : Keeps(b)
  /\ UnaskedStays /\ db.rollout = "none" /\ db'.rollout = "none"
  /\ db'.migration # "none"
  /\ open /\ open' /\ (refused => refused') /\ started' = started
  /\ rollout' = rollout /\ migration' = migration

CleanupIsRefused ==
  /\ \A b \in Watched \ {"start cleanup"} : Keeps(b)
  /\ \A w \in Version0 :
       handlers["start cleanup"][w] = 0 => handlers'["start cleanup"][w] = 0
  /\ UnaskedStays /\ ExitsKept
  /\ (open' <=> open) /\ refused' /\ started' = started
  /\ rollout' = rollout /\ migration' = migration

Effect ==
  \/ Quiet \/ Restarts \/ Ends \/ RolloutBegins
  \/ \E told \in RolloutEnd : RolloutIsOver(told)
  \/ \E v \in Version0 : MigrationBegins(v)
  \/ \E told \in MigrationEnd : MigrationIsOver(told)
  \/ \E told \in RolloutEnd, v \in Version0 : RolloutHeard(told, v)
  \/ \E told \in MigrationEnd, v \in Version0 : MigrationHeard(told, v)
  \/ CleanupIsRefused

-----------------------------------------------------------------------------
(* Invariants of Effect: a child of which at most one was started has no   *)
(* result while it runs.                                                   *)

RolloutRuns == rollout.running => open /\ started["rollout"] > 0

NoResult ==
  started["rollout"] = 0 \/ (started["rollout"] = 1 /\ rollout.running)

RolloutSilent ==
  NoResult =>
    /\ db.rollout = "none"
    /\ \A told \in RolloutEnd, v \in Version0 : handlers[told][v] = 0

CleanupLast ==
  \A v \in Version0 : handlers["start cleanup"][v] # 0 =>
    /\ db.rollout # "none"
    /\ mixed \/ db.config = "nonMigratory"

MigrationAwaited == \E v \in Version0 : handlers["migration"][v] # 0

OneAwaits ==
  \A v \in Version0 : handlers["migration"][v] # 0 =>
    /\ handlers["migration"][v] = 1
    /\ migration.state # "none" /\ v = migration.version

MigrationStarted == MigrationAwaited => started["migration"] # 0

NoExit ==
  started["migration"] = 0 \/ (started["migration"] = 1 /\ MigrationAwaited)

MigrationSilent ==
  NoExit =>
    /\ db.migration = "none"
    /\ \A told \in MigrationEnd, v \in Version0 : handlers[told][v] = 0

NotAsked ==
  ~mixed /\ db.config # "migratory" =>
    \A v \in Version0 : /\ handlers["start migration"][v] = 0
                        /\ handlers["migration"][v] = 0

EndInv == /\ RolloutRuns /\ RolloutSilent /\ CleanupLast
          /\ OneAwaits /\ MigrationStarted /\ MigrationSilent /\ NotAsked

LEMMA WatchedKinds ==
  /\ RolloutEnd \subseteq Watched /\ MigrationEnd \subseteq Watched
  /\ "migration" \in Watched /\ "start cleanup" \in Watched
  /\ "migration" # "start cleanup"
  /\ \A told \in RolloutEnd :
       told \notin MigrationEnd \cup {"migration", "start cleanup"}
  /\ \A told \in MigrationEnd : told \notin {"migration", "start cleanup"}
BY DEF Watched, RolloutEnd, MigrationEnd

LEMMA RolloutRunsStep ==
  ASSUME TypeInv, RolloutRuns, Effect
  PROVE  RolloutRuns'
<1>t. started["rollout"] \in Nat /\ started["migration"] \in Nat
  BY DEF TypeInv, RestOK, Children
<1>1. CASE Quiet
  BY <1>1, <1>t, WatchedKinds DEF Quiet, Keeps, ExitsKept, UnaskedStays, RolloutRuns
<1>2. CASE Restarts
  BY <1>2, <1>t, WatchedKinds DEF Restarts, Cleared, NoneStarted, Children, RolloutRuns
<1>3. CASE Ends
  BY <1>3, <1>t, WatchedKinds DEF Ends, Cleared, ExitsKept, RolloutRuns
<1>4. CASE RolloutBegins
  <2>1. open' /\ started'["rollout"] = started["rollout"] + 1
    BY <1>4 DEF RolloutBegins
  <2> QED BY <1>t, <2>1 DEF RolloutRuns
<1>5. ASSUME NEW told \in RolloutEnd, RolloutIsOver(told) PROVE RolloutRuns'
  BY <1>5, <1>t, WatchedKinds DEF RolloutIsOver, Keeps, ExitsKept, UnaskedStays, RolloutRuns
<1>6. ASSUME NEW v \in Version0, MigrationBegins(v) PROVE RolloutRuns'
  BY <1>6, <1>t, WatchedKinds DEF MigrationBegins, Keeps, ExitsKept, UnaskedStays, RolloutRuns
<1>7. ASSUME NEW told \in MigrationEnd, MigrationIsOver(told) PROVE RolloutRuns'
  BY <1>7, <1>t, WatchedKinds DEF MigrationIsOver, Keeps, ExitsKept, UnaskedStays, RolloutRuns
<1>8. ASSUME NEW told \in RolloutEnd, NEW v \in Version0, RolloutHeard(told, v)
      PROVE  RolloutRuns'
  BY <1>8, <1>t, WatchedKinds DEF RolloutHeard, Keeps, UnaskedStays, RolloutRuns
<1>9. ASSUME NEW told \in MigrationEnd, NEW v \in Version0, MigrationHeard(told, v)
      PROVE  RolloutRuns'
  BY <1>9, <1>t, WatchedKinds DEF MigrationHeard, Keeps, UnaskedStays, RolloutRuns
<1>10. CASE CleanupIsRefused
  BY <1>10, <1>t, WatchedKinds DEF CleanupIsRefused, Keeps, ExitsKept, UnaskedStays, RolloutRuns
<1> QED
  BY <1>1, <1>2, <1>3, <1>4, <1>5, <1>6, <1>7, <1>8, <1>9, <1>10 DEF Effect

LEMMA NoResultStep ==
  ASSUME TypeInv, RolloutRuns, NoResult', Effect
  PROVE  NoResult \/ Restarts
<1>t. started["rollout"] \in Nat /\ started["migration"] \in Nat
  BY DEF TypeInv, RestOK, Children
<1>1. CASE Quiet
  BY <1>1, <1>t, WatchedKinds DEF Quiet, Keeps, ExitsKept, UnaskedStays, RolloutRuns, NoResult
<1>2. CASE Restarts
  BY <1>2, <1>t, WatchedKinds DEF Restarts, Cleared, NoneStarted, Children, RolloutRuns, NoResult
<1>3. CASE Ends
  BY <1>3, <1>t, WatchedKinds DEF Ends, Cleared, ExitsKept, RolloutRuns, NoResult
<1>4. CASE RolloutBegins
  <2>1. started'["rollout"] = started["rollout"] + 1
    BY <1>4 DEF RolloutBegins
  <2> QED BY <1>t, <2>1 DEF NoResult
<1>5. ASSUME NEW told \in RolloutEnd, RolloutIsOver(told) PROVE NoResult \/ Restarts
  BY <1>5, <1>t, WatchedKinds DEF RolloutIsOver, Keeps, ExitsKept, UnaskedStays, RolloutRuns, NoResult
<1>6. ASSUME NEW v \in Version0, MigrationBegins(v) PROVE NoResult \/ Restarts
  BY <1>6, <1>t, WatchedKinds DEF MigrationBegins, Keeps, ExitsKept, UnaskedStays, RolloutRuns, NoResult
<1>7. ASSUME NEW told \in MigrationEnd, MigrationIsOver(told) PROVE NoResult \/ Restarts
  BY <1>7, <1>t, WatchedKinds DEF MigrationIsOver, Keeps, ExitsKept, UnaskedStays, RolloutRuns, NoResult
<1>8. ASSUME NEW told \in RolloutEnd, NEW v \in Version0, RolloutHeard(told, v)
      PROVE  NoResult \/ Restarts
  BY <1>8, <1>t, WatchedKinds DEF RolloutHeard, Keeps, UnaskedStays, RolloutRuns, NoResult
<1>9. ASSUME NEW told \in MigrationEnd, NEW v \in Version0, MigrationHeard(told, v)
      PROVE  NoResult \/ Restarts
  BY <1>9, <1>t, WatchedKinds DEF MigrationHeard, Keeps, UnaskedStays, RolloutRuns, NoResult
<1>10. CASE CleanupIsRefused
  BY <1>10, <1>t, WatchedKinds DEF CleanupIsRefused, Keeps, ExitsKept, UnaskedStays, RolloutRuns, NoResult
<1> QED
  BY <1>1, <1>2, <1>3, <1>4, <1>5, <1>6, <1>7, <1>8, <1>9, <1>10 DEF Effect

LEMMA RolloutSilentStep ==
  ASSUME TypeInv, RolloutRuns, RolloutSilent, Effect
  PROVE  RolloutSilent'
<1> SUFFICES ASSUME NoResult'
             PROVE  /\ db'.rollout = "none"
                    /\ \A told \in RolloutEnd, v \in Version0 : handlers'[told][v] = 0
  BY DEF RolloutSilent
<1>s. CASE Restarts
  BY <1>s, WatchedKinds DEF Restarts, Cleared
<1>b. ASSUME rollout.running, ~rollout'.running, started' = started PROVE FALSE
  BY <1>b DEF NoResult, RolloutRuns
<1>n. CASE NoResult
  <2>t. /\ db.rollout = "none"
        /\ \A told \in RolloutEnd, v \in Version0 : handlers[told][v] = 0
    BY <1>n DEF RolloutSilent
  <2>1. CASE Quiet
    <3>1. \A b \in RolloutEnd : Keeps(b)
      BY <2>1, WatchedKinds DEF Quiet
    <3>2. db'.rollout = db.rollout
      BY <2>1 DEF Quiet, ExitsKept
    <3> QED BY <2>t, <3>1, <3>2 DEF Keeps
  <2>2. CASE Restarts
    BY <1>s, <2>2
  <2>3. CASE Ends
    <3>1. \A told \in RolloutEnd, v \in Version0 : handlers'[told][v] = 0
      BY <2>3, WatchedKinds DEF Ends, Cleared
    <3>2. ~\E told \in RolloutEnd, v \in Version0 : handlers[told][v] > 0
      BY <2>t
    <3>3. db'.rollout = db.rollout
      BY <2>3, <3>2 DEF Ends, ExitsKept
    <3> QED BY <2>t, <3>1, <3>3
  <2>4. CASE RolloutBegins
    <3>1. \A b \in RolloutEnd : Keeps(b)
      BY <2>4, WatchedKinds DEF RolloutBegins
    <3>2. db'.rollout = db.rollout
      BY <2>4 DEF RolloutBegins, ExitsKept
    <3> QED BY <2>t, <3>1, <3>2 DEF Keeps
  <2>5. ASSUME NEW told \in RolloutEnd, RolloutIsOver(told)
        PROVE  /\ db'.rollout = "none"
               /\ \A x \in RolloutEnd, w \in Version0 : handlers'[x][w] = 0
    BY <2>5, <1>b DEF RolloutIsOver
  <2>6. ASSUME NEW v \in Version0, MigrationBegins(v)
        PROVE  /\ db'.rollout = "none"
               /\ \A x \in RolloutEnd, w \in Version0 : handlers'[x][w] = 0
    <3>1. \A b \in RolloutEnd : Keeps(b)
      BY <2>6, WatchedKinds DEF MigrationBegins
    <3>2. db'.rollout = db.rollout
      BY <2>6 DEF MigrationBegins, ExitsKept
    <3> QED BY <2>t, <3>1, <3>2 DEF Keeps
  <2>7. ASSUME NEW told \in MigrationEnd, MigrationIsOver(told)
        PROVE  /\ db'.rollout = "none"
               /\ \A x \in RolloutEnd, w \in Version0 : handlers'[x][w] = 0
    <3>1. \A b \in RolloutEnd : Keeps(b)
      BY <2>7, WatchedKinds DEF MigrationIsOver
    <3>2. db'.rollout = db.rollout
      BY <2>7 DEF MigrationIsOver, ExitsKept
    <3> QED BY <2>t, <3>1, <3>2 DEF Keeps
  <2>8. ASSUME NEW told \in RolloutEnd, NEW v \in Version0, RolloutHeard(told, v)
        PROVE  /\ db'.rollout = "none"
               /\ \A x \in RolloutEnd, w \in Version0 : handlers'[x][w] = 0
    <3>1. handlers[told][v] = 0
      BY <2>t, <2>8
    <3>2. handlers[told][v] > 0
      BY <2>8 DEF RolloutHeard
    <3> QED BY <3>1, <3>2
  <2>9. ASSUME NEW told \in MigrationEnd, NEW v \in Version0, MigrationHeard(told, v)
        PROVE  /\ db'.rollout = "none"
               /\ \A x \in RolloutEnd, w \in Version0 : handlers'[x][w] = 0
    <3>1. \A b \in RolloutEnd : Keeps(b)
      BY <2>9, WatchedKinds DEF MigrationHeard
    <3>2. db'.rollout = db.rollout
      BY <2>9 DEF MigrationHeard, ExitsKept
    <3> QED BY <2>t, <3>1, <3>2 DEF Keeps
  <2>10. CASE CleanupIsRefused
    <3>1. \A b \in RolloutEnd : Keeps(b)
      BY <2>10, WatchedKinds DEF CleanupIsRefused
    <3>2. db'.rollout = db.rollout
      BY <2>10 DEF CleanupIsRefused, ExitsKept
    <3> QED BY <2>t, <3>1, <3>2 DEF Keeps
  <2> QED
    BY <2>1, <2>2, <2>3, <2>4, <2>5, <2>6, <2>7, <2>8, <2>9, <2>10 DEF Effect
<1> QED BY <1>s, <1>n, NoResultStep

LEMMA CleanupLastStep ==
  ASSUME TypeInv, CleanupLast, Effect
  PROVE  CleanupLast'
<1>t. started["rollout"] \in Nat /\ started["migration"] \in Nat
  BY DEF TypeInv, RestOK, Children
<1>k. ASSUME Keeps("start cleanup"), UnaskedStays, db'.rollout = db.rollout
      PROVE  CleanupLast'
  BY <1>k DEF Keeps, CleanupLast, UnaskedStays, ConfigStays
<1>1. CASE Quiet
  BY <1>1, <1>k, WatchedKinds DEF Quiet, ExitsKept, UnaskedStays
<1>2. CASE Restarts
  BY <1>2, <1>t, WatchedKinds DEF Restarts, Cleared, NoneStarted, Children, CleanupLast
<1>3. CASE Ends
  BY <1>3, <1>t, WatchedKinds DEF Ends, Cleared, ExitsKept, CleanupLast
<1>4. CASE RolloutBegins
  BY <1>4, <1>k, WatchedKinds DEF RolloutBegins, ExitsKept, UnaskedStays
<1>5. ASSUME NEW told \in RolloutEnd, RolloutIsOver(told) PROVE CleanupLast'
  BY <1>5, <1>k, WatchedKinds DEF RolloutIsOver, ExitsKept, UnaskedStays
<1>6. ASSUME NEW v \in Version0, MigrationBegins(v) PROVE CleanupLast'
  BY <1>6, <1>k, WatchedKinds DEF MigrationBegins, ExitsKept, UnaskedStays
<1>7. ASSUME NEW told \in MigrationEnd, MigrationIsOver(told) PROVE CleanupLast'
  BY <1>7, <1>k, WatchedKinds DEF MigrationIsOver, ExitsKept, UnaskedStays
<1>8. ASSUME NEW told \in RolloutEnd, NEW v \in Version0, RolloutHeard(told, v)
      PROVE  CleanupLast'
  BY <1>8, <1>t, WatchedKinds DEF RolloutHeard, Keeps, UnaskedStays, ConfigStays, CleanupLast
<1>9. ASSUME NEW told \in MigrationEnd, NEW v \in Version0, MigrationHeard(told, v)
      PROVE  CleanupLast'
  BY <1>9, <1>t, WatchedKinds DEF MigrationHeard, Keeps, UnaskedStays, ConfigStays, CleanupLast
<1>10. CASE CleanupIsRefused
  BY <1>10, <1>t, WatchedKinds DEF CleanupIsRefused, Keeps, ExitsKept, UnaskedStays, ConfigStays, CleanupLast
<1> QED
  BY <1>1, <1>2, <1>3, <1>4, <1>5, <1>6, <1>7, <1>8, <1>9, <1>10 DEF Effect

LEMMA NoneAwaits ==
  ASSUME OneAwaits, NEW told \in MigrationEnd, MigrationIsOver(told),
         migration.version \in Version0
  PROVE  \A w \in Version0 : handlers'["migration"][w] = 0
<1> DEFINE v == migration.version
           h(w) == handlers["migration"][w]
<1>1. \A w \in Version0 : h(w) = 0 \/ (w = v /\ h(w) = 1)
  BY DEF OneAwaits
<1>2. CASE Keeps("migration") /\ h(v) = 0
  <2>1. \A w \in Version0 : h(w) = 0
    BY <1>1, <1>2
  <2> QED BY <1>2, <2>1 DEF Keeps
<1>3. CASE /\ h(v) # 0 /\ handlers'["migration"][v] = h(v) - 1
           /\ \A w \in Version0 \ {v} : handlers'["migration"][w] = h(w)
  <2>1. h(v) = 1
    BY <1>1, <1>3
  <2>2. handlers'["migration"][v] = 0
    BY <1>3, <2>1
  <2>3. \A w \in Version0 \ {v} : handlers'["migration"][w] = 0
    BY <1>1, <1>3
  <2> QED BY <2>2, <2>3
<1> QED BY <1>2, <1>3 DEF MigrationIsOver

LEMMA OneAwaitsStep ==
  ASSUME TypeInv, OneAwaits, Effect
  PROVE  OneAwaits'
<1>t. started["rollout"] \in Nat /\ started["migration"] \in Nat
  BY DEF TypeInv, RestOK, Children
<1>k. ASSUME Keeps("migration"), migration'.version = migration.version,
             migration.state # "none" => migration'.state # "none"
      PROVE  OneAwaits'
  BY <1>k DEF Keeps, OneAwaits
<1>1. CASE Quiet
  BY <1>1, <1>k, WatchedKinds DEF Quiet
<1>2. CASE Restarts
  BY <1>2, <1>t, WatchedKinds DEF Restarts, Cleared, NoneStarted, Children, OneAwaits
<1>3. CASE Ends
  BY <1>3, <1>t, WatchedKinds DEF Ends, Cleared, ExitsKept, OneAwaits
<1>4. CASE RolloutBegins
  BY <1>4, <1>k, WatchedKinds DEF RolloutBegins
<1>5. ASSUME NEW told \in RolloutEnd, RolloutIsOver(told) PROVE OneAwaits'
  BY <1>5, <1>k, WatchedKinds DEF RolloutIsOver
<1>6. ASSUME NEW v \in Version0, MigrationBegins(v) PROVE OneAwaits'
  <2>1. \A w \in Version0 : handlers["migration"][w] = 0
    BY <1>6 DEF MigrationBegins, OneAwaits
  <2>2. handlers["migration"][v] = 0 /\ v \in Version0
    BY <2>1
  <2>p. handlers'["migration"][v] = handlers["migration"][v] + 1
    BY <1>6 DEF MigrationBegins
  <2>a. handlers'["migration"][v] = 1
    BY <2>p, <2>2
  <2>b. \A w \in Version0 \ {v} : handlers'["migration"][w] = 0
    BY <1>6, <2>1 DEF MigrationBegins
  <2>3. migration'.state = "running" /\ migration'.version = v
    BY <1>6 DEF MigrationBegins
  <2> QED BY <2>a, <2>b, <2>3 DEF OneAwaits
<1>7. ASSUME NEW told \in MigrationEnd, MigrationIsOver(told) PROVE OneAwaits'
  <2>1. migration.version \in Version0
    BY DEF TypeInv, RestOK
  <2>2. \A w \in Version0 : handlers'["migration"][w] = 0
    BY <1>7, <2>1, NoneAwaits
  <2> QED BY <2>2 DEF OneAwaits
<1>8. ASSUME NEW told \in RolloutEnd, NEW v \in Version0, RolloutHeard(told, v)
      PROVE  OneAwaits'
  BY <1>8, <1>k, WatchedKinds DEF RolloutHeard
<1>9. ASSUME NEW told \in MigrationEnd, NEW v \in Version0, MigrationHeard(told, v)
      PROVE  OneAwaits'
  BY <1>9, <1>k, WatchedKinds DEF MigrationHeard
<1>10. CASE CleanupIsRefused
  BY <1>10, <1>k, WatchedKinds DEF CleanupIsRefused
<1> QED
  BY <1>1, <1>2, <1>3, <1>4, <1>5, <1>6, <1>7, <1>8, <1>9, <1>10 DEF Effect

LEMMA MigrationStartedStep ==
  ASSUME TypeInv, OneAwaits, MigrationStarted, Effect
  PROVE  MigrationStarted'
<1>t. started["rollout"] \in Nat /\ started["migration"] \in Nat
  BY DEF TypeInv, RestOK, Children
<1>1. CASE Quiet
  BY <1>1, <1>t, WatchedKinds DEF Quiet, Keeps, ExitsKept, UnaskedStays, OneAwaits, MigrationStarted, MigrationAwaited
<1>2. CASE Restarts
  BY <1>2, <1>t, WatchedKinds DEF Restarts, Cleared, NoneStarted, Children, OneAwaits, MigrationStarted, MigrationAwaited
<1>3. CASE Ends
  BY <1>3, <1>t, WatchedKinds DEF Ends, Cleared, ExitsKept, OneAwaits, MigrationStarted, MigrationAwaited
<1>4. CASE RolloutBegins
  BY <1>4, <1>t, WatchedKinds DEF RolloutBegins, Keeps, ExitsKept, UnaskedStays, OneAwaits, MigrationStarted, MigrationAwaited
<1>5. ASSUME NEW told \in RolloutEnd, RolloutIsOver(told) PROVE MigrationStarted'
  BY <1>5, <1>t, WatchedKinds DEF RolloutIsOver, Keeps, ExitsKept, UnaskedStays, OneAwaits, MigrationStarted, MigrationAwaited
<1>6. ASSUME NEW v \in Version0, MigrationBegins(v) PROVE MigrationStarted'
  <2>1. started'["migration"] = started["migration"] + 1
    BY <1>6 DEF MigrationBegins
  <2> QED BY <1>t, <2>1 DEF MigrationStarted
<1>7. ASSUME NEW told \in MigrationEnd, MigrationIsOver(told) PROVE MigrationStarted'
  BY <1>7, <1>t, WatchedKinds DEF MigrationIsOver, Keeps, ExitsKept, UnaskedStays, OneAwaits, MigrationStarted, MigrationAwaited
<1>8. ASSUME NEW told \in RolloutEnd, NEW v \in Version0, RolloutHeard(told, v)
      PROVE  MigrationStarted'
  <2>1. Keeps("migration") /\ started' = started
    BY <1>8, WatchedKinds DEF RolloutHeard
  <2> QED BY <2>1 DEF Keeps, MigrationStarted, MigrationAwaited
<1>9. ASSUME NEW told \in MigrationEnd, NEW v \in Version0, MigrationHeard(told, v)
      PROVE  MigrationStarted'
  BY <1>9, <1>t, WatchedKinds DEF MigrationHeard, Keeps, UnaskedStays, OneAwaits, MigrationStarted, MigrationAwaited
<1>10. CASE CleanupIsRefused
  BY <1>10, <1>t, WatchedKinds DEF CleanupIsRefused, Keeps, ExitsKept, UnaskedStays, OneAwaits, MigrationStarted, MigrationAwaited
<1> QED
  BY <1>1, <1>2, <1>3, <1>4, <1>5, <1>6, <1>7, <1>8, <1>9, <1>10 DEF Effect

LEMMA NoExitStep ==
  ASSUME TypeInv, OneAwaits, MigrationStarted, NoExit', Effect
  PROVE  NoExit \/ Restarts
<1>t. started["rollout"] \in Nat /\ started["migration"] \in Nat
  BY DEF TypeInv, RestOK, Children
<1>1. CASE Quiet
  BY <1>1, <1>t, WatchedKinds DEF Quiet, Keeps, ExitsKept, UnaskedStays, OneAwaits, MigrationStarted, MigrationAwaited, NoExit
<1>2. CASE Restarts
  BY <1>2, <1>t, WatchedKinds DEF Restarts, Cleared, NoneStarted, Children, OneAwaits, MigrationStarted, MigrationAwaited, NoExit
<1>3. CASE Ends
  BY <1>3, <1>t, WatchedKinds DEF Ends, Cleared, ExitsKept, OneAwaits, MigrationStarted, MigrationAwaited, NoExit
<1>4. CASE RolloutBegins
  BY <1>4, <1>t, WatchedKinds DEF RolloutBegins, Keeps, ExitsKept, UnaskedStays, OneAwaits, MigrationStarted, MigrationAwaited, NoExit
<1>5. ASSUME NEW told \in RolloutEnd, RolloutIsOver(told) PROVE NoExit \/ Restarts
  BY <1>5, <1>t, WatchedKinds DEF RolloutIsOver, Keeps, ExitsKept, UnaskedStays, OneAwaits, MigrationStarted, MigrationAwaited, NoExit
<1>6. ASSUME NEW v \in Version0, MigrationBegins(v) PROVE NoExit \/ Restarts
  <2>1. started'["migration"] = started["migration"] + 1
    BY <1>6 DEF MigrationBegins
  <2> QED BY <1>t, <2>1 DEF NoExit
<1>7. ASSUME NEW told \in MigrationEnd, MigrationIsOver(told) PROVE NoExit \/ Restarts
  BY <1>7, <1>t, WatchedKinds DEF MigrationIsOver, Keeps, ExitsKept, UnaskedStays, OneAwaits, MigrationStarted, MigrationAwaited, NoExit
<1>8. ASSUME NEW told \in RolloutEnd, NEW v \in Version0, RolloutHeard(told, v)
      PROVE  NoExit \/ Restarts
  <2>1. Keeps("migration") /\ started' = started
    BY <1>8, WatchedKinds DEF RolloutHeard
  <2> QED BY <2>1 DEF Keeps, MigrationAwaited, NoExit
<1>9. ASSUME NEW told \in MigrationEnd, NEW v \in Version0, MigrationHeard(told, v)
      PROVE  NoExit \/ Restarts
  BY <1>9, <1>t, WatchedKinds DEF MigrationHeard, Keeps, UnaskedStays, OneAwaits, MigrationStarted, MigrationAwaited, NoExit
<1>10. CASE CleanupIsRefused
  BY <1>10, <1>t, WatchedKinds DEF CleanupIsRefused, Keeps, ExitsKept, UnaskedStays, OneAwaits, MigrationStarted, MigrationAwaited, NoExit
<1> QED
  BY <1>1, <1>2, <1>3, <1>4, <1>5, <1>6, <1>7, <1>8, <1>9, <1>10 DEF Effect

LEMMA MigrationSilentStep ==
  ASSUME TypeInv, OneAwaits, MigrationStarted, MigrationSilent, Effect
  PROVE  MigrationSilent'
<1> SUFFICES ASSUME NoExit'
             PROVE  /\ db'.migration = "none"
                    /\ \A told \in MigrationEnd, v \in Version0 : handlers'[told][v] = 0
  BY DEF MigrationSilent
<1>s. CASE Restarts
  BY <1>s, WatchedKinds DEF Restarts, Cleared
<1>n. CASE NoExit
  <2>t. /\ db.migration = "none"
        /\ \A told \in MigrationEnd, v \in Version0 : handlers[told][v] = 0
    BY <1>n DEF MigrationSilent
  <2>1. CASE Quiet
    <3>1. \A b \in MigrationEnd : Keeps(b)
      BY <2>1, WatchedKinds DEF Quiet
    <3>2. db'.migration = db.migration
      BY <2>1 DEF Quiet, ExitsKept
    <3> QED BY <2>t, <3>1, <3>2 DEF Keeps
  <2>2. CASE Restarts
    BY <1>s, <2>2
  <2>3. CASE Ends
    <3>1. \A told \in MigrationEnd, v \in Version0 : handlers'[told][v] = 0
      BY <2>3, WatchedKinds DEF Ends, Cleared
    <3>2. ~\E told \in MigrationEnd, v \in Version0 : handlers[told][v] > 0
      BY <2>t
    <3>3. db'.migration = db.migration
      BY <2>3, <3>2 DEF Ends, ExitsKept
    <3> QED BY <2>t, <3>1, <3>3
  <2>4. CASE RolloutBegins
    <3>1. \A b \in MigrationEnd : Keeps(b)
      BY <2>4, WatchedKinds DEF RolloutBegins
    <3>2. db'.migration = db.migration
      BY <2>4 DEF RolloutBegins, ExitsKept
    <3> QED BY <2>t, <3>1, <3>2 DEF Keeps
  <2>5. ASSUME NEW told \in RolloutEnd, RolloutIsOver(told)
        PROVE  /\ db'.migration = "none"
               /\ \A x \in MigrationEnd, w \in Version0 : handlers'[x][w] = 0
    <3>1. \A b \in MigrationEnd : Keeps(b)
      BY <2>5, WatchedKinds DEF RolloutIsOver
    <3>2. db'.migration = db.migration
      BY <2>5 DEF RolloutIsOver, ExitsKept
    <3> QED BY <2>t, <3>1, <3>2 DEF Keeps
  <2>6. ASSUME NEW v \in Version0, MigrationBegins(v)
        PROVE  /\ db'.migration = "none"
               /\ \A x \in MigrationEnd, w \in Version0 : handlers'[x][w] = 0
    <3>1. \A b \in MigrationEnd : Keeps(b)
      BY <2>6, WatchedKinds DEF MigrationBegins
    <3>2. db'.migration = db.migration
      BY <2>6 DEF MigrationBegins, ExitsKept
    <3> QED BY <2>t, <3>1, <3>2 DEF Keeps
  <2>7. ASSUME NEW told \in MigrationEnd, MigrationIsOver(told)
        PROVE  /\ db'.migration = "none"
               /\ \A x \in MigrationEnd, w \in Version0 : handlers'[x][w] = 0
    <3>1. \A w \in Version0 : handlers'["migration"][w] = 0
      <4>1. migration.version \in Version0
        BY DEF TypeInv, RestOK
      <4> QED BY <2>7, <4>1, NoneAwaits
    <3>2. ~MigrationAwaited'
      BY <3>1 DEF MigrationAwaited
    <3>3. started["migration"] = 0
      BY <2>7, <3>2 DEF NoExit, MigrationIsOver
    <3>4. handlers["migration"][migration.version] = 0
      BY <3>3 DEF MigrationStarted, MigrationAwaited, TypeInv, RestOK
    <3>5. Keeps(told) /\ \A b \in MigrationEnd \ {told} : Keeps(b)
      BY <2>7, <3>4, WatchedKinds DEF MigrationIsOver
    <3>6. db'.migration = db.migration
      BY <2>7 DEF MigrationIsOver, ExitsKept
    <3> QED BY <2>t, <3>5, <3>6 DEF Keeps
  <2>8. ASSUME NEW told \in RolloutEnd, NEW v \in Version0, RolloutHeard(told, v)
        PROVE  /\ db'.migration = "none"
               /\ \A x \in MigrationEnd, w \in Version0 : handlers'[x][w] = 0
    <3>1. \A b \in MigrationEnd : Keeps(b)
      BY <2>8, WatchedKinds DEF RolloutHeard
    <3>2. db'.migration = db.migration
      BY <2>8 DEF RolloutHeard, ExitsKept
    <3> QED BY <2>t, <3>1, <3>2 DEF Keeps
  <2>9. ASSUME NEW told \in MigrationEnd, NEW v \in Version0, MigrationHeard(told, v)
        PROVE  /\ db'.migration = "none"
               /\ \A x \in MigrationEnd, w \in Version0 : handlers'[x][w] = 0
    BY <2>t, <2>9 DEF MigrationHeard
  <2>10. CASE CleanupIsRefused
    <3>1. \A b \in MigrationEnd : Keeps(b)
      BY <2>10, WatchedKinds DEF CleanupIsRefused
    <3>2. db'.migration = db.migration
      BY <2>10 DEF CleanupIsRefused, ExitsKept
    <3> QED BY <2>t, <3>1, <3>2 DEF Keeps
  <2> QED
    BY <2>1, <2>2, <2>3, <2>4, <2>5, <2>6, <2>7, <2>8, <2>9, <2>10 DEF Effect
<1> QED BY <1>s, <1>n, NoExitStep

LEMMA NotAskedStep ==
  ASSUME TypeInv, NotAsked, Effect
  PROVE  NotAsked'
<1>t. started["rollout"] \in Nat /\ started["migration"] \in Nat
  BY DEF TypeInv, RestOK, Children
<1>1. CASE Quiet
  BY <1>1, <1>t, WatchedKinds DEF Quiet, Keeps, ExitsKept, UnaskedStays, ConfigStays, NotAsked
<1>2. CASE Restarts
  BY <1>2, <1>t, WatchedKinds DEF Restarts, Cleared, NoneStarted, Children, NotAsked
<1>3. CASE Ends
  BY <1>3, <1>t, WatchedKinds DEF Ends, Cleared, ExitsKept, NotAsked
<1>4. CASE RolloutBegins
  BY <1>4, <1>t, WatchedKinds DEF RolloutBegins, Keeps, ExitsKept, UnaskedStays, ConfigStays, NotAsked
<1>5. ASSUME NEW told \in RolloutEnd, RolloutIsOver(told) PROVE NotAsked'
  BY <1>5, <1>t, WatchedKinds DEF RolloutIsOver, Keeps, ExitsKept, UnaskedStays, ConfigStays, NotAsked
<1>6. ASSUME NEW v \in Version0, MigrationBegins(v) PROVE NotAsked'
  BY <1>6, <1>t, WatchedKinds DEF MigrationBegins, Keeps, ExitsKept, UnaskedStays, ConfigStays, NotAsked
<1>7. ASSUME NEW told \in MigrationEnd, MigrationIsOver(told) PROVE NotAsked'
  BY <1>7, <1>t, WatchedKinds DEF MigrationIsOver, Keeps, ExitsKept, UnaskedStays, ConfigStays, NotAsked
<1>8. ASSUME NEW told \in RolloutEnd, NEW v \in Version0, RolloutHeard(told, v)
      PROVE  NotAsked'
  BY <1>8, <1>t, WatchedKinds DEF RolloutHeard, Keeps, UnaskedStays, ConfigStays, NotAsked
<1>9. ASSUME NEW told \in MigrationEnd, NEW v \in Version0, MigrationHeard(told, v)
      PROVE  NotAsked'
  BY <1>9, <1>t, WatchedKinds DEF MigrationHeard, Keeps, UnaskedStays, ConfigStays, NotAsked
<1>10. CASE CleanupIsRefused
  BY <1>10, <1>t, WatchedKinds DEF CleanupIsRefused, Keeps, ExitsKept, UnaskedStays, ConfigStays, NotAsked
<1> QED
  BY <1>1, <1>2, <1>3, <1>4, <1>5, <1>6, <1>7, <1>8, <1>9, <1>10 DEF Effect

-----------------------------------------------------------------------------
(* Every step has one of the effects.                                      *)

LEMMA WatchedAwaits ==
  /\ Watched \subseteq Awaits /\ "start migration" \in Awaits \ Watched
  /\ "rollout" \in Awaits /\ "rollout" \notin Watched \cup {"start migration"}
  /\ "start rollout" \in Awaits
  /\ "start rollout" \notin Watched \cup {"start migration"}
  /\ \A a \in {"flags", "apply", "simulate", "traffic"} :
       a \in Awaits /\ a \notin Watched \cup {"start migration"}
BY DEF Watched, Awaits, RolloutEnd, MigrationEnd

LEMMA NotZero ==
  ASSUME handlers \in Counts, NEW a \in Awaits, NEW v \in Version0,
         handlers[a][v] > 0
  PROVE  handlers[a][v] # 0
BY DEF Counts

LEMMA MovesKeepsRest ==
  ASSUME NEW a, NEW v, NEW c, NEW u, Moves(a, v, c, u)
  PROVE  \A b \in Awaits \ {a, c} : Keeps(b)
BY DEF Moves, Keeps

LEMMA MovesKeepsWatched ==
  ASSUME NEW a, NEW v, NEW c, NEW u, Moves(a, v, c, u)
  PROVE  \A b \in (Watched \cup {"start migration"}) \ {a, c} : Keeps(b)
<1>1. \A b \in Awaits \ {a, c} : Keeps(b)
  BY MovesKeepsRest
<1> QED BY <1>1, WatchedAwaits

LEMMA MovesArrives ==
  ASSUME handlers \in Counts, NEW a, NEW v, NEW c \in Awaits, NEW u \in Version0,
         a # c, Moves(a, v, c, u)
  PROVE  handlers'[c][u] > 0
<1> DEFINE n == handlers[c][u]
<1>1. n \in Nat /\ handlers'[c][u] = n + 1
  BY DEF Counts, Moves
<1> HIDE DEF n
<1> QED BY <1>1

\* No handler comes to a wait that one leaves.
LEMMA LeavesNoneComes ==
  ASSUME handlers \in Counts, NEW a \in Awaits, NEW w \in Version0,
         \/ handlers'[a][w] = handlers[a][w]
         \/ handlers'[a][w] = handlers[a][w] - 1,
         handlers'[a][w] > 0
  PROVE  handlers[a][w] > 0
<1> DEFINE n == handlers[a][w]
<1>1. n \in Nat
  BY DEF Counts
<1> HIDE DEF n
<1>2. n > 0
  BY <1>1 DEF n
<1> QED BY <1>2 DEF n

LEMMA RolloutEndsTold ==
  ASSUME TypeInv, NEW told \in RolloutEnd, RolloutEnds(told), rollout.running,
         UNCHANGED open
  PROVE  /\ \E v \in Version0 : handlers'[told][v] > 0
         /\ \A v \in Version0 : handlers'[told][v] > 0 =>
              handlers[told][v] > 0 \/ v = rollout.version
<1>1. /\ handlers \in Counts /\ rollout.version \in Version0
      /\ told \in Awaits /\ told # "rollout"
  BY DEF TypeInv, HandlersOK, RestOK, Awaits, RolloutEnd
<1>2. Moves("rollout", rollout.version, told, rollout.version)
  BY RolloutEndsKeeps
<1>3. \A v \in Version0 : v # rollout.version => handlers'[told][v] = handlers[told][v]
  BY <1>1, <1>2 DEF Moves
<1> QED BY <1>1, <1>2, <1>3, MovesArrives

LEMMA OneMoreWaits ==
  ASSUME handlers \in Counts, NEW a \in Awaits, NEW w \in Version0,
         handlers[a][w] # 0,
         handlers'[a][w] = handlers[a][w] \/ handlers'[a][w] = handlers[a][w] + 1
  PROVE  handlers'[a][w] # 0
<1> DEFINE n == handlers[a][w]
<1>1. n \in Nat
  BY DEF Counts
<1> HIDE DEF n
<1>2. n + 1 # 0
  BY <1>1
<1> QED BY <1>2 DEF n

LEMMA AsksKeepsAsking ==
  ASSUME handlers \in Counts, NEW w \in Version0, AsksMigration("start migration", w),
         handlers["start migration"][w] # 0
  PROVE  handlers'["start migration"][w] # 0
BY OneMoreWaits DEF AsksMigration, Awaits

LEMMA DropsKeepsRest ==
  ASSUME NEW a, NEW v, Drops(a, v)
  PROVE  \A b \in Awaits \ {a} : Keeps(b)
BY DEF Drops, Keeps

\* What is the same in a quiet step besides the handlers.
Calm ==
  /\ ConfigStays /\ ExitsKept
  /\ open' = open /\ started' = started /\ (refused => refused')
  /\ rollout' = rollout
  /\ migration'.version = migration.version
  /\ migration.state # "none" => migration'.state # "none"

LEMMA CalmIsQuiet ==
  ASSUME Calm, \A b \in Watched : Keeps(b), Keeps("start migration")
  PROVE  Quiet
<1>1. UnaskedStays
  BY DEF Calm, UnaskedStays, Keeps
<1> QED BY <1>1 DEF Calm, Quiet

LEMMA EmptiesClears ==
  ASSUME RestOK, Empties, rollout' = NoRollout,
         UNCHANGED migration
  PROVE  Cleared
<1>1. ~rollout'.running
  BY DEF NoRollout
<1>2. \A b \in Watched \cup {"start migration"}, w \in Version0 : handlers'[b][w] = 0
  BY WatchedAwaits DEF Empties
<1> QED BY <1>1, <1>2 DEF Cleared

LEMMA MigrationEndsEffect ==
  ASSUME TypeInv, NEW told \in MigrationEnd, MigrationEnds(told),
         migration.state # "none",
         UNCHANGED <<mixed, open, db, rollout, started, refused>>
  PROVE  MigrationIsOver(told)
<1> DEFINE a == "migration"
           v == migration.version
<1>1. /\ handlers \in Counts /\ v \in Version0
      /\ a \in Awaits /\ told \in Awaits /\ told # a
      /\ told # "start migration" /\ a # "start migration"
  <2>1. handlers \in Counts /\ v \in Version0
    BY DEF TypeInv, HandlersOK, RestOK
  <2>2. /\ a \in Awaits /\ told \in Awaits /\ told # a
        /\ told # "start migration" /\ a # "start migration"
    BY DEF Awaits, MigrationEnd
  <2> QED BY <2>1, <2>2
<1>2. CASE handlers[a][v] > 0
  <2>1. Moves(a, v, told, v)
    BY <1>1, <1>2, MigrationEndsAt
  <2>2. \A b \in (Watched \cup {"start migration"}) \ {told, a} : Keeps(b)
    BY <2>1, MovesKeepsWatched
  <2>3. /\ handlers[a][v] # 0 /\ handlers'[a][v] = handlers[a][v] - 1
        /\ \A w \in Version0 \ {v} : handlers'[a][w] = handlers[a][w]
    <3> HIDE DEF a, v
    <3>1. handlers[a][v] # 0
      BY <1>1, <1>2, NotZero
    <3>2. /\ handlers'[a][v] = handlers[a][v] - 1
          /\ \A w \in Version0 \ {v} : handlers'[a][w] = handlers[a][w]
      BY <1>1, <2>1 DEF Moves
    <3> QED BY <3>1, <3>2
  <2>4. UnaskedStays /\ ExitsKept
    BY <1>1, <2>2 DEF UnaskedStays, ConfigStays, ExitsKept, Keeps
  <2>5. handlers'[told][v] > 0
    BY <1>1, <2>1, MovesArrives
  <2> QED BY <2>2, <2>3, <2>4, <2>5 DEF MigrationIsOver
<1>3. CASE ~(handlers[a][v] > 0)
  <2>1. handlers' = handlers
    BY <1>1, <1>3, MigrationEndsAt
  <2>2. handlers[a][v] = 0
    <3> HIDE DEF a, v
    <3>1. handlers[a][v] \in Nat
      BY <1>1 DEF Counts
    <3> QED BY <1>3, <3>1
  <2>k. \A b : Keeps(b)
    BY <2>1 DEF Keeps
  <2>3. UnaskedStays /\ ExitsKept
    BY <2>1 DEF UnaskedStays, ConfigStays, ExitsKept
  <2> QED BY <2>2, <2>k, <2>3 DEF MigrationIsOver
<1> QED BY <1>2, <1>3

LEMMA DeployRestarts ==
  ASSUME TypeInv, NEW v \in Versions, Deploy(v), ~open
  PROVE  Restarts
<1>t. /\ handlers \in Counts /\ Attended /\ v \in Version0
      /\ rollout.version \in Version0
  BY DEF TypeInv, HandlersOK, RestOK, Version0
<1>1. EmptiesBut("flags", v)
  BY <1>t, DeployAt
<1>2. ~rollout.running
  <2>1. "rollout" \in Awaits
    BY DEF Awaits
  <2> QED BY <1>t, <2>1, OpenAt DEF Attended
<1>3. Cleared
  <2>1. \A b \in Watched \cup {"start migration"}, w \in Version0 :
          handlers'[b][w] = 0
    BY <1>1, WatchedAwaits DEF EmptiesBut
  <2>2. rollout' = rollout /\ migration' = migration
    BY DEF Deploy
  <2> QED BY <1>2, <2>1, <2>2 DEF Cleared
<1>4. open' /\ db' = EmptyDb /\ started' = NoneStarted
  BY DEF Deploy
<1> QED BY <1>3, <1>4 DEF Restarts, EmptyDb

LEMMA ContinueRestarts ==
  ASSUME TypeInv, ContinueAsNew
  PROVE  Restarts
<1>1. Cleared
  <2>1. RestOK /\ Empties
    BY EmptiesAt DEF TypeInv, ContinueAsNew
  <2>2. rollout' = NoRollout /\ UNCHANGED migration
    BY DEF ContinueAsNew
  <2> QED BY <2>1, <2>2, EmptiesClears
<1>2. open' /\ db' = EmptyDb /\ started' = NoneStarted
  BY DEF ContinueAsNew, TypeInv
<1> QED BY <1>1, <1>2 DEF Restarts, EmptyDb

LEMMA StepEffect ==
  ASSUME TypeInv, [Next]_vars
  PROVE  Effect
<1>t. /\ handlers \in Counts /\ db \in Db /\ RestOK /\ Attended
      /\ Versions \subseteq Version0
      /\ db.from \in Version0
      /\ rollout \in [running : BOOLEAN, version : Version0]
      /\ migration.version \in Version0
      /\ started \in [Children -> Nat]
  BY DEF TypeInv, HandlersOK, RestOK, Version0, Db
<1>q. Quiet => Effect
  BY DEF Effect
<1>1. ASSUME NEW v \in Versions, Deploy(v) PROVE Effect
  <2>1. CASE open
    <3>1. Adds("flags", v)
      BY <1>t, <1>1, <2>1, DeployAt
    <3>2. Calm
      BY <1>1, <2>1 DEF Calm, ConfigStays, ExitsKept, Deploy
    <3>3. \A b \in Watched \cup {"start migration"} : Keeps(b)
      BY <3>1, WatchedAwaits DEF Adds, Keeps
    <3> QED BY <1>q, <3>2, <3>3, CalmIsQuiet
  <2>2. CASE ~open
    BY <1>1, <2>2, DeployRestarts DEF Effect
  <2> QED BY <2>1, <2>2
<1>2. CASE SignalStartRollout
  <2>1. \A b \in Awaits, w \in Version0 : AsksRollout(b, w)
    BY <1>t, <1>2, SignalStartRolloutAt
  <2>2. Calm
    BY <1>2 DEF Calm, ConfigStays, ExitsKept, SignalStartRollout, history
  <2>3. \A b \in Watched \cup {"start migration"} : Keeps(b)
    BY <2>1, WatchedAwaits DEF AsksRollout, Keeps
  <2> QED BY <1>q, <2>2, <2>3, CalmIsQuiet
<1>3. CASE SignalStartMigration
  <2>1. \A b \in Awaits, w \in Version0 : AsksMigration(b, w)
    BY <1>t, <1>3, SignalStartMigrationAt
  <2>2. Calm
    BY <1>3 DEF Calm, ConfigStays, ExitsKept, SignalStartMigration, history
  <2>3. \A b \in Watched : Keeps(b)
    BY <2>1, WatchedAwaits DEF AsksMigration, Keeps
  <2>a. \A w \in Version0 : AsksMigration("start migration", w)
    BY <2>1, WatchedAwaits
  <2>b. \A w \in Version0 : handlers["start migration"][w] # 0
                               => handlers'["start migration"][w] # 0
    BY <1>t, <2>a, AsksKeepsAsking
  <2>4. UnaskedStays
    BY <2>a, <2>b, <2>2 DEF AsksMigration, UnaskedStays, Calm
  <2> QED BY <1>q, <2>2, <2>3, <2>4 DEF Quiet, Calm
<1>4. CASE CancelRollout
  <2>1. CASE rollout.running /\ RolloutEnds("rollout error")
    <3>a. /\ rollout.running /\ RolloutEnds("rollout error")
          /\ UNCHANGED <<mixed, open, db, migration, started, refused>>
      BY <1>4, <2>1 DEF CancelRollout, history
    <3>b. Moves("rollout", rollout.version, "rollout error", rollout.version)
      BY <3>a, RolloutEndsKeeps DEF RolloutEnd
    <3>k. \A b \in (Watched \cup {"start migration"}) \ {"rollout", "rollout error"} :
           Keeps(b)
      BY <3>b, MovesKeepsWatched
    <3>c. \A b \in (Watched \cup {"start migration"}) \ {"rollout error"} : Keeps(b)
      BY <3>k, WatchedAwaits
    <3>d. open /\ ~rollout'.running
      BY <3>a, RolloutEndsKeeps DEF RolloutEnd
    <3>e. UnaskedStays /\ ExitsKept
      BY <3>a, <3>c DEF UnaskedStays, ConfigStays, ExitsKept, Keeps, RolloutEnd
    <3>t. /\ \E v \in Version0 : handlers'["rollout error"][v] > 0
          /\ \A v \in Version0 : handlers'["rollout error"][v] > 0 =>
               handlers["rollout error"][v] > 0 \/ v = rollout.version
      BY <3>a, RolloutEndsTold DEF RolloutEnd
    <3>f. RolloutIsOver("rollout error")
      BY <3>a, <3>c, <3>d, <3>e, <3>t DEF RolloutIsOver
    <3> QED BY <3>f DEF Effect, RolloutEnd
  <2>2. CASE UNCHANGED <<rollout, handlers>>
    <3>1. Calm
      BY <1>4, <2>2 DEF Calm, ConfigStays, ExitsKept, CancelRollout, history
    <3>2. \A b \in Watched \cup {"start migration"} : Keeps(b)
      BY <2>2 DEF Keeps
    <3> QED BY <1>q, <3>1, <3>2, CalmIsQuiet
  <2> QED BY <1>4, <2>1, <2>2 DEF CancelRollout
<1>5. CASE ContinueAsNew
  BY <1>5, ContinueRestarts DEF Effect
<1>6. ASSUME NEW v \in Versions, FlagsRead(v) PROVE Effect
  <2>1. Moves("flags", v, "apply", v)
    BY <1>t, <1>6, ActivityAt
  <2>2. Calm
    BY <1>t, <1>6 DEF Calm, ConfigStays, ExitsKept, FlagsRead, history, Db
  <2>k. \A b \in (Watched \cup {"start migration"}) \ {"flags", "apply"} : Keeps(b)
    BY <2>1, MovesKeepsWatched
  <2>3. \A b \in Watched \cup {"start migration"} : Keeps(b)
    BY <2>k, WatchedAwaits
  <2> QED BY <1>q, <2>2, <2>3, CalmIsQuiet
<1>7. ASSUME NEW v \in Versions, FlagApplied(v) PROVE Effect
  <2>1. Moves("apply", v, "simulate", v)
    BY <1>t, <1>7, ActivityAt
  <2>2. Calm
    BY <1>t, <1>7 DEF Calm, ConfigStays, ExitsKept, FlagApplied, history, Db
  <2>k. \A b \in (Watched \cup {"start migration"}) \ {"apply", "simulate"} : Keeps(b)
    BY <2>1, MovesKeepsWatched
  <2>3. \A b \in Watched \cup {"start migration"} : Keeps(b)
    BY <2>k, WatchedAwaits
  <2> QED BY <1>q, <2>2, <2>3, CalmIsQuiet
<1>8. ASSUME NEW v \in Versions, Simulated(v) PROVE Effect
  <2>1. \A b \in Awaits \ {"simulate"}, w \in Version0 : AsksRollout(b, w)
    BY <1>t, <1>8, SimulatedAt
  <2>2. Calm
    BY <1>8 DEF Calm, ConfigStays, ExitsKept, Simulated, history
  <2>3. \A b \in Watched \cup {"start migration"} : Keeps(b)
    BY <2>1, WatchedAwaits DEF AsksRollout, Keeps
  <2> QED BY <1>q, <2>2, <2>3, CalmIsQuiet
<1>9. ASSUME NEW v \in Versions, TrafficRouted(v) PROVE Effect
  <2>1. Drops("traffic", v)
    BY <1>t, <1>9, ActivityAt
  <2>2. Calm
    BY <1>t, <1>9 DEF Calm, ConfigStays, ExitsKept, TrafficRouted
  <2>3. \A b \in Watched \cup {"start migration"} : Keeps(b)
    BY <2>1, WatchedAwaits, DropsKeepsRest
  <2> QED BY <1>q, <2>2, <2>3, CalmIsQuiet
<1>10. ASSUME NEW v \in Versions, ActivityFails(v) PROVE Effect
  <2>1. \E a \in {"flags", "apply", "simulate", "traffic"} : Drops(a, v)
    BY <1>t, <1>10, ActivityAt
  <2>2. Calm
    BY <1>t, <1>10 DEF Calm, ConfigStays, ExitsKept, ActivityFails
  <2>3. \A b \in Watched \cup {"start migration"} : Keeps(b)
    BY <2>1, WatchedAwaits, DropsKeepsRest
  <2> QED BY <1>q, <2>2, <2>3, CalmIsQuiet
<1>11. ASSUME NEW v \in Version0, RolloutStarts(v) PROVE Effect
  <2>1. \A b \in Awaits \ {"start rollout", "rollout"}, w \in Version0 :
          AsksMigration(b, w)
    BY <1>t, <1>11, RolloutStartsAt
  <2>2. ASSUME NEW b \in Watched PROVE Keeps(b)
    <3>1. b \in Awaits \ {"start rollout", "rollout"} /\ b # "start migration"
      BY WatchedAwaits
    <3> QED BY <2>1, <3>1 DEF AsksMigration, Keeps
  <2>3. /\ handlers["start rollout"][v] > 0 /\ ~rollout.running
        /\ rollout' = [running |-> TRUE, version |-> v]
        /\ started' = [started EXCEPT !["rollout"] = @ + 1]
        /\ UNCHANGED <<mixed, open, db, migration, refused>>
    BY <1>11 DEF RolloutStarts
  <2>a. \A w \in Version0 : AsksMigration("start migration", w)
    BY <2>1, WatchedAwaits
  <2>b. \A w \in Version0 : handlers["start migration"][w] # 0
                               => handlers'["start migration"][w] # 0
    BY <1>t, <2>a, AsksKeepsAsking
  <2>4. UnaskedStays
    BY <2>a, <2>b, <2>3 DEF AsksMigration, UnaskedStays, ConfigStays
  <2>5. ExitsKept /\ rollout'.running
    BY <1>t, <2>3 DEF ExitsKept, Db
  <2>6. open
    BY <1>t, <2>3, WatchedAwaits, OpenAt
  <2>7. /\ started'["rollout"] = started["rollout"] + 1
        /\ started'["migration"] = started["migration"]
    BY <1>t, <2>3 DEF Children
  <2>8. RolloutBegins
    BY <1>11, <2>2, <2>3, <2>4, <2>5, <2>6, <2>7 DEF RolloutBegins
  <2> QED BY <2>8 DEF Effect
<1>12. ASSUME NEW v \in Version0, RolloutRefused(v) PROVE Effect
  <2>1. Drops("start rollout", v)
    BY <1>t, <1>12, ChildAt
  <2>2. Calm
    BY <1>t, <1>12 DEF Calm, ConfigStays, ExitsKept, RolloutRefused, Refused
  <2>3. \A b \in Watched \cup {"start migration"} : Keeps(b)
    BY <2>1, WatchedAwaits, DropsKeepsRest
  <2> QED BY <1>q, <2>2, <2>3, CalmIsQuiet
<1>13. CASE RolloutSucceeds
  <2>a. /\ rollout.running /\ RolloutEnds("rollout ok") /\ rollout.version # None
        /\ UNCHANGED <<mixed, open, db, migration, started, refused>>
    BY <1>13 DEF RolloutSucceeds
  <2>b. Moves("rollout", rollout.version, "rollout ok", rollout.version)
    BY <2>a, RolloutEndsKeeps DEF RolloutEnd
  <2>k. \A b \in (Watched \cup {"start migration"}) \ {"rollout", "rollout ok"} :
         Keeps(b)
    BY <2>b, MovesKeepsWatched
  <2>c. \A b \in (Watched \cup {"start migration"}) \ {"rollout ok"} : Keeps(b)
    BY <2>k, WatchedAwaits
  <2>d. open /\ ~rollout'.running
    BY <2>a, RolloutEndsKeeps DEF RolloutEnd
  <2>e. UnaskedStays /\ ExitsKept
    BY <2>a, <2>c DEF UnaskedStays, ConfigStays, ExitsKept, Keeps, RolloutEnd
  <2>t. /\ \E v \in Version0 : handlers'["rollout ok"][v] > 0
        /\ \A v \in Version0 : handlers'["rollout ok"][v] > 0 =>
             handlers["rollout ok"][v] > 0 \/ v = rollout.version
    BY <2>a, RolloutEndsTold DEF RolloutEnd
  <2>f. RolloutIsOver("rollout ok")
    BY <2>a, <2>c, <2>d, <2>e, <2>t DEF RolloutIsOver
  <2> QED BY <2>f DEF Effect, RolloutEnd
<1>14. CASE RolloutFails
  <2>a. /\ rollout.running /\ RolloutEnds("rollout error")
        /\ UNCHANGED <<mixed, open, db, migration, started, refused>>
    BY <1>14 DEF RolloutFails, history
  <2>b. Moves("rollout", rollout.version, "rollout error", rollout.version)
    BY <2>a, RolloutEndsKeeps DEF RolloutEnd
  <2>k. \A b \in (Watched \cup {"start migration"}) \ {"rollout", "rollout error"} :
         Keeps(b)
    BY <2>b, MovesKeepsWatched
  <2>c. \A b \in (Watched \cup {"start migration"}) \ {"rollout error"} : Keeps(b)
    BY <2>k, WatchedAwaits
  <2>d. open /\ ~rollout'.running
    BY <2>a, RolloutEndsKeeps DEF RolloutEnd
  <2>e. UnaskedStays /\ ExitsKept
    BY <2>a, <2>c DEF UnaskedStays, ConfigStays, ExitsKept, Keeps, RolloutEnd
  <2>t. /\ \E v \in Version0 : handlers'["rollout error"][v] > 0
        /\ \A v \in Version0 : handlers'["rollout error"][v] > 0 =>
             handlers["rollout error"][v] > 0 \/ v = rollout.version
    BY <2>a, RolloutEndsTold DEF RolloutEnd
  <2>f. RolloutIsOver("rollout error")
    BY <2>a, <2>c, <2>d, <2>e, <2>t DEF RolloutIsOver
  <2> QED BY <2>f DEF Effect, RolloutEnd
<1>15. ASSUME NEW v \in Version0, MigrationStarts(v) PROVE Effect
  <2>1. Moves("start migration", v, "migration", v)
    BY <1>t, <1>15, ChildAt
  <2>2. /\ handlers["start migration"][v] > 0 /\ migration.state = "none"
        /\ migration' = [state |-> "running", version |-> v]
        /\ started' = [started EXCEPT !["migration"] = @ + 1]
        /\ UNCHANGED <<mixed, open, db, rollout, refused>>
    BY <1>15 DEF MigrationStarts
  <2>k. \A b \in (Watched \cup {"start migration"}) \ {"start migration", "migration"} :
          Keeps(b)
    BY <2>1, MovesKeepsWatched
  <2>3. \A b \in Watched \ {"migration"} : Keeps(b)
    BY <2>k, WatchedAwaits
  <2>4. /\ handlers'["migration"][v] = handlers["migration"][v] + 1
        /\ \A w \in Version0 \ {v} : handlers'["migration"][w] = handlers["migration"][w]
    <3>1. "migration" \in Awaits /\ "migration" # "start migration"
      BY DEF Awaits
    <3> DEFINE c == "migration"
               a == "start migration"
    <3>2. /\ Moves(a, v, c, v) /\ c \in Awaits /\ c # a
      BY <2>1, <3>1
    <3> HIDE DEF a, c
    <3>3. /\ handlers'[c][v] = handlers[c][v] + 1
          /\ \A w \in Version0 \ {v} : handlers'[c][w] = handlers[c][w]
      BY <3>2 DEF Moves
    <3> QED BY <3>3 DEF c
  <2>5. UnaskedStays
    <3>1. handlers["start migration"][v] # 0
      BY <1>t, <2>2, WatchedAwaits, NotZero
    <3>2. started'["migration"] # started["migration"]
      <4>1. /\ started["migration"] \in Nat
            /\ started'["migration"] = started["migration"] + 1
        BY <1>t, <2>2 DEF Children
      <4> QED BY <4>1
    <3> QED BY <2>2, <3>1, <3>2 DEF UnaskedStays, ConfigStays
  <2>6. open
    BY <1>t, <2>2, WatchedAwaits, OpenAt
  <2>7. /\ started'["migration"] = started["migration"] + 1
        /\ started'["rollout"] = started["rollout"]
    BY <1>t, <2>2 DEF Children
  <2>8. ExitsKept /\ handlers["start migration"][v] # 0
    BY <1>t, <2>2, WatchedAwaits, NotZero DEF ExitsKept
  <2>9. migration'.state = "running" /\ migration'.version = v
    BY <2>2
  <2>m. MigrationBegins(v)
    BY <2>2, <2>3, <2>4, <2>5, <2>6, <2>7, <2>8, <2>9 DEF MigrationBegins
  <2> QED BY <2>m DEF Effect
<1>16. ASSUME NEW v \in Version0, MigrationRefused(v) PROVE Effect
  <2>1. Drops("start migration", v)
    BY <1>t, <1>16, ChildAt
  <2>2. Calm /\ refused' /\ handlers["start migration"][v] > 0
    BY <1>16 DEF Calm, ConfigStays, ExitsKept, MigrationRefused, Refused
  <2>3. \A b \in Watched : Keeps(b)
    BY <2>1, WatchedAwaits, DropsKeepsRest
  <2>4. UnaskedStays
    <3>1. handlers["start migration"][v] # 0
      BY <1>t, <2>2, WatchedAwaits, NotZero
    <3> QED BY <2>2, <3>1 DEF UnaskedStays, Calm
  <2> QED BY <1>q, <2>2, <2>3, <2>4 DEF Quiet, Calm
<1>17. CASE MigrationSucceeds
  <2>1. /\ MigrationEnds("migration ok") /\ migration.state # "none"
        /\ UNCHANGED <<mixed, open, db, rollout, started, refused>>
    BY <1>17 DEF MigrationSucceeds, history
  <2>2. MigrationIsOver("migration ok")
    BY <1>t, <2>1, MigrationEndsEffect DEF MigrationEnd
  <2> QED BY <2>2 DEF Effect, MigrationEnd
<1>18. CASE MigrationSticks
  <2>1. Calm /\ handlers' = handlers
    BY <1>t, <1>18 DEF Calm, ConfigStays, ExitsKept, MigrationSticks, history, RestOK
  <2>2. \A b \in Watched \cup {"start migration"} : Keeps(b)
    BY <2>1 DEF Keeps
  <2> QED BY <1>q, <2>1, <2>2, CalmIsQuiet
<1>19. CASE MigrationTerminated
  <2>1. /\ MigrationEnds("migration error") /\ migration.state # "none"
        /\ UNCHANGED <<mixed, open, db, rollout, started, refused>>
    BY <1>19 DEF MigrationTerminated, history
  <2>2. MigrationIsOver("migration error")
    BY <1>t, <2>1, MigrationEndsEffect DEF MigrationEnd
  <2> QED BY <2>2 DEF Effect, MigrationEnd
<1>20. ASSUME NEW v \in Versions, CleanupEnds(v) PROVE Effect
  <2>1. Calm /\ handlers' = handlers
    BY <1>20 DEF Calm, ConfigStays, ExitsKept, CleanupEnds, history
  <2>2. \A b \in Watched \cup {"start migration"} : Keeps(b)
    BY <2>1 DEF Keeps
  <2> QED BY <1>q, <2>1, <2>2, CalmIsQuiet
<1>21. ASSUME NEW told \in RolloutEnd, NEW v \in Version0, RolloutDone(told, v) PROVE Effect
  <2>1. /\ told \in Watched \cap Awaits /\ told # "start cleanup"
        /\ told # "start migration" /\ told # "migration"
        /\ "start cleanup" \in Awaits /\ "start cleanup" # "start migration"
    BY WatchedAwaits, WatchedKinds
  <2>2. /\ handlers[told][v] > 0 /\ db' = [db EXCEPT !.rollout = ExitOf(told)]
        /\ UNCHANGED <<mixed, migration, started, refused>>
    BY <1>21 DEF RolloutDone, history
  <2>3. /\ db'.rollout # "none" /\ db'.migration = db.migration
        /\ db'.config = db.config
        /\ db'.rollout = "ok" => told = "rollout ok"
    BY <1>t, <2>2 DEF Db, ExitOf, RolloutEnd
  <2>4. open
    BY <1>t, <2>1, <2>2, OpenAt
  <2>5. CASE /\ db.config = "nonMigratory" /\ UNCHANGED <<open, rollout>>
             /\ db.from # None /\ Moves(told, v, "start cleanup", db.from)
    <3>1. \A b \in (Watched \cup {"start migration"}) \ {told, "start cleanup"} : Keeps(b)
      BY <2>5, MovesKeepsWatched
    <3>2. \E w \in Version0 : handlers'["start cleanup"][w] > 0
      <4> DEFINE c == "start cleanup"
      <4>1. Moves(told, v, c, db.from) /\ c \in Awaits /\ c # told
        BY <2>1, <2>5
      <4> HIDE DEF c
      <4>2. handlers'[c][db.from] = handlers[c][db.from] + 1
        BY <1>t, <4>1 DEF Moves
      <4>3. handlers[c][db.from] \in Nat
        BY <1>t, <4>1 DEF Counts
      <4>4. handlers'[c][db.from] > 0
        BY <4>2, <4>3
      <4> QED BY <1>t, <4>4 DEF c
    <3>3. UnaskedStays
      BY <2>1, <2>2, <2>3, <3>1 DEF UnaskedStays, ConfigStays, Keeps
    <3>l. \A w \in Version0 : handlers'[told][w] > 0 => handlers[told][w] > 0
      <4>1. \A w \in Version0 : \/ handlers'[told][w] = handlers[told][w]
                                \/ handlers'[told][w] = handlers[told][w] - 1
        BY <2>1, <2>5 DEF Moves
      <4> QED BY <1>t, <2>1, <4>1, LeavesNoneComes
    <3>4. RolloutHeard(told, v)
      BY <2>2, <2>3, <2>4, <2>5, <3>1, <3>2, <3>3, <3>l DEF RolloutHeard
    <3> QED BY <3>4 DEF Effect
  <2>6. CASE /\ db.config # "nonMigratory" /\ UNCHANGED <<open, rollout>>
             /\ db.migration = "none" /\ Drops(told, v)
    <3>1. \A b \in (Watched \cup {"start migration"}) \ {told} : Keeps(b)
      BY <2>6, WatchedAwaits, DropsKeepsRest
    <3>2. Keeps("start cleanup")
      BY <2>1, <3>1, WatchedKinds
    <3>3. UnaskedStays
      BY <2>1, <2>2, <2>3, <3>1 DEF UnaskedStays, ConfigStays, Keeps
    <3>l. \A w \in Version0 : handlers'[told][w] > 0 => handlers[told][w] > 0
      <4>1. \A w \in Version0 : \/ handlers'[told][w] = handlers[told][w]
                                \/ handlers'[told][w] = handlers[told][w] - 1
        BY <2>1, <2>6 DEF Drops
      <4> QED BY <1>t, <2>1, <4>1, LeavesNoneComes
    <3>4. RolloutHeard(told, v)
      BY <2>2, <2>3, <2>4, <2>6, <3>1, <3>2, <3>3, <3>l DEF RolloutHeard
    <3> QED BY <3>4 DEF Effect
  <2>7. CASE /\ IF db.config = "nonMigratory" THEN db.from = None
                ELSE db.migration # "none"
             /\ Closes
    <3>1. Cleared
      BY <1>t, <2>2, <2>7, EmptiesClears DEF Closes
    <3>2. Ends
      BY <2>2, <2>3, <2>4, <2>7, <3>1 DEF Ends, Closes
    <3> QED BY <3>2 DEF Effect
  <2> QED BY <1>t, <1>21, <2>5, <2>6, <2>7, RolloutDoneAt
<1>22. ASSUME NEW told \in MigrationEnd, NEW v \in Version0, MigrationDone(told, v) PROVE Effect
  <2>1. /\ told \in Watched \cap Awaits /\ told # "start migration"
    BY WatchedAwaits, WatchedKinds
  <2>2. /\ handlers[told][v] > 0 /\ db' = [db EXCEPT !.migration = ExitOf(told)]
        /\ UNCHANGED <<mixed, migration, started, refused>>
    BY <1>22 DEF MigrationDone, history
  <2>3. /\ db'.rollout = db.rollout /\ db'.migration # "none"
        /\ db'.config = db.config
    BY <1>t, <2>2 DEF Db, ExitOf
  <2>4. open
    BY <1>t, <2>1, <2>2, OpenAt
  <2>5. CASE db.rollout # "none" /\ Closes
    <3>1. Cleared
      BY <1>t, <2>2, <2>5, EmptiesClears DEF Closes
    <3>2. Ends
      BY <2>2, <2>3, <2>4, <2>5, <3>1 DEF Ends, Closes
    <3> QED BY <3>2 DEF Effect
  <2>6. CASE /\ db.rollout = "none" /\ UNCHANGED <<open, rollout>>
             /\ Drops(told, v)
    <3>1. \A b \in (Watched \cup {"start migration"}) \ {told} : Keeps(b)
      BY <2>6, WatchedAwaits, DropsKeepsRest
    <3>2. UnaskedStays
      BY <2>1, <2>2, <2>3, <3>1 DEF UnaskedStays, ConfigStays, Keeps
    <3>3. MigrationHeard(told, v)
      BY <2>2, <2>3, <2>4, <2>6, <3>1, <3>2 DEF MigrationHeard
    <3> QED BY <3>3 DEF Effect
  <2> QED BY <1>t, <1>22, <2>5, <2>6, MigrationDoneAt
<1>23. ASSUME NEW v \in Version0, CleanupStarts(v) PROVE Effect
  <2>1. /\ Empties /\ rollout' = NoRollout
        /\ ~open' /\ handlers["start cleanup"][v] > 0
        /\ UNCHANGED <<migration, started, db>>
    BY <1>t, <1>23, ChildAt DEF CleanupStarts, Close, history
  <2>2. Cleared /\ ExitsKept
    BY <1>t, <2>1, EmptiesClears DEF ExitsKept
  <2>3. open
    BY <1>t, <2>1, WatchedAwaits, WatchedKinds, OpenAt
  <2>4. Ends
    BY <2>1, <2>2, <2>3 DEF Ends
  <2> QED BY <2>4 DEF Effect
<1>24. ASSUME NEW v \in Version0, CleanupRefused(v) PROVE Effect
  <2>1. Drops("start cleanup", v)
    BY <1>t, <1>24, ChildAt
  <2>2. Calm /\ refused' /\ handlers["start cleanup"][v] > 0 /\ migration' = migration
    BY <1>24 DEF Calm, ConfigStays, ExitsKept, CleanupRefused, Refused
  <2>3. \A b \in (Watched \cup {"start migration"}) \ {"start cleanup"} : Keeps(b)
    BY <2>1, WatchedAwaits, DropsKeepsRest
  <2>4. UnaskedStays
    BY <2>2, <2>3 DEF UnaskedStays, Calm, Keeps
  <2>5. \A w \in Version0 :
          handlers["start cleanup"][w] = 0 => handlers'["start cleanup"][w] = 0
    <3> DEFINE a == "start cleanup"
    <3>1. Drops(a, v) /\ a \in Awaits /\ handlers[a][v] # 0
      BY <1>t, <2>1, <2>2, WatchedAwaits, WatchedKinds, NotZero
    <3> HIDE DEF a
    <3>2. \A w \in Version0 : handlers[a][w] = 0 => handlers'[a][w] = 0
      BY <3>1 DEF Drops
    <3> QED BY <3>2 DEF a
  <2>6. CleanupIsRefused
    BY <2>2, <2>3, <2>4, <2>5 DEF CleanupIsRefused, Calm
  <2> QED BY <2>6 DEF Effect
<1>25. CASE UNCHANGED vars
  <2>1. Calm /\ handlers' = handlers
    BY <1>25 DEF Calm, ConfigStays, ExitsKept, vars, history
  <2>2. \A b \in Watched \cup {"start migration"} : Keeps(b)
    BY <2>1 DEF Keeps
  <2> QED BY <1>q, <2>1, <2>2, CalmIsQuiet
<1> QED
  BY <1>1, <1>2, <1>3, <1>4, <1>5, <1>6, <1>7, <1>8, <1>9, <1>10, <1>11, <1>12, <1>13,
     <1>14, <1>15, <1>16, <1>17, <1>18, <1>19, <1>20, <1>21, <1>22, <1>23, <1>24, <1>25
     DEF Next, Client, Faults, Activity, Child

-----------------------------------------------------------------------------
LEMMA EndInit == Init => EndInv
<1> SUFFICES ASSUME Init PROVE EndInv
  OBVIOUS
<1>1. \A b \in Watched \cup {"start migration"}, w \in Version0 : handlers[b][w] = 0
  BY NoneAt, WatchedAwaits DEF Init
<1>2. /\ ~rollout.running
      /\ db.rollout = "none" /\ db.migration = "none"
  BY DEF Init, EmptyDb, NoRollout
<1>3. RolloutRuns /\ RolloutSilent
  BY <1>1, <1>2, WatchedKinds DEF RolloutRuns, RolloutSilent
<1>4. CleanupLast /\ OneAwaits /\ MigrationStarted
  BY <1>1, WatchedKinds DEF CleanupLast, OneAwaits, MigrationStarted, MigrationAwaited
<1>5. MigrationSilent /\ NotAsked
  BY <1>1, <1>2, WatchedKinds DEF MigrationSilent, NotAsked
<1> QED BY <1>3, <1>4, <1>5 DEF EndInv

LEMMA EndStep == TypeInv /\ EndInv /\ [Next]_vars => EndInv'
<1> SUFFICES ASSUME TypeInv, EndInv, [Next]_vars PROVE EndInv'
  OBVIOUS
<1>1. Effect
  BY StepEffect
<1>2. RolloutRuns' /\ RolloutSilent' /\ CleanupLast'
  BY <1>1, RolloutRunsStep, RolloutSilentStep, CleanupLastStep DEF EndInv
<1>3. OneAwaits' /\ MigrationStarted' /\ MigrationSilent' /\ NotAsked'
  BY <1>1, OneAwaitsStep, MigrationStartedStep, MigrationSilentStep, NotAskedStep
     DEF EndInv
<1> QED BY <1>2, <1>3 DEF EndInv

LEMMA EndAlways == Spec => []EndInv
<1>1. Spec => []TypeInv
  BY TypeAlways
<1> QED BY <1>1, EndInit, EndStep, PTL DEF Spec

-----------------------------------------------------------------------------
(* Until a deployment has said whether it migrates there is no rollout.    *)

ConfigFirst ==
  db.config = "none" =>
    /\ db.from = None /\ db.rollout = "none"
    /\ \A b \in Versionless, w \in Version0 : handlers[b][w] = 0

\* A handler is at a wait of the rollout only if it was there.
NoneComes == \A b \in Versionless, w \in Version0 :
               handlers[b][w] = 0 => handlers'[b][w] = 0

LEMMA VersionlessAwaits ==
  /\ Versionless \subseteq Awaits
  /\ {"start rollout", "rollout"} \cup RolloutEnd \subseteq Versionless
  /\ \A a \in {"flags", "apply", "simulate", "traffic", "start migration",
               "migration", "start cleanup"} \cup MigrationEnd :
       a \in Awaits /\ a \notin Versionless
BY DEF Versionless, Awaits, RolloutEnd, MigrationEnd

LEMMA MovesNoneComes ==
  ASSUME NEW a, a \notin Versionless, NEW v, NEW c, c \notin Versionless,
         NEW u, Moves(a, v, c, u)
  PROVE  NoneComes
BY VersionlessAwaits DEF Moves, NoneComes

LEMMA DropsNoneComes ==
  ASSUME NEW a, a \notin Versionless, NEW v, Drops(a, v)
  PROVE  NoneComes
BY VersionlessAwaits DEF Drops, NoneComes

LEMMA EmptiesNoneComes == Empties => NoneComes
BY VersionlessAwaits DEF Empties, NoneComes

LEMMA ConfigFirstInit == Init => ConfigFirst
<1> SUFFICES ASSUME Init PROVE ConfigFirst
  OBVIOUS
<1>1. \A b \in Versionless, w \in Version0 : handlers[b][w] = 0
  BY NoneAt, VersionlessAwaits DEF Init
<1> QED BY <1>1 DEF Init, EmptyDb, ConfigFirst

LEMMA ConfigFirstStep ==
  ASSUME TypeInv, ConfigFirst, [Next]_vars
  PROVE  ConfigFirst'
<1> SUFFICES ASSUME db'.config = "none"
             PROVE  ConfigFirst'
  BY DEF ConfigFirst
<1>t. /\ handlers \in Counts /\ db \in Db /\ RestOK /\ Attended
      /\ Versions \subseteq Version0 /\ rollout.version \in Version0
      /\ migration.version \in Version0
  BY DEF TypeInv, HandlersOK, RestOK, Version0
<1>x. ASSUME db'.config = db.config, db'.from = db.from,
             db'.rollout = db.rollout, NoneComes
      PROVE  ConfigFirst'
  BY <1>x DEF ConfigFirst, NoneComes
<1>d. ASSUME db' = db, NoneComes PROVE ConfigFirst'
  BY <1>d, <1>x
<1>u. ASSUME UNCHANGED <<db, handlers>> PROVE ConfigFirst'
  BY <1>u DEF ConfigFirst
<1>z. ASSUME db.config = "none", NEW b \in Versionless, NEW w \in Version0,
             handlers[b][w] > 0
      PROVE  FALSE
  BY <1>z DEF ConfigFirst
<1>r. ASSUME db' = db, rollout.running PROVE FALSE
  <2>1. handlers["rollout"][rollout.version] > 0
    BY <1>t, <1>r DEF Attended
  <2> QED BY <1>t, <1>r, <1>z, <2>1, VersionlessAwaits
<1>1. ASSUME NEW v \in Versions, Deploy(v) PROVE ConfigFirst'
  <2>1. CASE open
    <3>1. Adds("flags", v) /\ db' = db
      BY <1>t, <1>1, <2>1, DeployAt DEF Deploy
    <3>2. NoneComes
      BY <3>1, VersionlessAwaits DEF Adds, NoneComes
    <3> QED BY <1>d, <3>1, <3>2
  <2>2. CASE ~open
    <3>1. EmptiesBut("flags", v) /\ db' = EmptyDb
      BY <1>t, <1>1, <2>2, DeployAt DEF Deploy
    <3>2. \A b \in Versionless, w \in Version0 : handlers'[b][w] = 0
      BY <3>1, VersionlessAwaits DEF EmptiesBut
    <3> QED BY <3>1, <3>2 DEF ConfigFirst, EmptyDb
  <2> QED BY <2>1, <2>2
<1>a. ASSUME db' = db,
             \A b \in Versionless, w \in Version0 :
               AsksRollout(b, w) \/ AsksMigration(b, w)
      PROVE  ConfigFirst'
  <2>1. db.config = "none" /\ db.from = None
    BY <1>a DEF ConfigFirst
  <2>2. "traffic" \notin Versionless /\ "start migration" \notin Versionless
    BY VersionlessAwaits
  <2>3. \A b \in Versionless, w \in Version0 : handlers'[b][w] = handlers[b][w]
    BY <1>a, <2>1, <2>2 DEF AsksRollout, AsksMigration
  <2> QED BY <1>d, <1>a, <2>3 DEF NoneComes
<1>2. CASE SignalStartRollout
  <2>1. db' = db
    BY <1>2 DEF SignalStartRollout
  <2> QED BY <1>t, <1>2, <1>a, <2>1, SignalStartRolloutAt, VersionlessAwaits
<1>3. CASE SignalStartMigration
  <2>1. db' = db
    BY <1>3 DEF SignalStartMigration
  <2> QED BY <1>t, <1>3, <1>a, <2>1, SignalStartMigrationAt, VersionlessAwaits
<1>4. CASE CancelRollout
  <2>1. db' = db /\ (~rollout.running => handlers' = handlers)
    BY <1>4 DEF CancelRollout
  <2> QED BY <1>r, <1>u, <2>1
<1>5. CASE ContinueAsNew
  <2>1. Empties /\ db' = EmptyDb
    BY <1>5, EmptiesAt DEF ContinueAsNew
  <2>2. \A b \in Versionless, w \in Version0 : handlers'[b][w] = 0
    BY <2>1, VersionlessAwaits DEF Empties
  <2> QED BY <2>1, <2>2 DEF ConfigFirst, EmptyDb
<1>6. ASSUME NEW v \in Versions, FlagsRead(v) PROVE FALSE
  BY <1>t, <1>6 DEF FlagsRead, Db, Kinds
<1>7. ASSUME NEW v \in Versions, FlagApplied(v) PROVE ConfigFirst'
  <2>1. /\ db'.config = db.config /\ db'.from = db.from
        /\ db'.rollout = db.rollout
    BY <1>t, <1>7 DEF FlagApplied, Db
  <2>2. NoneComes
    BY <1>t, <1>7, ActivityAt, MovesNoneComes, VersionlessAwaits
  <2> QED BY <1>x, <2>1, <2>2
<1>8. ASSUME NEW v \in Versions, Simulated(v) PROVE ConfigFirst'
  <2>1. \A b \in Versionless, w \in Version0 : AsksRollout(b, w)
    BY <1>t, <1>8, SimulatedAt, VersionlessAwaits
  <2>2. db' = db
    BY <1>8 DEF Simulated
  <2> QED BY <1>a, <2>1, <2>2
<1>9. ASSUME NEW v \in Versions, TrafficRouted(v) PROVE ConfigFirst'
  <2>1. NoneComes
    BY <1>t, <1>9, ActivityAt, DropsNoneComes, VersionlessAwaits
  <2> QED BY <1>9, <1>d, <2>1 DEF TrafficRouted
<1>10. ASSUME NEW v \in Versions, ActivityFails(v) PROVE ConfigFirst'
  <2>1. NoneComes
    BY <1>t, <1>10, ActivityAt, DropsNoneComes, VersionlessAwaits
  <2> QED BY <1>10, <1>d, <2>1 DEF ActivityFails
<1>11. ASSUME NEW v \in Version0, RolloutStarts(v) \/ RolloutRefused(v) PROVE FALSE
  <2>1. handlers["start rollout"][v] > 0 /\ db' = db
    BY <1>11 DEF RolloutStarts, RolloutRefused, Refused
  <2> QED BY <1>z, <2>1, VersionlessAwaits
<1>12. ~RolloutSucceeds /\ ~RolloutFails
  BY <1>r DEF RolloutSucceeds, RolloutFails
<1>13. ASSUME NEW v \in Version0,
              MigrationStarts(v) \/ MigrationRefused(v) \/ CleanupRefused(v)
       PROVE  ConfigFirst'
  <2>1. NoneComes
    BY <1>t, <1>13, ChildAt, MovesNoneComes, DropsNoneComes, VersionlessAwaits
  <2>2. db' = db
    BY <1>13 DEF MigrationStarts, MigrationRefused, CleanupRefused
  <2> QED BY <1>d, <2>1, <2>2
<1>14. ASSUME NEW told \in MigrationEnd, MigrationEnds(told), db' = db
       PROVE  ConfigFirst'
  <2>1. CASE handlers' = handlers
    BY <1>14, <1>u, <2>1
  <2>2. CASE Moves("migration", migration.version, told, migration.version)
    <3>1. NoneComes
      BY <2>2, MovesNoneComes, VersionlessAwaits
    <3> QED BY <1>14, <1>d, <3>1
  <2> QED BY <1>t, <1>14, <2>1, <2>2, MigrationEndsAt
<1>15. MigrationSucceeds \/ MigrationTerminated => ConfigFirst'
  BY <1>14 DEF MigrationSucceeds, MigrationTerminated, MigrationEnd
<1>16. MigrationSticks => ConfigFirst'
  BY <1>u DEF MigrationSticks
<1>17. ASSUME NEW v \in Versions, CleanupEnds(v) PROVE ConfigFirst'
  BY <1>17, <1>u DEF CleanupEnds
<1>18. ASSUME NEW told \in RolloutEnd, NEW v \in Version0, RolloutDone(told, v)
       PROVE  FALSE
  <2>1. handlers[told][v] > 0 /\ db'.config = db.config
    BY <1>t, <1>18 DEF RolloutDone, Db
  <2> QED BY <1>z, <2>1, VersionlessAwaits
<1>19. ASSUME NEW told \in MigrationEnd, NEW v \in Version0, MigrationDone(told, v)
       PROVE  ConfigFirst'
  <2>1. /\ db'.config = db.config /\ db'.from = db.from
        /\ db'.rollout = db.rollout
    BY <1>t, <1>19 DEF MigrationDone, Db
  <2>2. Empties \/ Drops(told, v)
    BY <1>t, <1>19, MigrationDoneAt DEF Closes
  <2>3. NoneComes
    BY <2>2, EmptiesNoneComes, DropsNoneComes, VersionlessAwaits
  <2> QED BY <1>x, <2>1, <2>3
<1>20. ASSUME NEW v \in Version0, CleanupStarts(v) PROVE ConfigFirst'
  BY <1>t, <1>20, <1>d, ChildAt, EmptiesNoneComes DEF CleanupStarts
<1>21. UNCHANGED vars => ConfigFirst'
  BY <1>u DEF vars
<1> QED
  BY <1>1, <1>2, <1>3, <1>4, <1>5, <1>6, <1>7, <1>8, <1>9, <1>10, <1>11, <1>12,
     <1>13, <1>15, <1>16, <1>17, <1>18, <1>19, <1>20, <1>21
     DEF Next, Client, Faults, Activity, Child

LEMMA ConfigAlways == Spec => []ConfigFirst
<1>1. TypeInv /\ ConfigFirst /\ [Next]_vars => ConfigFirst'
  BY ConfigFirstStep
<1> QED BY <1>1, ConfigFirstInit, TypeAlways, PTL DEF Spec

-----------------------------------------------------------------------------
LEMMA OpenUntilDoneStep ==
  ASSUME ConfigFirst, OpenUntilDone, Effect
  PROVE  OpenUntilDone'
<1> DEFINE Cleans == \E v \in Version0 : handlers["start cleanup"][v] > 0
<1>k. Keeps("start cleanup") => (Cleans => Cleans')
  BY DEF Keeps
<1>i. OpenUntilDone <=>
        (open /\ db.rollout # "none" =>
           \/ db.migration = "none" /\ (db.config = "nonMigratory" => mixed)
           \/ refused \/ Cleans)
  BY DEF OpenUntilDone
<1>p. OpenUntilDone' <=>
        (open' /\ db'.rollout # "none" =>
           \/ db'.migration = "none" /\ (db'.config = "nonMigratory" => mixed')
           \/ refused' \/ Cleans')
  BY DEF OpenUntilDone
<1> HIDE DEF Cleans
<1>x. ASSUME Keeps("start cleanup"), UnaskedStays, ExitsKept, open' => open,
             refused => refused'
      PROVE  OpenUntilDone'
  <2> SUFFICES ASSUME open', db'.rollout # "none", ~refused', ~Cleans'
               PROVE  /\ db'.migration = "none"
                      /\ db'.config = "nonMigratory" => mixed'
    BY <1>p
  <2>1. db.migration = "none" /\ (db.config = "nonMigratory" => mixed)
    BY <1>k, <1>i, <1>x DEF ExitsKept
  <2>2. db.config # "none"
    BY <1>x DEF ConfigFirst, ExitsKept
  <2> QED BY <1>x, <2>1, <2>2 DEF UnaskedStays, ConfigStays, ExitsKept
<1>1. CASE Quiet
  BY <1>1, <1>x, WatchedKinds DEF Quiet
<1>2. CASE Restarts
  BY <1>2, <1>p DEF Restarts
<1>3. CASE Ends
  BY <1>3, <1>p DEF Ends
<1>4. CASE RolloutBegins
  BY <1>4, <1>x, WatchedKinds DEF RolloutBegins
<1>5. ASSUME NEW told \in RolloutEnd, RolloutIsOver(told) PROVE OpenUntilDone'
  BY <1>5, <1>x, WatchedKinds DEF RolloutIsOver
<1>6. ASSUME NEW v \in Version0, MigrationBegins(v) PROVE OpenUntilDone'
  BY <1>6, <1>x, WatchedKinds DEF MigrationBegins
<1>7. ASSUME NEW told \in MigrationEnd, MigrationIsOver(told) PROVE OpenUntilDone'
  BY <1>7, <1>x, WatchedKinds DEF MigrationIsOver
<1>8. ASSUME NEW told \in RolloutEnd, NEW v \in Version0, RolloutHeard(told, v)
      PROVE  OpenUntilDone'
  <2>1. db'.config = db.config
    BY <1>8 DEF RolloutHeard
  <2>2. CASE \E w \in Version0 : handlers'["start cleanup"][w] > 0
    BY <1>p, <2>2 DEF Cleans
  <2>3. CASE db.config # "nonMigratory" /\ db.migration = "none"
    BY <1>8, <1>p, <2>1, <2>3 DEF RolloutHeard
  <2> QED BY <1>8, <2>2, <2>3 DEF RolloutHeard
<1>9. ASSUME NEW told \in MigrationEnd, NEW v \in Version0, MigrationHeard(told, v)
      PROVE  OpenUntilDone'
  BY <1>9, <1>p DEF MigrationHeard
<1>10. CASE CleanupIsRefused
  BY <1>10, <1>p DEF CleanupIsRefused
<1> QED
  BY <1>1, <1>2, <1>3, <1>4, <1>5, <1>6, <1>7, <1>8, <1>9, <1>10 DEF Effect

\* A deployment whose rollout and migration have both ended, in whatever order
\* their results are handled, is closed or waits for a cleanup, which may be
\* refused; and one that does not migrate is open after its rollout only for its
\* cleanup, unless another deployment of the same execution does migrate.
THEOREM OpenUntilBothDone == Spec => []OpenUntilDone
<1>1. Init => OpenUntilDone
  BY DEF Init, OpenUntilDone
<1>2. TypeInv /\ ConfigFirst /\ OpenUntilDone /\ [Next]_vars => OpenUntilDone'
  BY StepEffect, OpenUntilDoneStep
<1> QED BY <1>1, <1>2, TypeAlways, ConfigAlways, PTL DEF Spec

-----------------------------------------------------------------------------
LEMMA ClosesStep ==
  ASSUME TypeInv, EndInv, Effect, open, ~open', \A k \in Children : started[k] <= 1
  PROVE  /\ ~rollout.running
         /\ mixed \/ \A v \in Version0 : handlers["migration"][v] = 0
<1>t. /\ handlers \in Counts
      /\ started["rollout"] \in Nat /\ started["rollout"] <= 1
      /\ started["migration"] \in Nat /\ started["migration"] <= 1
  BY DEF TypeInv, HandlersOK, RestOK, Children
<1>1. ~NoResult => ~rollout.running
  BY <1>t DEF NoResult
<1>2. ASSUME ~NoExit \/ db.config = "nonMigratory"
      PROVE  mixed \/ \A v \in Version0 : handlers["migration"][v] = 0
  <2>1. ~NoExit => ~MigrationAwaited
    BY <1>t DEF NoExit
  <2> QED BY <1>2, <2>1 DEF MigrationAwaited, EndInv, NotAsked
<1>3. Ends
  BY DEF Effect, Quiet, Restarts, RolloutBegins, RolloutIsOver, MigrationBegins,
         MigrationIsOver, RolloutHeard, MigrationHeard, CleanupIsRefused
<1>4. /\ db.rollout # "none" => ~NoResult
      /\ db.migration # "none" => ~NoExit
  BY DEF EndInv, RolloutSilent, MigrationSilent
<1>5. CASE /\ \E told \in RolloutEnd, v \in Version0 : handlers[told][v] > 0
           /\ db.config = "nonMigratory" \/ db.migration # "none"
  <2>1. ~NoResult
    BY <1>5 DEF EndInv, RolloutSilent
  <2> QED BY <1>1, <1>2, <1>4, <1>5, <2>1
<1>6. CASE /\ \E told \in MigrationEnd, v \in Version0 : handlers[told][v] > 0
           /\ db.rollout # "none"
  <2>1. ~NoExit
    BY <1>6 DEF EndInv, MigrationSilent
  <2> QED BY <1>1, <1>2, <1>4, <1>6, <2>1
<1>7. CASE \E v \in Version0 : handlers["start cleanup"][v] > 0
  <2>1. PICK v \in Version0 : handlers["start cleanup"][v] > 0
    BY <1>7
  <2>2. "start cleanup" \in Awaits
    BY DEF Awaits
  <2>3. handlers["start cleanup"][v] # 0
    BY <1>t, <2>1, <2>2, NotZero
  <2>4. /\ db.rollout # "none"
        /\ mixed \/ db.config = "nonMigratory"
    BY <2>3 DEF EndInv, CleanupLast
  <2> QED BY <1>1, <1>2, <1>4, <2>4
<1> QED BY <1>3, <1>5, <1>6, <1>7 DEF Ends

\* When an execution that has started at most one rollout and one migration
\* closes, by whichever of the three ways, its rollout does not run, and neither
\* does a migration it waits for, unless some of its deployments migrate and some
\* do not.
THEOREM ClosesWhenBothDone == Spec => ClosesWhenDone
<1>1. TypeInv /\ EndInv /\ [Next]_vars =>
        [open /\ ~open' /\ (\A k \in Children : started[k] <= 1) =>
           /\ ~rollout.running
           /\ mixed \/ \A v \in Version0 : handlers["migration"][v] = 0]_vars
  BY StepEffect, ClosesStep
<1> QED BY <1>1, TypeAlways, EndAlways, PTL DEF Spec, ClosesWhenDone

-----------------------------------------------------------------------------
(* What is rolled out and what is cleaned up, if one deployment was made.  *)

\* Before it: no handler runs, no rollout, and the database is empty.
Blank ==
  /\ \A b \in Awaits, w \in Version0 : handlers[b][w] = 0
  /\ db.config = "none" /\ db.from = None /\ db.to = None /\ db.rollout = "none"
  /\ ~rollout.running

\* What a handler may wait for if u is the only version deployed.
MayAwait(u, b, w) ==
  /\ b \in {"flags", "apply", "simulate", "traffic"} => w = u
  /\ b \in Versionless => w \in {u, None}
  /\ b = "rollout ok" => serving = u
  /\ b = "start cleanup" => w # u

AllMayAwait(u) ==
  \A b \in Awaits, w \in Version0 : handlers[b][w] > 0 => MayAwait(u, b, w)

AloneDb(u) ==
  /\ db.from # u /\ db.to \in {u, None}
  /\ db.rollout = "ok" => serving = u
  /\ rollout.running => rollout.version \in {u, None}

Alone(u) == AllMayAwait(u) /\ AloneDb(u)

AloneInv ==
  /\ open /\ deploys = 0 => Blank
  /\ open /\ deploys = 1 => \E u \in Versions : Alone(u)

LEMMA OtherSteps ==
  ASSUME [Next]_vars
  PROVE  \/ \E v \in Versions : Deploy(v)
         \/ ContinueAsNew
         \/ deploys' = deploys /\ (open' => open)
<1>1. SignalStartRollout \/ SignalStartMigration \/ CancelRollout
        => deploys' = deploys /\ (open' => open)
  BY DEF SignalStartRollout, SignalStartMigration, CancelRollout, history
<1>2. ASSUME NEW v \in Versions,
             Activity(v) \/ CleanupEnds(v) \/ ActivityFails(v)
      PROVE  deploys' = deploys /\ (open' => open)
  <2>1. CASE FlagsRead(v)
    BY <2>1 DEF FlagsRead
  <2>2. CASE FlagApplied(v) \/ Simulated(v) \/ TrafficRouted(v)
    BY <2>2 DEF FlagApplied, Simulated, TrafficRouted, history
  <2>3. CASE CleanupEnds(v) \/ ActivityFails(v)
    BY <2>3 DEF CleanupEnds, ActivityFails, history
  <2> QED BY <1>2, <2>1, <2>2, <2>3 DEF Activity
<1>3. ASSUME NEW v \in Version0, Child(v)
      PROVE  deploys' = deploys /\ (open' => open)
  <2>1. CASE RolloutStarts(v)
    BY <2>1 DEF RolloutStarts
  <2>2. CASE RolloutRefused(v)
    BY <2>2 DEF RolloutRefused
  <2>3. CASE MigrationStarts(v)
    BY <2>3 DEF MigrationStarts
  <2>4. CASE MigrationRefused(v)
    BY <2>4 DEF MigrationRefused
  <2>5. CASE CleanupStarts(v)
    BY <2>5 DEF CleanupStarts, Close, history
  <2>6. CASE CleanupRefused(v)
    BY <2>6 DEF CleanupRefused
  <2>7. ASSUME NEW told \in RolloutEnd, RolloutDone(told, v)
        PROVE  deploys' = deploys /\ (open' => open)
    <3>1. UNCHANGED deploys
      BY <2>7 DEF RolloutDone, history
    <3>2. UNCHANGED open \/ open' = FALSE
      BY <2>7 DEF RolloutDone, Close
    <3> QED BY <3>1, <3>2
  <2>8. ASSUME NEW told \in MigrationEnd, MigrationDone(told, v)
        PROVE  deploys' = deploys /\ (open' => open)
    BY <2>8 DEF MigrationDone, Close, history
  <2> QED BY <1>3, <2>1, <2>2, <2>3, <2>4, <2>5, <2>6, <2>7, <2>8 DEF Child
<1>4. CASE RolloutSucceeds \/ RolloutFails \/ MigrationSucceeds
             \/ MigrationSticks \/ MigrationTerminated
  <2>1. UNCHANGED <<deploys, open>>
    <3>1. CASE RolloutSucceeds
      BY <3>1 DEF RolloutSucceeds
    <3>2. CASE RolloutFails
      BY <3>2 DEF RolloutFails, history
    <3>3. CASE MigrationSucceeds
      BY <3>3 DEF MigrationSucceeds, history
    <3>4. CASE MigrationSticks
      BY <3>4 DEF MigrationSticks, history
    <3>5. CASE MigrationTerminated
      BY <3>5 DEF MigrationTerminated, history
    <3> QED BY <1>4, <3>1, <3>2, <3>3, <3>4, <3>5
  <2> QED BY <2>1
<1>5. UNCHANGED vars => deploys' = deploys /\ (open' => open)
  BY DEF vars, history
<1> QED BY <1>1, <1>2, <1>3, <1>4, <1>5 DEF Next, Client, Faults

(* The one deployment, the first of an execution.                          *)
LEMMA DeployAlone ==
  ASSUME TypeInv, EndInv, AloneInv, NEW v \in Versions, Deploy(v), deploys' = 1
  PROVE  Alone(v)'
<1>t. handlers \in Counts /\ v \in Version0 /\ v # None /\ deploys \in Nat
  BY VersionAssumption DEF TypeInv, HandlersOK, RestOK, Version0
<1>f. "flags" \notin Versionless \cup {"rollout ok", "start cleanup"}
  BY DEF Versionless, RolloutEnd
<1>1. /\ \A b \in Awaits, w \in Version0 :
           handlers'[b][w] > 0 => b = "flags" /\ w = v
      /\ db'.from = None /\ db'.to = None /\ db'.rollout = "none"
      /\ ~rollout'.running
  <2>1. CASE open
    <3>1. deploys = 0 /\ db' = db
      BY <1>t, <2>1 DEF Deploy
    <3>2. Blank /\ Adds("flags", v)
      BY <1>t, <2>1, <3>1, DeployAt DEF AloneInv
    <3>3. \A b \in Awaits, w \in Version0 :
            ~(b = "flags" /\ w = v) => handlers'[b][w] = 0
      BY <3>2 DEF Adds, Blank
    <3>4. rollout' = rollout
      BY DEF Deploy
    <3> QED BY <3>1, <3>2, <3>3, <3>4 DEF Blank
  <2>2. CASE ~open
    <3>1. EmptiesBut("flags", v) /\ db' = EmptyDb /\ rollout' = rollout
      BY <1>t, <2>2, DeployAt DEF Deploy
    <3>2. ~rollout.running
      BY <2>2 DEF EndInv, RolloutRuns
    <3> QED BY <3>1, <3>2 DEF EmptiesBut, EmptyDb
  <2> QED BY <2>1, <2>2
<1>2. AllMayAwait(v)'
  BY <1>1, <1>f DEF AllMayAwait, MayAwait
<1>3. AloneDb(v)'
  BY <1>1, <1>t DEF AloneDb
<1> QED BY <1>2, <1>3 DEF Alone

(* A run that follows on another starts with nothing.                      *)
LEMMA ContinueBlank ==
  ASSUME ContinueAsNew, RestOK
  PROVE  Blank'
<1>1. Empties /\ db' = EmptyDb /\ ~rollout'.running
  BY EmptiesAt DEF ContinueAsNew, NoRollout
<1> QED BY <1>1 DEF Empties, EmptyDb, Blank

(* Without a deployment there is nothing to do.                            *)
LEMMA BlankStep ==
  ASSUME TypeInv, Blank, [Next]_vars,
         ~\E v \in Versions : Deploy(v), ~ContinueAsNew
  PROVE  Blank'
<1>t. /\ handlers \in Counts /\ db \in Db /\ Versions \subseteq Version0
      /\ migration.version \in Version0
  BY DEF TypeInv, HandlersOK, RestOK, Version0
<1>0. ASSUME NEW b \in Awaits, NEW w \in Version0, handlers[b][w] > 0
      PROVE  FALSE
  BY <1>0 DEF Blank
<1>u. ASSUME UNCHANGED <<handlers, db, rollout>> PROVE Blank'
  BY <1>u DEF Blank
<1>1. SignalStartRollout => Blank'
  BY <1>u DEF SignalStartRollout, HandleRollout, Blank
<1>2. SignalStartMigration => Blank'
  BY <1>u DEF SignalStartMigration, HandleMigration, Blank
<1>3. CancelRollout => Blank'
  BY <1>u DEF CancelRollout, Blank
<1>4. ASSUME NEW v \in Versions PROVE ~Activity(v) /\ ~ActivityFails(v)
  <2>1. {"flags", "apply", "simulate", "traffic"} \subseteq Awaits
    BY DEF Awaits
  <2>2. \A a \in {"flags", "apply", "simulate", "traffic"} : ~(handlers[a][v] > 0)
    BY <1>t, <1>0, <2>1
  <2> QED BY <2>2 DEF Activity, FlagsRead, FlagApplied, Simulated,
                      TrafficRouted, ActivityFails
<1>5. ASSUME NEW v \in Version0 PROVE ~Child(v)
  <2>1. /\ {"start rollout", "start migration", "start cleanup"} \subseteq Awaits
        /\ RolloutEnd \subseteq Awaits /\ MigrationEnd \subseteq Awaits
    BY DEF Awaits, RolloutEnd, MigrationEnd
  <2>2. \A a \in {"start rollout", "start migration", "start cleanup"}
                   \cup RolloutEnd \cup MigrationEnd : ~(handlers[a][v] > 0)
    BY <1>0, <2>1
  <2> QED BY <2>2 DEF Child, RolloutStarts, RolloutRefused, MigrationStarts,
                      MigrationRefused, CleanupStarts, CleanupRefused, Refused,
                      RolloutDone, MigrationDone
<1>6. ~RolloutSucceeds /\ ~RolloutFails
  BY DEF RolloutSucceeds, RolloutFails, Blank
<1>7. ASSUME NEW told \in MigrationEnd, MigrationEnds(told) PROVE handlers' = handlers
  <2>1. "migration" \in Awaits
    BY DEF Awaits
  <2> QED BY <1>t, <1>0, <1>7, <2>1, MigrationEndsAt
<1>8. MigrationSucceeds \/ MigrationTerminated => Blank'
  BY <1>u, <1>7 DEF MigrationSucceeds, MigrationTerminated, MigrationEnd
<1>9. MigrationSticks => Blank'
  BY <1>u DEF MigrationSticks
<1>10. ASSUME NEW v \in Versions PROVE CleanupEnds(v) => Blank'
  BY <1>u DEF CleanupEnds
<1>11. UNCHANGED vars => Blank'
  BY <1>u DEF vars
<1> QED
  BY <1>1, <1>2, <1>3, <1>4, <1>5, <1>6, <1>8, <1>9, <1>10, <1>11
     DEF Next, Client, Faults

\* A handler that is new may wait for what it does.
Grows(u) ==
  \A b \in Awaits, w \in Version0 :
    handlers'[b][w] > 0 => handlers[b][w] > 0 \/ MayAwait(u, b, w)'

LEMMA GrowsAwait ==
  ASSUME NEW u \in Versions, AllMayAwait(u), Grows(u), serving' \in {serving, u}
  PROVE  AllMayAwait(u)'
<1> SUFFICES ASSUME NEW b \in Awaits, NEW w \in Version0, handlers'[b][w] > 0
             PROVE  MayAwait(u, b, w)'
  BY DEF AllMayAwait
<1>1. CASE handlers[b][w] > 0
  <2>1. MayAwait(u, b, w)
    BY <1>1 DEF AllMayAwait
  <2> QED BY <2>1 DEF MayAwait
<1>2. CASE ~(handlers[b][w] > 0)
  BY <1>2 DEF Grows
<1> QED BY <1>1, <1>2

LEMMA MovesGrows ==
  ASSUME NEW u \in Versions, handlers \in Counts, NEW a \in Awaits,
         NEW v \in Version0, NEW c \in Awaits, NEW x \in Version0,
         Moves(a, v, c, x), MayAwait(u, c, x)'
  PROVE  Grows(u)
<1> SUFFICES ASSUME NEW b \in Awaits, NEW w \in Version0, handlers'[b][w] > 0
             PROVE  handlers[b][w] > 0 \/ MayAwait(u, b, w)'
  BY DEF Grows
<1> DEFINE n == handlers[b][w]
<1>1. n \in Nat
  BY DEF Counts
<1>2. CASE b = c /\ w = x
  BY <1>2
<1>3. CASE ~(b = c /\ w = x)
  <2>1. handlers'[b][w] = n - 1 \/ handlers'[b][w] = n
    BY <1>3 DEF Moves
  <2> HIDE DEF n
  <2>2. n > 0
    BY <1>1, <2>1
  <2> QED BY <2>2 DEF n
<1> QED BY <1>2, <1>3

LEMMA DropsGrows ==
  ASSUME NEW u \in Versions, handlers \in Counts, NEW a \in Awaits,
         NEW v \in Version0, Drops(a, v)
  PROVE  Grows(u)
<1> SUFFICES ASSUME NEW b \in Awaits, NEW w \in Version0, handlers'[b][w] > 0
             PROVE  handlers[b][w] > 0
  BY DEF Grows
<1> DEFINE n == handlers[b][w]
<1>1. n \in Nat
  BY DEF Counts
<1>2. handlers'[b][w] = n - 1 \/ handlers'[b][w] = n
  BY DEF Drops
<1> HIDE DEF n
<1>3. n > 0
  BY <1>1, <1>2
<1> QED BY <1>3 DEF n

(* Both ways to a first wait may be taken.                                 *)
LEMMA AskedMayAwait ==
  ASSUME NEW u \in Versions, AloneDb(u), NEW b \in Awaits, NEW w \in Version0,
         handlers'[b][w] > 0, AsksRollout(b, w) \/ AsksMigration(b, w)
  PROVE  handlers[b][w] > 0 \/ MayAwait(u, b, w)'
<1>1. CASE handlers'[b][w] = handlers[b][w]
  BY <1>1
<1>2. CASE b \in {"start rollout", "traffic"} /\ w = db.to /\ (b = "traffic" => w # None)
  BY <1>2 DEF AloneDb, MayAwait, Versionless, RolloutEnd
<1>3. CASE b = "start migration"
  BY <1>3 DEF MayAwait, Versionless, RolloutEnd
<1> QED BY <1>1, <1>2, <1>3 DEF AsksRollout, AsksMigration

LEMMA RolloutEndsAlone ==
  ASSUME TypeInv, NEW u \in Versions, Alone(u), rollout.running,
         NEW told \in RolloutEnd, RolloutEnds(told), db' = db,
         serving' \in {serving, u}, told = "rollout ok" => serving' = u
  PROVE  Alone(u)'
<1>1. /\ handlers \in Counts /\ rollout.version \in Version0
      /\ handlers["rollout"][rollout.version] > 0
      /\ "rollout" \in Awaits /\ told \in Awaits
      /\ ~rollout'.running
  BY DEF TypeInv, HandlersOK, RestOK, Attended, Awaits, RolloutEnd, RolloutEnds,
         NoRollout
<1>2. Moves("rollout", rollout.version, told, rollout.version)
  BY <1>1, RolloutEndsAt
<1>3. PICK x \in Version0 : x = rollout.version
  BY <1>1
<1>k. /\ told \notin {"flags", "apply", "simulate", "traffic", "start cleanup"}
      /\ x \in {u, None}
  BY <1>3 DEF RolloutEnd, Alone, AloneDb
<1>m. MayAwait(u, told, x)'
  BY <1>k DEF MayAwait
<1>4. Grows(u)
  BY <1>1, <1>2, <1>3, <1>m, MovesGrows
<1>5. AllMayAwait(u)'
  BY <1>4, GrowsAwait DEF Alone
<1>6. AloneDb(u)'
  BY <1>1 DEF Alone, AloneDb
<1> QED BY <1>5, <1>6 DEF Alone

LEMMA MigrationEndsAlone ==
  ASSUME TypeInv, NEW u \in Versions, Alone(u), NEW told \in MigrationEnd,
         MigrationEnds(told), UNCHANGED <<db, rollout, serving>>
  PROVE  Alone(u)'
<1>1. /\ handlers \in Counts /\ migration.version \in Version0
      /\ "migration" \in Awaits /\ told \in Awaits
  BY DEF TypeInv, HandlersOK, RestOK, Awaits, MigrationEnd
<1>2. Grows(u)
  <2>1. CASE handlers["migration"][migration.version] > 0
    <3>1. Moves("migration", migration.version, told, migration.version)
      BY <1>1, <2>1, MigrationEndsAt
    <3>2. PICK x \in Version0 : x = migration.version
      BY <1>1
    <3>3. MayAwait(u, told, x)'
      BY DEF MayAwait, MigrationEnd, Versionless, RolloutEnd
    <3> QED BY <1>1, <3>1, <3>2, <3>3, MovesGrows
  <2>2. CASE ~(handlers["migration"][migration.version] > 0)
    BY <1>1, <2>2, MigrationEndsAt DEF Grows
  <2> QED BY <2>1, <2>2
<1>3. AllMayAwait(u)'
  BY <1>2, GrowsAwait DEF Alone
<1> QED BY <1>3 DEF Alone, AloneDb

(* A step that leaves one handler fewer, and the database as it was.       *)
LEMMA DropsAlone ==
  ASSUME TypeInv, NEW u \in Versions, Alone(u), NEW a \in Awaits,
         NEW v \in Version0, Drops(a, v), UNCHANGED <<rollout, serving>>,
         db'.from = db.from, db'.to = db.to,
         db'.rollout = "ok" => serving = u
  PROVE  Alone(u)'
<1>1. Grows(u)
  BY DropsGrows DEF TypeInv, HandlersOK
<1>2. AllMayAwait(u)'
  BY <1>1, GrowsAwait DEF Alone
<1> QED BY <1>2 DEF Alone, AloneDb

(* The activities of the one deployment.                                   *)
LEMMA ActivityAlone ==
  ASSUME TypeInv, NEW u \in Versions, Alone(u), NEW v \in Versions,
         Activity(v) \/ ActivityFails(v)
  PROVE  Alone(u)'
<1>t. /\ handlers \in Counts /\ db \in Db /\ v \in Version0
      /\ {"flags", "apply", "simulate", "traffic"} \subseteq Awaits
  BY DEF TypeInv, HandlersOK, RestOK, Version0, Awaits
<1>f. {"flags", "apply", "simulate", "traffic"} \cap
        (Versionless \cup {"rollout ok", "start cleanup"}) = {}
  BY DEF Versionless, RolloutEnd
<1>v. ASSUME NEW a \in {"flags", "apply", "simulate", "traffic"},
             handlers[a][v] > 0
      PROVE  v = u
  BY <1>t, <1>v DEF Alone, AllMayAwait, MayAwait
<1>m. \A a \in {"flags", "apply", "simulate", "traffic"} : MayAwait(u, a, u)'
  BY <1>f DEF MayAwait
<1>1. CASE FlagsRead(v)
  <2>1. v = u /\ Moves("flags", v, "apply", v) /\ UNCHANGED <<rollout, serving>>
    BY <1>t, <1>v, <1>1, ActivityAt DEF FlagsRead, history
  <2>2. AllMayAwait(u)'
    BY <1>t, <1>m, <2>1, MovesGrows, GrowsAwait DEF Alone
  <2>3. PICK x \in Version0, kind \in Kinds :
          IsFrom(v, x) /\ db' = [db EXCEPT !.config = kind, !.from = x]
    BY <1>1 DEF FlagsRead
  <2>4. x # u
    BY <2>1, <2>3, VersionAssumption DEF IsFrom
  <2>5. db'.from # u /\ db'.to = db.to /\ db'.rollout = db.rollout
    BY <1>t, <2>3, <2>4 DEF Db
  <2> QED BY <2>1, <2>2, <2>5 DEF Alone, AloneDb
<1>2. CASE FlagApplied(v)
  <2>1. v = u /\ Moves("apply", v, "simulate", v) /\ UNCHANGED <<rollout, serving>>
    BY <1>t, <1>v, <1>2, ActivityAt DEF FlagApplied, history
  <2>2. AllMayAwait(u)'
    BY <1>t, <1>m, <2>1, MovesGrows, GrowsAwait DEF Alone
  <2>3. db'.from = db.from /\ db'.to = v /\ db'.rollout = db.rollout
    BY <1>t, <1>2 DEF FlagApplied, Db
  <2> QED BY <2>1, <2>2, <2>3 DEF Alone, AloneDb
<1>3. CASE Simulated(v)
  <2>1. UNCHANGED <<db, rollout, serving>>
    BY <1>3 DEF Simulated, history
  <2>2. Grows(u)
    <3> SUFFICES ASSUME NEW b \in Awaits, NEW w \in Version0, handlers'[b][w] > 0
                 PROVE  handlers[b][w] > 0 \/ MayAwait(u, b, w)'
      BY DEF Grows
    <3>1. CASE b = "simulate"
      <4> DEFINE n == handlers["simulate"][w]
      <4>1. n \in Nat
        BY <1>t DEF Counts
      <4>2. handlers'["simulate"][w] = n - 1 \/ handlers'["simulate"][w] = n
        BY <1>t, <1>3, SimulatedAt
      <4> HIDE DEF n
      <4>3. n > 0
        BY <3>1, <4>1, <4>2
      <4> QED BY <3>1, <4>3 DEF n
    <3>2. CASE b # "simulate"
      <4>1. AsksRollout(b, w)
        BY <1>t, <1>3, <3>2, SimulatedAt
      <4> QED BY <4>1, AskedMayAwait DEF Alone
    <3> QED BY <3>1, <3>2
  <2>3. AllMayAwait(u)'
    BY <2>1, <2>2, GrowsAwait DEF Alone
  <2> QED BY <2>1, <2>3 DEF Alone, AloneDb
<1>4. CASE TrafficRouted(v)
  <2>1. v = u /\ Drops("traffic", v) /\ UNCHANGED <<db, rollout>> /\ serving' = u
    BY <1>t, <1>v, <1>4, ActivityAt DEF TrafficRouted
  <2>2. AllMayAwait(u)'
    BY <1>t, <2>1, DropsGrows, GrowsAwait DEF Alone
  <2> QED BY <2>1, <2>2 DEF Alone, AloneDb
<1>5. CASE ActivityFails(v)
  <2>1. /\ \E a \in {"flags", "apply", "simulate", "traffic"} : Drops(a, v)
        /\ UNCHANGED <<db, rollout>>
    BY <1>t, <1>5, ActivityAt DEF ActivityFails
  <2>2. serving' \in {serving, u}
    BY <1>v, <1>5 DEF ActivityFails
  <2>3. AllMayAwait(u)'
    BY <1>t, <2>1, <2>2, DropsGrows, GrowsAwait DEF Alone
  <2> QED BY <2>1, <2>2, <2>3 DEF Alone, AloneDb
<1> QED BY <1>1, <1>2, <1>3, <1>4, <1>5 DEF Activity

(* Its children and their ends.                                            *)
LEMMA ChildAlone ==
  ASSUME TypeInv, NEW u \in Versions, Alone(u), NEW v \in Version0, Child(v), open'
  PROVE  Alone(u)'
<1>t. /\ handlers \in Counts /\ db \in Db /\ db.from \in Version0
      /\ {"start rollout", "rollout", "start migration", "migration",
          "start cleanup"} \subseteq Awaits
      /\ RolloutEnd \subseteq Awaits /\ MigrationEnd \subseteq Awaits
  BY DEF TypeInv, HandlersOK, RestOK, Db, Awaits, RolloutEnd, MigrationEnd
<1>1. CASE RolloutStarts(v)
  <2>1. /\ handlers["start rollout"][v] > 0
        /\ rollout'.version = v /\ serving' = serving
        /\ db'.from = db.from /\ db'.to = db.to /\ db'.rollout = db.rollout
    BY <1>t, <1>1 DEF RolloutStarts, Db
  <2>2. v \in {u, None}
    BY <1>t, <2>1 DEF Alone, AllMayAwait, MayAwait, Versionless
  <2>3. Grows(u)
    <3> SUFFICES ASSUME NEW b \in Awaits, NEW w \in Version0, handlers'[b][w] > 0
                 PROVE  handlers[b][w] > 0 \/ MayAwait(u, b, w)'
      BY DEF Grows
    <3> DEFINE n == handlers[b][w]
    <3>1. n \in Nat
      BY <1>t DEF Counts
    <3>2. CASE b = "start rollout" \/ (b = "rollout" /\ w # v)
      <4>1. handlers'[b][w] = n - 1 \/ handlers'[b][w] = n
        BY <1>t, <1>1, <3>2, RolloutStartsAt
      <4> HIDE DEF n
      <4>2. n > 0
        BY <3>1, <4>1
      <4> QED BY <4>2 DEF n
    <3>3. CASE b = "rollout" /\ w = v
      BY <2>2, <3>3 DEF MayAwait, Versionless, RolloutEnd
    <3>4. CASE b \notin {"start rollout", "rollout"}
      <4>1. AsksMigration(b, w)
        BY <1>t, <1>1, <3>4, RolloutStartsAt
      <4> QED BY <4>1, AskedMayAwait DEF Alone
    <3> QED BY <3>2, <3>3, <3>4
  <2>4. AllMayAwait(u)'
    BY <2>1, <2>3, GrowsAwait DEF Alone
  <2> QED BY <2>1, <2>2, <2>4 DEF Alone, AloneDb
<1>2. CASE RolloutRefused(v) \/ MigrationRefused(v) \/ CleanupRefused(v)
  <2>1. UNCHANGED <<db, rollout, serving>>
    BY <1>2 DEF RolloutRefused, MigrationRefused, CleanupRefused
  <2>2. \E a \in Awaits : Drops(a, v)
    BY <1>t, <1>2, ChildAt
  <2> QED BY <2>1, <2>2, DropsAlone DEF Alone, AloneDb
<1>3. CASE MigrationStarts(v)
  <2>1. UNCHANGED <<db, rollout, serving>>
    BY <1>3 DEF MigrationStarts
  <2>2. Moves("start migration", v, "migration", v)
    BY <1>t, <1>3, ChildAt
  <2>3. MayAwait(u, "migration", v)'
    BY DEF MayAwait, Versionless, RolloutEnd
  <2>4. AllMayAwait(u)'
    BY <1>t, <2>1, <2>2, <2>3, MovesGrows, GrowsAwait DEF Alone
  <2> QED BY <2>1, <2>4 DEF Alone, AloneDb
<1>4. CASE CleanupStarts(v)
  BY <1>4 DEF CleanupStarts, Close
<1>5. ASSUME NEW told \in RolloutEnd, RolloutDone(told, v) PROVE Alone(u)'
  <2>1. /\ handlers[told][v] > 0 /\ serving' = serving
        /\ db'.from = db.from /\ db'.to = db.to /\ db'.rollout = ExitOf(told)
    BY <1>t, <1>5 DEF RolloutDone, Db, history
  <2>2. db'.rollout = "ok" => serving = u
    BY <1>t, <2>1 DEF ExitOf, RolloutEnd, Alone, AllMayAwait, MayAwait
  <2>3. CASE /\ UNCHANGED <<open, rollout>>
             /\ Moves(told, v, "start cleanup", db.from)
    <3>1. PICK x \in Version0 : x = db.from
      BY <1>t
    <3>2. MayAwait(u, "start cleanup", x)'
      BY <3>1 DEF MayAwait, Versionless, RolloutEnd, Alone, AloneDb
    <3>3. AllMayAwait(u)'
      BY <1>t, <2>1, <2>3, <3>1, <3>2, MovesGrows, GrowsAwait DEF Alone
    <3> QED BY <2>1, <2>2, <2>3, <3>3 DEF Alone, AloneDb
  <2>4. CASE UNCHANGED <<open, rollout>> /\ Drops(told, v)
    BY <1>t, <2>1, <2>2, <2>4, DropsAlone
  <2>5. CASE Closes
    BY <2>5 DEF Closes
  <2> QED BY <1>t, <1>5, <2>3, <2>4, <2>5, RolloutDoneAt
<1>6. ASSUME NEW told \in MigrationEnd, MigrationDone(told, v) PROVE Alone(u)'
  <2>1. /\ serving' = serving /\ db'.from = db.from /\ db'.to = db.to
        /\ db'.rollout = db.rollout
    BY <1>t, <1>6 DEF MigrationDone, Db, history
  <2>2. rollout' = rollout /\ Drops(told, v)
    BY <1>t, <1>6, MigrationDoneAt DEF Closes
  <2> QED BY <1>t, <2>1, <2>2, DropsAlone DEF Alone, AloneDb
<1> QED BY <1>1, <1>2, <1>3, <1>4, <1>5, <1>6 DEF Child

LEMMA AloneStep ==
  ASSUME TypeInv, NEW u \in Versions, Alone(u), [Next]_vars, open',
         ~\E v \in Versions : Deploy(v), ~ContinueAsNew
  PROVE  Alone(u)'
<1>t. handlers \in Counts /\ db \in Db
  BY DEF TypeInv, HandlersOK, RestOK
<1>u. ASSUME UNCHANGED <<handlers, db, rollout, serving>> PROVE Alone(u)'
  BY <1>u DEF Alone, AllMayAwait, MayAwait, AloneDb
<1>g. ASSUME UNCHANGED <<db, rollout, serving>>,
             \A b \in Awaits, w \in Version0 : AsksRollout(b, w) \/ AsksMigration(b, w)
      PROVE  Alone(u)'
  <2>1. Grows(u)
    BY <1>g, AskedMayAwait DEF Grows, Alone
  <2>2. AllMayAwait(u)'
    BY <1>g, <2>1, GrowsAwait DEF Alone
  <2> QED BY <1>g, <2>2 DEF Alone, AloneDb
<1>1. CASE SignalStartRollout
  BY <1>t, <1>1, <1>g, SignalStartRolloutAt DEF SignalStartRollout, history
<1>2. CASE SignalStartMigration
  BY <1>t, <1>2, <1>g, SignalStartMigrationAt DEF SignalStartMigration, history
<1>3. CASE CancelRollout
  <2>1. UNCHANGED <<db, serving>>
    BY <1>3 DEF CancelRollout, history
  <2>2. \/ rollout.running /\ RolloutEnds("rollout error")
        \/ UNCHANGED <<rollout, handlers>>
    BY <1>3 DEF CancelRollout
  <2> QED BY <1>u, <2>1, <2>2, RolloutEndsAlone DEF RolloutEnd
<1>4. CASE RolloutSucceeds
  <2>1. /\ rollout.running /\ RolloutEnds("rollout ok") /\ db' = db
        /\ serving' = rollout.version /\ rollout.version # None
    BY <1>4 DEF RolloutSucceeds
  <2>2. serving' = u
    BY <2>1 DEF Alone, AloneDb
  <2> QED BY <2>1, <2>2, RolloutEndsAlone DEF RolloutEnd
<1>5. CASE RolloutFails
  <2>1. /\ rollout.running /\ RolloutEnds("rollout error") /\ db' = db
        /\ serving' = serving
    BY <1>5 DEF RolloutFails, history
  <2> QED BY <2>1, RolloutEndsAlone DEF RolloutEnd
<1>6. CASE MigrationSucceeds
  BY <1>6, MigrationEndsAlone DEF MigrationSucceeds, MigrationEnd, history
<1>7. CASE MigrationTerminated
  BY <1>7, MigrationEndsAlone DEF MigrationTerminated, MigrationEnd, history
<1>8. CASE MigrationSticks
  BY <1>8, <1>u DEF MigrationSticks, history
<1>9. ASSUME NEW v \in Versions, CleanupEnds(v) PROVE Alone(u)'
  BY <1>9, <1>u DEF CleanupEnds, history
<1>10. ASSUME NEW v \in Versions, Activity(v) \/ ActivityFails(v) PROVE Alone(u)'
  BY <1>10, ActivityAlone
<1>11. ASSUME NEW v \in Version0, Child(v) PROVE Alone(u)'
  BY <1>11, ChildAlone
<1>12. CASE UNCHANGED vars
  BY <1>12, <1>u DEF vars, history
<1> QED
  BY <1>1, <1>2, <1>3, <1>4, <1>5, <1>6, <1>7, <1>8, <1>9, <1>10, <1>11, <1>12
     DEF Next, Client, Faults

LEMMA AloneInvStep ==
  TypeInv /\ EndInv /\ AloneInv /\ [Next]_vars => AloneInv'
<1> SUFFICES ASSUME TypeInv, EndInv, AloneInv, [Next]_vars PROVE AloneInv'
  OBVIOUS
<1>t. RestOK /\ deploys \in Nat
  BY DEF TypeInv, RestOK
<1>1. ASSUME NEW v \in Versions, Deploy(v) PROVE AloneInv'
  <2>1. deploys' = deploys + 1 \/ deploys' = 1
    BY <1>1 DEF Deploy
  <2>2. deploys' # 0
    BY <1>t, <2>1
  <2>3. deploys' = 1 => Alone(v)'
    BY <1>1, DeployAlone
  <2> QED BY <2>2, <2>3 DEF AloneInv
<1>2. CASE ContinueAsNew
  <2>1. Blank' /\ deploys' = 0
    BY <1>t, <1>2, ContinueBlank DEF ContinueAsNew
  <2> QED BY <2>1 DEF AloneInv
<1>3. CASE (~\E v \in Versions : Deploy(v)) /\ ~ContinueAsNew
  <2>1. deploys' = deploys /\ (open' => open)
    BY <1>3, OtherSteps
  <2>2. open' /\ deploys' = 0 => Blank'
    BY <1>3, <2>1, BlankStep DEF AloneInv
  <2>3. open' /\ deploys' = 1 => \E u \in Versions : Alone(u)'
    BY <1>3, <2>1, AloneStep DEF AloneInv
  <2> QED BY <2>2, <2>3 DEF AloneInv
<1> QED BY <1>1, <1>2, <1>3

LEMMA CleansStep ==
  ASSUME TypeInv, AloneInv, [Next]_vars, NEW v \in Versions,
         v \in cleaning' \ cleaning, deploys = 1, db.rollout = "ok"
  PROVE  v # serving
<1>1. CleanupStarts(v)
  <2>1. PICK x \in Version0 : CleanupStarts(x)
    <3>1. \/ \E x \in Version0 : CleanupStarts(x)
          \/ \E x \in Versions : CleanupEnds(x)
          \/ cleaning' = cleaning
      <4>1. Client => cleaning' = cleaning
        BY DEF Client, Deploy, SignalStartRollout, SignalStartMigration,
               CancelRollout, ContinueAsNew
      <4>2. Faults => cleaning' = cleaning
        BY DEF Faults, ActivityFails, RolloutFails, MigrationSticks,
               MigrationTerminated
      <4>3. RolloutSucceeds \/ MigrationSucceeds => cleaning' = cleaning
        BY DEF RolloutSucceeds, MigrationSucceeds
      <4>4. ASSUME NEW x \in Versions, Activity(x) PROVE cleaning' = cleaning
        BY <4>4 DEF Activity, FlagsRead, FlagApplied, Simulated, TrafficRouted
      <4>5. ASSUME NEW x \in Version0, Child(x), ~CleanupStarts(x)
            PROVE  cleaning' = cleaning
        BY <4>5 DEF Child, RolloutStarts, RolloutRefused, MigrationStarts,
                    MigrationRefused, CleanupRefused, RolloutDone, MigrationDone
      <4>6. UNCHANGED vars => cleaning' = cleaning
        BY DEF vars
      <4> QED BY <4>1, <4>2, <4>3, <4>4, <4>5, <4>6 DEF Next
    <3> QED BY <3>1 DEF CleanupEnds
  <2> QED BY <2>1 DEF CleanupStarts
<1>2. /\ v \in Version0 /\ "start cleanup" \in Awaits
      /\ handlers["start cleanup"][v] > 0
  BY <1>1 DEF CleanupStarts, Version0, Awaits
<1>3. open
  BY <1>2, OpenAt DEF TypeInv
<1>4. PICK u \in Versions : Alone(u)
  BY <1>3 DEF AloneInv
<1>5. v # u
  BY <1>2, <1>4 DEF Alone, AllMayAwait, MayAwait
<1>6. serving = u
  BY <1>4 DEF Alone, AloneDb
<1> QED BY <1>5, <1>6

\* If one deployment was made and its rollout succeeded, the version whose cleanup
\* starts, and so loses its worker, is not the one that now serves.
THEOREM CleansOnlyReplaced == Spec => CleansReplaced
<1>1. Init => AloneInv
  BY DEF Init, AloneInv
<1>2. TypeInv /\ AloneInv /\ [Next]_vars =>
        [\A v \in Versions :
           /\ v \in cleaning' \ cleaning
           /\ deploys = 1 /\ db.rollout = "ok"
           => v # serving]_vars
  BY CleansStep
<1> QED BY <1>1, <1>2, AloneInvStep, TypeAlways, EndAlways, PTL
        DEF Spec, CleansReplaced

-----------------------------------------------------------------------------
(* Nothing a deployment waits for is lost: what RolloutCloses rests on.    *)

Waits(a) == \E v \in Version0 : handlers[a][v] > 0

\* A rollout's result is to come: it runs, or the handler is to be told it.
RolloutComing == rollout.running \/ \E told \in RolloutEnd : Waits(told)

\* So is a migration's: the handler waits for the one there is, or is to be told.
MigrationComing ==
  \/ migration.state # "none" /\ handlers["migration"][migration.version] > 0
  \/ \E told \in MigrationEnd : Waits(told)

\* Of a child the execution has started the exit is recorded or the result is to
\* come, whatever fails, is cancelled or terminated, and however often it is started.
ResultsAreOwed ==
  open =>
    /\ started["rollout"] > 0 /\ db.rollout = "none" => RolloutComing
    /\ started["migration"] > 0 /\ db.migration = "none" => MigrationComing

\* A version's rollout runs, has ended, which a handler is about to be told, or
\* has succeeded.
RolledOut ==
  \/ rollout.running /\ rollout.version # None
  \/ \E told \in RolloutEnd, v \in Version0 :
       handlers[told][v] > 0 /\ (told = "rollout ok" \/ v # None)
  \/ db.rollout = "ok"

\* What the deployment waits for is to come: its cleanup, if it does not migrate,
\* or else the migration that the rollout of a version has asked for by itself.
CloseIsComing ==
  open /\ deploys <= 1 /\ ~refused =>
    IF db.config = "nonMigratory"
    THEN db.rollout # "none" => Waits("start cleanup")
    ELSE RolledOut /\ db.migration = "none" =>
           Waits("start migration") \/ MigrationComing

RolloutOwed ==
  open /\ started["rollout"] # 0 /\ db.rollout = "none" => RolloutComing

MigrationOwed ==
  open /\ started["migration"] # 0 /\ db.migration = "none" =>
    MigrationAwaited \/ \E told \in MigrationEnd : Waits(told)

MigrationAsked ==
  open /\ deploys <= 1 /\ ~refused /\ RolledOut /\ db.config # "nonMigratory" =>
    \/ started["migration"] # 0
    \/ \E v \in Version0 : handlers["start migration"][v] # 0

LEMMA KeepsWaits ==
  ASSUME NEW a, Keeps(a), Waits(a)
  PROVE  Waits(a)'
BY DEF Keeps, Waits

LEMMA RolloutOwedStep ==
  ASSUME RolloutOwed, Effect
  PROVE  RolloutOwed'
<1>k. ASSUME UNCHANGED started \/ started'["rollout"] = started["rollout"],
             rollout' = rollout, open' => open, db'.rollout = db.rollout,
             \A told \in RolloutEnd : Keeps(told)
      PROVE  RolloutOwed'
  BY <1>k, KeepsWaits DEF RolloutOwed, RolloutComing
<1>1. CASE Quiet
  BY <1>1, <1>k, WatchedKinds DEF Quiet, ExitsKept
<1>2. CASE Restarts
  BY <1>2 DEF Restarts, NoneStarted, Children, RolloutOwed
<1>3. CASE Ends
  BY <1>3 DEF Ends, RolloutOwed
<1>4. CASE RolloutBegins
  BY <1>4 DEF RolloutBegins, RolloutOwed, RolloutComing
<1>5. ASSUME NEW told \in RolloutEnd, RolloutIsOver(told) PROVE RolloutOwed'
  BY <1>5 DEF RolloutIsOver, RolloutOwed, RolloutComing, Waits
<1>6. ASSUME NEW v \in Version0, MigrationBegins(v) PROVE RolloutOwed'
  BY <1>6, <1>k, WatchedKinds DEF MigrationBegins, ExitsKept
<1>7. ASSUME NEW told \in MigrationEnd, MigrationIsOver(told) PROVE RolloutOwed'
  BY <1>7, <1>k, WatchedKinds DEF MigrationIsOver, ExitsKept
<1>8. ASSUME NEW told \in RolloutEnd, NEW v \in Version0, RolloutHeard(told, v)
      PROVE  RolloutOwed'
  BY <1>8 DEF RolloutHeard, RolloutOwed
<1>9. ASSUME NEW told \in MigrationEnd, NEW v \in Version0, MigrationHeard(told, v)
      PROVE  RolloutOwed'
  BY <1>9, <1>k, WatchedKinds DEF MigrationHeard
<1>10. CASE CleanupIsRefused
  BY <1>10, <1>k, WatchedKinds DEF CleanupIsRefused, ExitsKept
<1> QED
  BY <1>1, <1>2, <1>3, <1>4, <1>5, <1>6, <1>7, <1>8, <1>9, <1>10 DEF Effect

LEMMA MigrationOwedStep ==
  ASSUME TypeInv, MigrationOwed, Effect
  PROVE  MigrationOwed'
<1>k. ASSUME UNCHANGED started \/ started'["migration"] = started["migration"],
             open' => open, db'.migration = db.migration,
             Keeps("migration"), \A told \in MigrationEnd : Keeps(told)
      PROVE  MigrationOwed'
  <2>1. MigrationAwaited => MigrationAwaited'
    BY <1>k DEF MigrationAwaited, Keeps
  <2> QED BY <1>k, <2>1, KeepsWaits DEF MigrationOwed
<1>1. CASE Quiet
  BY <1>1, <1>k, WatchedKinds DEF Quiet, ExitsKept
<1>2. CASE Restarts
  BY <1>2 DEF Restarts, NoneStarted, Children, MigrationOwed
<1>3. CASE Ends
  BY <1>3 DEF Ends, MigrationOwed
<1>4. CASE RolloutBegins
  BY <1>4, <1>k, WatchedKinds DEF RolloutBegins, ExitsKept
<1>5. ASSUME NEW told \in RolloutEnd, RolloutIsOver(told) PROVE MigrationOwed'
  BY <1>5, <1>k, WatchedKinds DEF RolloutIsOver, ExitsKept
<1>6. ASSUME NEW v \in Version0, MigrationBegins(v) PROVE MigrationOwed'
  <2> DEFINE n == handlers["migration"][v]
  <2>1. n \in Nat /\ handlers'["migration"][v] = n + 1
    BY <1>6 DEF MigrationBegins, TypeInv, HandlersOK, Counts, Awaits
  <2> HIDE DEF n
  <2>2. n + 1 # 0
    BY <2>1
  <2>3. handlers'["migration"][v] # 0
    BY <2>1, <2>2
  <2> QED BY <2>3 DEF MigrationAwaited, MigrationOwed
<1>7. ASSUME NEW told \in MigrationEnd, MigrationIsOver(told) PROVE MigrationOwed'
  <2>1. migration.version \in Version0
    BY DEF TypeInv, RestOK
  <2>2. CASE Keeps(told) /\ Keeps("migration")
    BY <1>7, <1>k, <2>2, WatchedKinds DEF MigrationIsOver, ExitsKept
  <2>3. CASE handlers'[told][migration.version] > 0
    BY <2>1, <2>3 DEF MigrationOwed, Waits
  <2> QED BY <1>7, <2>2, <2>3 DEF MigrationIsOver
<1>8. ASSUME NEW told \in RolloutEnd, NEW v \in Version0, RolloutHeard(told, v)
      PROVE  MigrationOwed'
  BY <1>8, <1>k, WatchedKinds DEF RolloutHeard
<1>9. ASSUME NEW told \in MigrationEnd, NEW v \in Version0, MigrationHeard(told, v)
      PROVE  MigrationOwed'
  BY <1>9 DEF MigrationHeard, MigrationOwed
<1>10. CASE CleanupIsRefused
  BY <1>10, <1>k, WatchedKinds DEF CleanupIsRefused, ExitsKept
<1> QED
  BY <1>1, <1>2, <1>3, <1>4, <1>5, <1>6, <1>7, <1>8, <1>9, <1>10 DEF Effect

(* The one deployment reads the flags and takes its own before a rollout of *)
(* a version can be asked for.                                             *)

Reads(u) == handlers["flags"][u] + handlers["apply"][u]

ReadsOnce ==
  \A u \in Versions : Reads(u) <= 1 /\ (Reads(u) # 0 => db.to = None)

AsksBetween ==
  \A u \in Versions :
    handlers["start rollout"][u] # 0 => db.from # None /\ db.to # None

Staged == open /\ deploys <= 1 => ReadsOnce /\ AsksBetween

NoMore(b) == \A w \in Version0 : handlers'[b][w] <= handlers[b][w]

NewlyAsked ==
  \A w \in Version0 : handlers'["start rollout"][w] # 0 =>
    handlers["start rollout"][w] # 0 \/ (db.from # None /\ w = db.to)

SameStage ==
  /\ NoMore("flags") /\ NoMore("apply") /\ NewlyAsked
  /\ db'.from = db.from /\ db'.to = db.to

LEMMA StageAwaits ==
  /\ "flags" \in Awaits /\ "apply" \in Awaits /\ "start rollout" \in Awaits
  /\ \A b \in {"flags", "apply"} :
       b \notin {"simulate", "start rollout", "traffic", "start migration",
                 "rollout", "migration", "start cleanup"} \cup RolloutEnd \cup MigrationEnd
  /\ "start rollout" \notin {"simulate", "traffic", "start migration", "rollout",
                             "migration", "start cleanup"} \cup RolloutEnd \cup MigrationEnd
BY DEF Awaits, RolloutEnd, MigrationEnd

LEMMA KeepsNoMore ==
  ASSUME handlers \in Counts, NEW b \in Awaits, Keeps(b)
  PROVE  NoMore(b)
<1> SUFFICES ASSUME NEW w \in Version0 PROVE handlers'[b][w] <= handlers[b][w]
  BY DEF NoMore
<1> DEFINE n == handlers[b][w]
<1>1. n \in Nat /\ handlers'[b][w] = n
  BY DEF Counts, Keeps
<1> HIDE DEF n
<1>2. n <= n
  BY <1>1
<1> QED BY <1>1, <1>2 DEF n

LEMMA DropsNoMore ==
  ASSUME handlers \in Counts, NEW a, NEW v, Drops(a, v), NEW b \in Awaits
  PROVE  NoMore(b)
<1> SUFFICES ASSUME NEW w \in Version0 PROVE handlers'[b][w] <= handlers[b][w]
  BY DEF NoMore
<1> DEFINE n == handlers[b][w]
<1>1. n \in Nat /\ (handlers'[b][w] = n - 1 \/ handlers'[b][w] = n)
  BY DEF Counts, Drops
<1> HIDE DEF n
<1>2. n - 1 <= n /\ n <= n
  BY <1>1
<1> QED BY <1>1, <1>2 DEF n

LEMMA MovesNoMore ==
  ASSUME handlers \in Counts, NEW a, NEW v, NEW c, NEW u, Moves(a, v, c, u),
         NEW b \in Awaits, b # c
  PROVE  NoMore(b)
<1> SUFFICES ASSUME NEW w \in Version0 PROVE handlers'[b][w] <= handlers[b][w]
  BY DEF NoMore
<1> DEFINE n == handlers[b][w]
<1>1. n \in Nat /\ (handlers'[b][w] = n - 1 \/ handlers'[b][w] = n)
  BY DEF Counts, Moves
<1> HIDE DEF n
<1>2. n - 1 <= n /\ n <= n
  BY <1>1
<1> QED BY <1>1, <1>2 DEF n

LEMMA NoMoreNoneNew ==
  ASSUME handlers \in Counts, handlers' \in Counts, NEW b \in Awaits, NoMore(b),
         NEW w \in Version0, handlers'[b][w] # 0
  PROVE  handlers[b][w] # 0
<1> DEFINE n == handlers[b][w]
           m == handlers'[b][w]
<1>1. n \in Nat /\ m \in Nat /\ m <= n /\ m # 0
  BY DEF Counts, NoMore
<1> HIDE DEF n, m
<1>2. n # 0
  BY <1>1
<1> QED BY <1>2 DEF n

LEMMA NoMoreStage ==
  ASSUME handlers \in Counts, handlers' \in Counts,
         \A b \in {"flags", "apply", "start rollout"} : NoMore(b),
         db'.from = db.from, db'.to = db.to
  PROVE  SameStage
BY StageAwaits, NoMoreNoneNew DEF SameStage, NewlyAsked

LEMMA KeepsStage ==
  ASSUME handlers \in Counts, handlers' \in Counts,
         \A b \in {"flags", "apply", "start rollout"} : Keeps(b),
         db'.from = db.from, db'.to = db.to
  PROVE  SameStage
BY StageAwaits, KeepsNoMore, NoMoreStage

\* A handler of rollout.start asks for its rollout between two versions.
LEMMA AsksStage ==
  ASSUME handlers \in Counts, UNCHANGED db,
         \A b \in {"flags", "apply", "start rollout"}, w \in Version0 : AsksRollout(b, w)
  PROVE  SameStage
<1>1. Keeps("flags") /\ Keeps("apply")
  BY DEF AsksRollout, Keeps
<1>2. NoMore("flags") /\ NoMore("apply")
  BY <1>1, StageAwaits, KeepsNoMore
<1>3. NewlyAsked
  BY DEF AsksRollout, NewlyAsked
<1> QED BY <1>2, <1>3 DEF SameStage

LEMMA SameStageStep ==
  ASSUME handlers \in Counts, handlers' \in Counts, Staged, SameStage,
         deploys' = deploys, open' => open
  PROVE  Staged'
<1> SUFFICES ASSUME open, deploys <= 1, NEW u \in Versions
             PROVE  /\ Reads(u)' <= 1 /\ (Reads(u)' # 0 => db'.to = None)
                    /\ handlers'["start rollout"][u] # 0 => db'.from # None /\ db'.to # None
  BY DEF Staged, ReadsOnce, AsksBetween
<1>u. u \in Version0 /\ u # None
  BY VersionAssumption DEF Version0
<1>1. Reads(u)' <= 1 /\ (Reads(u)' # 0 => Reads(u) # 0)
  <2>1. /\ handlers'["flags"][u] <= handlers["flags"][u]
        /\ handlers'["apply"][u] <= handlers["apply"][u]
    BY <1>u DEF SameStage, NoMore
  <2>2. /\ handlers["flags"][u] \in Nat /\ handlers'["flags"][u] \in Nat
        /\ handlers["apply"][u] \in Nat /\ handlers'["apply"][u] \in Nat
    BY <1>u, StageAwaits DEF Counts
  <2>3. Reads(u) <= 1
    BY DEF Staged, ReadsOnce
  <2> QED BY <2>1, <2>2, <2>3 DEF Reads
<1>2. Reads(u)' # 0 => db'.to = None
  BY <1>1 DEF Staged, ReadsOnce, SameStage
<1>3. ASSUME handlers'["start rollout"][u] # 0
      PROVE  db'.from # None /\ db'.to # None
  BY <1>3, <1>u DEF SameStage, NewlyAsked, Staged, AsksBetween
<1> QED BY <1>1, <1>2, <1>3

\* Only the deployment, its two activities and a new run do anything else.
LEMMA OthersSameStage ==
  ASSUME TypeInv, handlers' \in Counts, [Next]_vars, open', ~ContinueAsNew,
         \A v \in Versions : ~Deploy(v) /\ ~FlagsRead(v) /\ ~FlagApplied(v)
  PROVE  SameStage
<1>t. /\ handlers \in Counts /\ db \in Db /\ Versions \subseteq Version0
      /\ migration.version \in Version0 /\ rollout.version \in Version0
  BY DEF TypeInv, HandlersOK, RestOK, Version0
<1>d. UNCHANGED db => db'.from = db.from /\ db'.to = db.to
  OBVIOUS
<1>m. ASSUME NEW x, NEW v, NEW c \in Awaits, NEW u, Moves(x, v, c, u),
             c \notin {"flags", "apply", "start rollout"},
             db'.from = db.from, db'.to = db.to
      PROVE  SameStage
  BY <1>t, <1>m, StageAwaits, MovesNoMore, NoMoreStage
<1>r. ASSUME NEW x, NEW v, Drops(x, v), db'.from = db.from, db'.to = db.to
      PROVE  SameStage
  BY <1>t, <1>r, StageAwaits, DropsNoMore, NoMoreStage
<1>u. ASSUME UNCHANGED <<handlers, db>> PROVE SameStage
  BY <1>t, <1>u, KeepsStage DEF Keeps
<1>1. CASE SignalStartRollout
  BY <1>1, <1>t, StageAwaits, SignalStartRolloutAt, AsksStage DEF SignalStartRollout
<1>2. CASE SignalStartMigration
  <2>1. \A b \in {"flags", "apply", "start rollout"} : Keeps(b)
    BY <1>2, <1>t, StageAwaits, SignalStartMigrationAt DEF AsksMigration, Keeps
  <2> QED BY <1>2, <1>t, <2>1, KeepsStage DEF SignalStartMigration
<1>3. ASSUME NEW told \in RolloutEnd, RolloutEnds(told), rollout.running, UNCHANGED <<open, db>>
      PROVE  SameStage
  <2>1. Moves("rollout", rollout.version, told, rollout.version)
    BY <1>3, RolloutEndsKeeps
  <2>2. told \in Awaits /\ told \notin {"flags", "apply", "start rollout"}
    BY DEF RolloutEnd, Awaits
  <2> QED BY <1>3, <1>d, <1>m, <2>1, <2>2
<1>4. CASE CancelRollout
  BY <1>4, <1>3, <1>u DEF CancelRollout, RolloutEnd
<1>5. CASE RolloutSucceeds
  BY <1>5, <1>3 DEF RolloutSucceeds, RolloutEnd
<1>6. CASE RolloutFails
  BY <1>6, <1>3 DEF RolloutFails, RolloutEnd
<1>7. ASSUME NEW told \in MigrationEnd, MigrationEnds(told), UNCHANGED db
      PROVE  SameStage
  <2>1. told \in Awaits /\ told \notin {"flags", "apply", "start rollout"}
    BY DEF MigrationEnd, Awaits
  <2>2. \/ Moves("migration", migration.version, told, migration.version)
        \/ handlers' = handlers
    BY <1>7, <1>t, MigrationEndsAt
  <2> QED BY <1>7, <1>d, <1>m, <1>u, <2>1, <2>2
<1>8. CASE MigrationSucceeds \/ MigrationTerminated
  BY <1>8, <1>7 DEF MigrationSucceeds, MigrationTerminated, MigrationEnd
<1>9. CASE MigrationSticks
  BY <1>9, <1>u DEF MigrationSticks
<1>10. ASSUME NEW v \in Versions, Simulated(v) PROVE SameStage
  BY <1>10, <1>t, StageAwaits, SimulatedAt, AsksStage DEF Simulated
<1>11. ASSUME NEW v \in Versions, TrafficRouted(v) PROVE SameStage
  BY <1>11, <1>t, <1>d, <1>r, ActivityAt DEF TrafficRouted
<1>12. ASSUME NEW v \in Versions, ActivityFails(v) PROVE SameStage
  BY <1>12, <1>t, <1>d, <1>r, ActivityAt DEF ActivityFails
<1>13. ASSUME NEW v \in Versions, CleanupEnds(v) PROVE SameStage
  BY <1>13, <1>u DEF CleanupEnds
<1>14. ASSUME NEW v \in Version0, RolloutStarts(v) PROVE SameStage
  <2>1. db'.from = db.from /\ db'.to = db.to /\ handlers["start rollout"][v] > 0
    BY <1>14, <1>t DEF RolloutStarts, Db
  <2>2. Keeps("flags") /\ Keeps("apply")
    BY <1>14, <1>t, StageAwaits, RolloutStartsAt DEF AsksMigration, Keeps
  <2>3. NewlyAsked
    <3> SUFFICES ASSUME NEW w \in Version0, handlers'["start rollout"][w] # 0
                 PROVE  handlers["start rollout"][w] # 0
      BY DEF NewlyAsked
    <3>1. handlers["start rollout"][v] # 0
      BY <1>t, <2>1, StageAwaits, NotZero
    <3>2. w # v => handlers'["start rollout"][w] = handlers["start rollout"][w]
      BY <1>14, <1>t, RolloutStartsAt
    <3> QED BY <3>1, <3>2
  <2> QED BY <1>t, <2>1, <2>2, <2>3, StageAwaits, KeepsNoMore DEF SameStage
<1>15. ASSUME NEW v \in Version0,
              RolloutRefused(v) \/ MigrationRefused(v) \/ CleanupRefused(v)
       PROVE  SameStage
  <2>1. UNCHANGED db
    BY <1>15 DEF RolloutRefused, MigrationRefused, CleanupRefused
  <2> QED BY <1>15, <1>t, <1>d, <1>r, <2>1, ChildAt
<1>16. ASSUME NEW v \in Version0, MigrationStarts(v) PROVE SameStage
  <2>1. UNCHANGED db /\ Moves("start migration", v, "migration", v)
    BY <1>16, <1>t, ChildAt DEF MigrationStarts
  <2>2. "migration" \in Awaits
    BY DEF Awaits
  <2> QED BY <1>d, <1>m, <2>1, <2>2
<1>17. ASSUME NEW v \in Version0, CleanupStarts(v) PROVE SameStage
  BY <1>17 DEF CleanupStarts, Close
<1>18. ASSUME NEW told \in RolloutEnd, NEW v \in Version0, RolloutDone(told, v)
       PROVE  SameStage
  <2>1. db'.from = db.from /\ db'.to = db.to
    BY <1>18, <1>t DEF RolloutDone, Db
  <2>2. \/ Moves(told, v, "start cleanup", db.from)
        \/ Drops(told, v)
    BY <1>18, <1>t, RolloutDoneAt DEF Closes
  <2>3. "start cleanup" \in Awaits
    BY DEF Awaits
  <2> QED BY <1>m, <1>r, <2>1, <2>2, <2>3
<1>19. ASSUME NEW told \in MigrationEnd, NEW v \in Version0, MigrationDone(told, v)
       PROVE  SameStage
  <2>1. db'.from = db.from /\ db'.to = db.to
    BY <1>19, <1>t DEF MigrationDone, Db
  <2>2. Drops(told, v)
    BY <1>19, <1>t, MigrationDoneAt DEF Closes
  <2> QED BY <1>r, <2>1, <2>2
<1>20. CASE UNCHANGED vars
  BY <1>20, <1>u DEF vars
<1> QED
  BY <1>1, <1>2, <1>4, <1>5, <1>6, <1>8, <1>9, <1>10, <1>11, <1>12, <1>13, <1>14,
     <1>15, <1>16, <1>17, <1>18, <1>19, <1>20
     DEF Next, Client, Faults, Activity, Child

\* The first deployment of an execution finds it idle.
LEMMA DeployStaged ==
  ASSUME TypeInv, EndInv, AloneInv, NEW v \in Versions, Deploy(v), deploys' <= 1
  PROVE  Staged'
<1>t. handlers \in Counts /\ v \in Version0 /\ v # None /\ deploys \in Nat
  BY VersionAssumption DEF TypeInv, HandlersOK, RestOK, Version0
<1>1. /\ \A b \in Awaits, w \in Version0 :
           handlers'[b][w] = IF b = "flags" /\ w = v THEN 1 ELSE 0
      /\ db'.to = None
  <2>1. CASE open
    <3>1. deploys = 0 /\ db' = db
      BY <1>t, <2>1 DEF Deploy
    <3>2. Blank /\ Adds("flags", v)
      BY <1>t, <2>1, <3>1, DeployAt DEF AloneInv
    <3>3. 0 + 1 = 1
      OBVIOUS
    <3> QED BY <3>1, <3>2, <3>3 DEF Adds, Blank
  <2>2. CASE ~open
    <3>1. EmptiesBut("flags", v) /\ db' = EmptyDb
      BY <1>t, <2>2, DeployAt DEF Deploy
    <3> QED BY <3>1 DEF EmptiesBut, EmptyDb
  <2> QED BY <2>1, <2>2
<1>2. ASSUME NEW u \in Versions PROVE Reads(u)' <= 1
  <2>1. u \in Version0
    BY DEF Version0
  <2>2. handlers'["apply"][u] = 0 /\ handlers'["flags"][u] \in {0, 1}
    BY <1>1, <2>1, StageAwaits
  <2> QED BY <2>2 DEF Reads
<1>3. AsksBetween'
  <2>1. \A u \in Versions : handlers'["start rollout"][u] = 0
    BY <1>1, StageAwaits DEF Version0
  <2> QED BY <2>1 DEF AsksBetween
<1> QED BY <1>1, <1>2, <1>3 DEF Staged, ReadsOnce

\* While a deployment reads the flags no rollout of a version is asked for.
LEMMA ReadingAsksNothing ==
  ASSUME handlers \in Counts, ReadsOnce, AsksBetween, NEW v \in Versions,
         handlers["flags"][v] > 0 \/ handlers["apply"][v] > 0
  PROVE  /\ Reads(v) = 1
         /\ \A u \in Versions : handlers["start rollout"][u] = 0
<1>1. /\ handlers["flags"][v] \in Nat /\ handlers["apply"][v] \in Nat
      /\ Reads(v) <= 1
  BY StageAwaits DEF Counts, Version0, ReadsOnce
<1>2. Reads(v) = 1
  BY <1>1 DEF Reads
<1>3. db.to = None
  <2>1. Reads(v) # 0
    BY <1>2
  <2> QED BY <2>1 DEF ReadsOnce
<1> QED BY <1>2, <1>3 DEF AsksBetween

LEMMA StagedStep ==
  ASSUME TypeInv, TypeInv', EndInv, AloneInv, Staged, [Next]_vars
  PROVE  Staged'
<1> SUFFICES ASSUME open', deploys' <= 1 PROVE Staged'
  BY DEF Staged
<1>t. /\ handlers \in Counts /\ handlers' \in Counts /\ db \in Db /\ deploys \in Nat
      /\ Versions \subseteq Version0 /\ TypeInv
  BY DEF TypeInv, HandlersOK, RestOK, Version0
<1>1. ASSUME NEW v \in Versions, Deploy(v) PROVE Staged'
  BY <1>1, DeployStaged
<1>2. CASE ContinueAsNew
  <2>1. Empties
    BY <1>2, EmptiesAt DEF ContinueAsNew
  <2>2. \A u \in Versions : handlers'["flags"][u] = 0 /\ handlers'["apply"][u] = 0
    BY <1>t, <2>1, StageAwaits DEF Empties
  <2>3. \A u \in Versions : handlers'["start rollout"][u] = 0
    BY <1>t, <2>1, StageAwaits DEF Empties
  <2>4. \A u \in Versions : Reads(u)' <= 1 /\ Reads(u)' = 0
    BY <2>2 DEF Reads
  <2> QED BY <2>3, <2>4 DEF Staged, ReadsOnce, AsksBetween
<1>3. ASSUME NEW v \in Versions, FlagsRead(v) PROVE Staged'
  <2>1. /\ Moves("flags", v, "apply", v) /\ handlers["flags"][v] > 0 /\ v \in Version0
        /\ deploys' = deploys /\ open' = open /\ db'.to = db.to
    BY <1>t, <1>3, ActivityAt DEF FlagsRead, history, Db
  <2>2. ReadsOnce /\ AsksBetween
    BY <2>1 DEF Staged
  <2>3. \A u \in Versions : handlers["start rollout"][u] = 0
    BY <1>t, <2>1, <2>2, ReadingAsksNothing
  <2>k. Keeps("start rollout")
    BY <2>1, MovesKeepsRest, StageAwaits
  <2>4. \A u \in Versions : handlers'["start rollout"][u] = 0
    BY <1>t, <2>3, <2>k DEF Keeps
  <2>5. ASSUME NEW u \in Versions PROVE Reads(u)' = Reads(u)
    <3>1. /\ handlers["flags"][u] \in Nat /\ handlers["apply"][u] \in Nat
      BY <1>t, StageAwaits DEF Counts
    <3>2. CASE u = v
      <4>1. /\ handlers'["flags"][u] = handlers["flags"][u] - 1
            /\ handlers'["apply"][u] = handlers["apply"][u] + 1
        BY <1>t, <2>1, <3>2, StageAwaits DEF Moves
      <4> QED BY <3>1, <4>1 DEF Reads
    <3>3. CASE u # v
      BY <1>t, <2>1, <3>3, StageAwaits DEF Moves, Reads
    <3> QED BY <3>2, <3>3
  <2>6. ReadsOnce'
    BY <2>1, <2>2, <2>5 DEF ReadsOnce
  <2> QED BY <2>4, <2>6 DEF Staged, AsksBetween
<1>4. ASSUME NEW v \in Versions, FlagApplied(v) PROVE Staged'
  <2>1. /\ Moves("apply", v, "simulate", v) /\ handlers["apply"][v] > 0 /\ v \in Version0
        /\ deploys' = deploys /\ open' = open
    BY <1>t, <1>4, ActivityAt DEF FlagApplied, history
  <2>2. ReadsOnce /\ AsksBetween
    BY <2>1 DEF Staged
  <2>3. Reads(v) = 1
    BY <1>t, <2>1, <2>2, ReadingAsksNothing
  <2>4. \A u \in Versions : handlers["start rollout"][u] = 0
    BY <1>t, <2>1, <2>2, ReadingAsksNothing
  <2>k. Keeps("start rollout")
    BY <2>1, MovesKeepsRest, StageAwaits
  <2>5. \A u \in Versions : handlers'["start rollout"][u] = 0
    BY <1>t, <2>4, <2>k DEF Keeps
  <2>6. deploys = 1
    <3>1. deploys # 0
      <4>1. handlers["apply"][v] # 0
        BY <1>t, <2>1, StageAwaits, NotZero
      <4> QED BY <2>1, <4>1, StageAwaits DEF AloneInv, Blank
    <3>2. deploys <= 1
      BY <2>1
    <3> QED BY <1>t, <3>1, <3>2
  <2>7. PICK o \in Versions : Alone(o)
    BY <2>1, <2>6 DEF AloneInv
  <2>8. \A b \in {"flags", "apply"}, w \in Version0 : handlers[b][w] > 0 => w = o
    BY <2>7, StageAwaits DEF Alone, AllMayAwait, MayAwait
  <2>9. ASSUME NEW u \in Versions PROVE Reads(u)' = 0
    <3>1. /\ handlers["flags"][u] \in Nat /\ handlers["apply"][u] \in Nat
          /\ handlers["flags"][v] \in Nat /\ handlers["apply"][v] \in Nat
      BY <1>t, StageAwaits DEF Counts
    <3>2. handlers'["flags"][u] = handlers["flags"][u]
      BY <1>t, <2>1, StageAwaits DEF Moves
    <3>3. CASE u = v
      <4>1. handlers'["apply"][v] = handlers["apply"][v] - 1
        BY <2>1, StageAwaits DEF Moves
      <4>2. handlers'["flags"][v] + handlers'["apply"][v] = 0
        BY <2>3, <3>1, <3>2, <3>3, <4>1 DEF Reads
      <4> QED BY <3>3, <4>2 DEF Reads
    <3>4. CASE u # v
      <4>1. handlers'["apply"][u] = handlers["apply"][u]
        BY <1>t, <2>1, <3>4, StageAwaits DEF Moves
      <4>2. ~(handlers["flags"][u] > 0) /\ ~(handlers["apply"][u] > 0)
        BY <1>t, <2>1, <2>8, <3>4
      <4> QED BY <3>1, <3>2, <4>1, <4>2 DEF Reads
    <3> QED BY <3>3, <3>4
  <2>10. \A u \in Versions : Reads(u)' <= 1
    BY <2>9
  <2> QED BY <2>5, <2>9, <2>10 DEF Staged, ReadsOnce, AsksBetween
<1>5. CASE /\ ~ContinueAsNew
           /\ \A v \in Versions : ~Deploy(v) /\ ~FlagsRead(v) /\ ~FlagApplied(v)
  <2>1. SameStage
    BY <1>t, <1>5, OthersSameStage
  <2>2. deploys' = deploys /\ (open' => open)
    BY <1>5, OtherSteps
  <2> QED BY <1>t, <2>1, <2>2, SameStageStep
<1> QED BY <1>1, <1>2, <1>3, <1>4, <1>5

(* It says once whether it migrates.                                       *)

SaysOnce ==
  open /\ deploys <= 1 =>
    /\ ~mixed
    /\ \A u \in Versions : handlers["flags"][u] # 0 => db.config = "none"

LEMMA OthersKeepConfig ==
  ASSUME TypeInv, [Next]_vars, ~ContinueAsNew,
         \A v \in Versions : ~Deploy(v) /\ ~FlagsRead(v)
  PROVE  UNCHANGED mixed /\ db'.config = db.config
<1>t. db \in Db
  BY DEF TypeInv, RestOK
<1>1. SignalStartRollout \/ SignalStartMigration \/ CancelRollout
        => UNCHANGED <<mixed, db>>
  BY DEF SignalStartRollout, SignalStartMigration, CancelRollout, history
<1>2. ASSUME NEW v \in Versions, FlagApplied(v)
      PROVE  UNCHANGED mixed /\ db'.config = db.config
  BY <1>t, <1>2 DEF FlagApplied, history, Db
<1>3. ASSUME NEW v \in Versions,
             Simulated(v) \/ TrafficRouted(v) \/ CleanupEnds(v) \/ ActivityFails(v)
      PROVE  UNCHANGED <<mixed, db>>
  BY <1>3 DEF Simulated, TrafficRouted, CleanupEnds, ActivityFails, history
<1>4. ASSUME NEW v \in Version0,
             \/ RolloutStarts(v) \/ RolloutRefused(v) \/ MigrationStarts(v)
             \/ MigrationRefused(v) \/ CleanupStarts(v) \/ CleanupRefused(v)
      PROVE  UNCHANGED <<mixed, db>>
  BY <1>4 DEF RolloutStarts, RolloutRefused, MigrationStarts, MigrationRefused,
              CleanupStarts, CleanupRefused, history
<1>5. ASSUME NEW told \in RolloutEnd, NEW v \in Version0, RolloutDone(told, v)
      PROVE  UNCHANGED mixed /\ db'.config = db.config
  BY <1>t, <1>5 DEF RolloutDone, history, Db
<1>6. ASSUME NEW told \in MigrationEnd, NEW v \in Version0, MigrationDone(told, v)
      PROVE  UNCHANGED mixed /\ db'.config = db.config
  BY <1>t, <1>6 DEF MigrationDone, history, Db
<1>7. RolloutSucceeds \/ MigrationSucceeds => UNCHANGED <<mixed, db>>
  BY DEF RolloutSucceeds, MigrationSucceeds, history
<1>8. RolloutFails \/ MigrationSticks \/ MigrationTerminated
        => UNCHANGED <<mixed, db>>
  <2>1. RolloutFails => UNCHANGED <<mixed, db>>
    BY DEF RolloutFails, history
  <2>2. MigrationSticks \/ MigrationTerminated => UNCHANGED <<mixed, db>>
    BY DEF MigrationSticks, MigrationTerminated, history
  <2> QED BY <2>1, <2>2
<1>9. UNCHANGED vars => UNCHANGED <<mixed, db>>
  BY DEF vars, history
<1> QED
  BY <1>1, <1>2, <1>3, <1>4, <1>5, <1>6, <1>7, <1>8, <1>9
     DEF Next, Client, Faults, Activity, Child

LEMMA SaysOnceStep ==
  ASSUME TypeInv, TypeInv', EndInv, AloneInv, Staged, SaysOnce, [Next]_vars
  PROVE  SaysOnce'
<1> SUFFICES ASSUME open', deploys' <= 1
             PROVE  /\ ~mixed'
                    /\ \A u \in Versions :
                         handlers'["flags"][u] # 0 => db'.config = "none"
  BY DEF SaysOnce
<1>t. /\ handlers \in Counts /\ handlers' \in Counts /\ db \in Db
      /\ deploys \in Nat /\ Versions \subseteq Version0
  BY DEF TypeInv, HandlersOK, RestOK, Version0
<1> DEFINE Goal == /\ ~mixed'
                   /\ \A u \in Versions :
                        handlers'["flags"][u] # 0 => db'.config = "none"
<1>1. ASSUME NEW v \in Versions, Deploy(v) PROVE Goal
  <2>1. CASE open
    <3>1. deploys = 0 /\ db' = db /\ mixed' = mixed
      BY <1>t, <1>1, <2>1 DEF Deploy
    <3>2. ~mixed
      BY <2>1, <3>1 DEF SaysOnce
    <3>3. db.config = "none"
      BY <2>1, <3>1 DEF AloneInv, Blank
    <3> QED BY <3>1, <3>2, <3>3
  <2>2. CASE ~open
    BY <1>1, <2>2 DEF Deploy, EmptyDb
  <2> QED BY <2>1, <2>2
<1>2. CASE ContinueAsNew
  BY <1>2 DEF ContinueAsNew, EmptyDb
<1>3. ASSUME NEW v \in Versions, FlagsRead(v) PROVE Goal
  <2>1. /\ Moves("flags", v, "apply", v) /\ handlers["flags"][v] > 0 /\ v \in Version0
        /\ deploys' = deploys /\ open' = open
    BY <1>t, <1>3, ActivityAt DEF FlagsRead
  <2>2. handlers["flags"][v] # 0
    BY <1>t, <2>1, StageAwaits, NotZero
  <2>3. ~mixed /\ db.config = "none"
    BY <2>1, <2>2 DEF SaysOnce
  <2>4. ~mixed'
    BY <1>3, <2>3 DEF FlagsRead
  <2>5. ReadsOnce /\ AsksBetween
    BY <2>1 DEF Staged
  <2>6. Reads(v) = 1
    BY <1>t, <2>1, <2>5, ReadingAsksNothing
  <2>7. deploys = 1
    <3>1. deploys # 0
      BY <2>1, <2>2, StageAwaits DEF AloneInv, Blank
    <3> QED BY <1>t, <2>1, <3>1
  <2>8. PICK o \in Versions : Alone(o)
    BY <2>1, <2>7 DEF AloneInv
  <2>9. \A w \in Version0 : handlers["flags"][w] > 0 => w = o
    BY <2>8, StageAwaits DEF Alone, AllMayAwait, MayAwait
  <2>10. ASSUME NEW u \in Versions PROVE handlers'["flags"][u] = 0
    <3>1. /\ handlers["flags"][u] \in Nat /\ handlers["flags"][v] \in Nat
          /\ handlers["apply"][v] \in Nat
      BY <1>t, StageAwaits DEF Counts
    <3>2. CASE u = v
      <4>1. handlers'["flags"][v] = handlers["flags"][v] - 1
        BY <2>1, StageAwaits DEF Moves
      <4>2. handlers["flags"][v] = 1
        BY <2>1, <2>6, <3>1 DEF Reads
      <4> QED BY <3>2, <4>1, <4>2
    <3>3. CASE u # v
      <4>1. handlers'["flags"][u] = handlers["flags"][u]
        BY <1>t, <2>1, <3>3, StageAwaits DEF Moves
      <4>2. ~(handlers["flags"][u] > 0)
        BY <1>t, <2>1, <2>9, <3>3
      <4> QED BY <3>1, <4>1, <4>2
    <3> QED BY <3>2, <3>3
  <2> QED BY <2>4, <2>10
<1>4. CASE ~ContinueAsNew /\ \A v \in Versions : ~Deploy(v) /\ ~FlagsRead(v)
  <2>1. UNCHANGED mixed /\ db'.config = db.config
    BY <1>4, OthersKeepConfig
  <2>2. deploys' = deploys /\ (open' => open)
    BY <1>4, OtherSteps
  <2>3. ~mixed /\ \A u \in Versions : handlers["flags"][u] # 0 => db.config = "none"
    BY <2>2 DEF SaysOnce
  <2>4. NoMore("flags")
    <3>1. CASE \E v \in Versions : FlagApplied(v)
      BY <1>t, <3>1, ActivityAt, MovesNoMore, StageAwaits
    <3>2. CASE \A v \in Versions : ~FlagApplied(v)
      <4>1. SameStage
        BY <1>4, <1>t, <3>2, OthersSameStage
      <4> QED BY <4>1 DEF SameStage
    <3> QED BY <3>1, <3>2
  <2>5. ASSUME NEW u \in Versions, handlers'["flags"][u] # 0
        PROVE  handlers["flags"][u] # 0
    BY <1>t, <2>4, <2>5, NoMoreNoneNew, StageAwaits
  <2> QED BY <2>1, <2>3, <2>5
<1> QED BY <1>1, <1>2, <1>3, <1>4

-----------------------------------------------------------------------------
(* The rollout of a version asks for the migration of the version before.  *)

LEMMA RolloutAsksMigration ==
  ASSUME TypeInv, AsksBetween, NEW v \in Versions, RolloutStarts(v),
         db.config = "migratory"
  PROVE  \E w \in Version0 : handlers'["start migration"][w] # 0
<1> DEFINE x == "start rollout"
           c == "rollout"
           m == "start migration"
           hs == Spawn(Drop(handlers, x, v), c, v)
<1>1. /\ handlers \in Counts /\ v \in Version0 /\ db.from \in Version0
      /\ x \in Awaits /\ c \in Awaits /\ m \in Awaits /\ x # c
      /\ handlers[x][v] > 0
      /\ handlers' = HandleMigration(hs)
  <2>1. handlers \in Counts /\ v \in Version0 /\ db.from \in Version0
    BY DEF TypeInv, HandlersOK, RestOK, Version0, Db
  <2>2. x \in Awaits /\ c \in Awaits /\ m \in Awaits /\ x # c
    BY DEF Awaits
  <2>3. handlers[x][v] > 0 /\ handlers' = HandleMigration(hs)
    BY DEF RolloutStarts
  <2> QED BY <2>1, <2>2, <2>3
<1>2. db.from # None /\ db.to # None
  <2>1. handlers[x][v] # 0
    BY <1>1, NotZero
  <2> QED BY <2>1 DEF AsksBetween
<1>3. handlers' = Spawn(hs, m, db.from)
  BY <1>1, <1>2 DEF HandleMigration
<1> HIDE DEF x, c, m
<1>4. hs \in Counts
  BY <1>1, MoveAt
<1> HIDE DEF hs
<1> DEFINE n == hs[m][db.from]
<1>5. n \in Nat /\ handlers'[m][db.from] = n + 1
  BY <1>1, <1>3, <1>4, SpawnAt DEF Counts
<1> HIDE DEF n
<1>6. handlers'[m][db.from] # 0
  BY <1>5
<1> QED BY <1>1, <1>6 DEF m

LEMMA DeploysGrow ==
  ASSUME TypeInv, [Next]_vars, open', deploys' <= 1
  PROVE  deploys <= 1 \/ Restarts
<1>t. deploys \in Nat
  BY DEF TypeInv, RestOK
<1>1. ASSUME NEW v \in Versions, Deploy(v), open PROVE deploys <= 1
  <2>1. deploys' = deploys + 1
    BY <1>1 DEF Deploy
  <2> QED BY <1>t, <2>1
<1>2. ASSUME NEW v \in Versions, Deploy(v), ~open PROVE Restarts
  BY <1>2, DeployRestarts
<1>3. ContinueAsNew => Restarts
  BY ContinueRestarts
<1> QED BY <1>1, <1>2, <1>3, OtherSteps

LEMMA UnsetNotRolledOut ==
  ASSUME TypeInv, ConfigFirst, RolledOut
  PROVE  db.config # "none"
<1> SUFFICES ASSUME db.config = "none" PROVE FALSE
  OBVIOUS
<1>1. /\ db.rollout = "none"
      /\ \A b \in Versionless, w \in Version0 : ~(handlers[b][w] > 0)
  BY DEF ConfigFirst
<1>2. rollout.running => handlers["rollout"][rollout.version] > 0
  BY DEF TypeInv, Attended
<1>3. rollout.version \in Version0
  BY DEF TypeInv, RestOK
<1> QED BY <1>1, <1>2, <1>3, VersionlessAwaits DEF RolledOut

\* A version's rollout is not forgotten, and none comes of itself.
LEMMA RolledOutWas ==
  ASSUME Effect, ~Restarts, ~Ends, RolledOut'
  PROVE  RolledOut \/ (RolloutBegins /\ rollout'.version # None)
<1>k. ASSUME rollout'.running => rollout' = rollout, \A told \in RolloutEnd : Keeps(told),
             db'.rollout = db.rollout
      PROVE  RolledOut
  BY <1>k DEF RolledOut, Keeps
<1>1. CASE Quiet
  BY <1>1, <1>k, WatchedKinds DEF Quiet, ExitsKept
<1>4. CASE RolloutBegins
  <2>1. (\A told \in RolloutEnd : Keeps(told)) /\ db'.rollout = db.rollout
    BY <1>4, WatchedKinds DEF RolloutBegins, ExitsKept
  <2> QED BY <1>4, <2>1 DEF RolledOut, Keeps
<1>5. ASSUME NEW told \in RolloutEnd, RolloutIsOver(told) PROVE RolledOut
  <2>1. CASE db'.rollout = "ok"
    BY <1>5, <2>1 DEF RolloutIsOver, ExitsKept, RolledOut
  <2>2. ASSUME NEW x \in RolloutEnd, NEW v \in Version0, handlers'[x][v] > 0,
               x = "rollout ok" \/ v # None
        PROVE  RolledOut
    <3>1. CASE handlers[x][v] > 0
      BY <2>2, <3>1 DEF RolledOut
    <3>2. CASE ~(handlers[x][v] > 0)
      <4>1. x = told
        BY <1>5, <2>2, <3>2, WatchedKinds DEF RolloutIsOver, Keeps
      <4>2. v = rollout.version
        BY <1>5, <2>2, <3>2, <4>1 DEF RolloutIsOver
      <4> QED BY <1>5, <2>2, <4>1, <4>2 DEF RolloutIsOver, RolledOut
    <3> QED BY <3>1, <3>2
  <2> QED BY <1>5, <2>1, <2>2 DEF RolloutIsOver, RolledOut
<1>6. ASSUME NEW v \in Version0, MigrationBegins(v) PROVE RolledOut
  BY <1>6, <1>k, WatchedKinds DEF MigrationBegins, ExitsKept
<1>7. ASSUME NEW told \in MigrationEnd, MigrationIsOver(told) PROVE RolledOut
  BY <1>7, <1>k, WatchedKinds DEF MigrationIsOver, ExitsKept
<1>8. ASSUME NEW told \in RolloutEnd, NEW v \in Version0, RolloutHeard(told, v)
      PROVE  RolledOut
  <2>1. CASE rollout'.running /\ rollout'.version # None
    BY <1>8, <2>1 DEF RolloutHeard, RolledOut
  <2>2. CASE db'.rollout = "ok"
    BY <1>8, <2>2 DEF RolloutHeard, RolledOut
  <2>3. ASSUME NEW x \in RolloutEnd, NEW w \in Version0, handlers'[x][w] > 0,
               x = "rollout ok" \/ w # None
        PROVE  RolledOut
    <3>1. handlers[x][w] > 0
      BY <1>8, <2>3, WatchedKinds DEF RolloutHeard, Keeps
    <3> QED BY <2>3, <3>1 DEF RolledOut
  <2> QED BY <2>1, <2>2, <2>3 DEF RolledOut
<1>9. ASSUME NEW told \in MigrationEnd, NEW v \in Version0, MigrationHeard(told, v)
      PROVE  RolledOut
  BY <1>9, <1>k, WatchedKinds DEF MigrationHeard
<1>10. CASE CleanupIsRefused
  BY <1>10, <1>k, WatchedKinds DEF CleanupIsRefused, ExitsKept
<1> QED
  BY <1>1, <1>4, <1>5, <1>6, <1>7, <1>8, <1>9, <1>10 DEF Effect

LEMMA MigrationAskedStep ==
  ASSUME TypeInv, ConfigFirst, Staged, SaysOnce', MigrationAsked, [Next]_vars
  PROVE  MigrationAsked'
<1> SUFFICES ASSUME open', deploys' <= 1, ~refused', RolledOut',
                    db'.config # "nonMigratory"
             PROVE  \/ started'["migration"] # 0
                    \/ \E v \in Version0 : handlers'["start migration"][v] # 0
  BY DEF MigrationAsked
<1> DEFINE Goal == \/ started'["migration"] # 0
                   \/ \E v \in Version0 : handlers'["start migration"][v] # 0
<1>d. deploys <= 1 \/ Restarts
  BY DeploysGrow
<1>m. ~mixed'
  BY DEF SaysOnce
<1>11. Effect
  BY StepEffect
<1>2. CASE Restarts
  <2>1. \A told \in RolloutEnd, w \in Version0 : ~(handlers'[told][w] > 0)
    <3>1. \A told \in RolloutEnd, w \in Version0 : handlers'[told][w] = 0
      BY <1>2, WatchedKinds DEF Restarts, Cleared
    <3> QED BY <3>1
  <2>2. ~rollout'.running /\ db'.rollout = "none"
    BY <1>2 DEF Restarts, Cleared
  <2> QED BY <2>1, <2>2 DEF RolledOut
<1>3. CASE Ends
  BY <1>3 DEF Ends
<1>k. ASSUME open, UnaskedStays, refused => refused', RolledOut,
             started'["migration"] = started["migration"], deploys <= 1
      PROVE  Goal
  <2>1. db.config # "none" /\ db.config = db'.config
    BY <1>k, <1>m, UnsetNotRolledOut DEF UnaskedStays, ConfigStays
  <2> QED BY <1>k, <2>1 DEF MigrationAsked, UnaskedStays
<1>e. CASE ~Restarts /\ ~Ends /\ deploys <= 1
  <2>r. RolledOut \/ (RolloutBegins /\ rollout'.version # None)
    BY <1>e, <1>11, RolledOutWas
  <2>1. CASE Quiet
    BY <1>e, <1>k, <2>1, <2>r DEF Quiet, RolloutBegins
  <2>4. CASE RolloutBegins
    <3>1. PICK v \in Version0 : RolloutStarts(v)
      BY <2>4 DEF RolloutBegins
    <3>2. CASE v \in Versions
      <4>1. db' = db /\ open /\ handlers["start rollout"][v] > 0
        BY <2>4, <3>1 DEF RolloutBegins, RolloutStarts
      <4>t. handlers \in Counts
        BY DEF TypeInv, HandlersOK
      <4>0. handlers["start rollout"][v] # 0
        BY <4>1, <4>t, VersionlessAwaits, NotZero
      <4>2. db.config # "none"
        BY <3>1, <4>0, VersionlessAwaits DEF ConfigFirst
      <4>3. db.config = "migratory"
        BY <4>1, <4>2 DEF TypeInv, RestOK, Db, Kinds
      <4> QED BY <1>e, <3>1, <3>2, <4>1, <4>3, RolloutAsksMigration DEF Staged
    <3>3. CASE v \notin Versions
      <4>1. rollout'.version = None
        BY <3>1, <3>3 DEF RolloutStarts, Version0
      <4> QED BY <1>e, <1>k, <2>4, <2>r, <4>1 DEF RolloutBegins
    <3> QED BY <3>2, <3>3
  <2>5. ASSUME NEW told \in RolloutEnd, RolloutIsOver(told) PROVE Goal
    BY <1>e, <1>k, <2>5, <2>r DEF RolloutIsOver, RolloutBegins
  <2>6. ASSUME NEW v \in Version0, MigrationBegins(v) PROVE Goal
    <3>1. started["migration"] \in Nat /\ started'["migration"] = started["migration"] + 1
      BY <2>6 DEF MigrationBegins, TypeInv, RestOK, Children
    <3>2. started'["migration"] # 0
      BY <3>1
    <3> QED BY <3>2
  <2>7. ASSUME NEW told \in MigrationEnd, MigrationIsOver(told) PROVE Goal
    <3>1. open
      BY <2>7 DEF MigrationIsOver
    <3> QED BY <1>e, <1>k, <2>7, <2>r, <3>1 DEF MigrationIsOver, RolloutBegins
  <2>8. ASSUME NEW told \in RolloutEnd, NEW v \in Version0, RolloutHeard(told, v)
        PROVE  Goal
    BY <1>e, <1>k, <2>8, <2>r DEF RolloutHeard, RolloutBegins
  <2>9. ASSUME NEW told \in MigrationEnd, NEW v \in Version0, MigrationHeard(told, v)
        PROVE  Goal
    BY <1>e, <1>k, <2>9, <2>r DEF MigrationHeard, RolloutBegins
  <2>10. CASE CleanupIsRefused
    BY <2>10 DEF CleanupIsRefused
  <2> QED
    BY <1>e, <1>11, <2>1, <2>4, <2>5, <2>6, <2>7, <2>8, <2>9, <2>10 DEF Effect
<1> QED BY <1>2, <1>3, <1>d, <1>e

-----------------------------------------------------------------------------
OwedInv == RolloutOwed /\ MigrationOwed

LEMMA AloneAlways == Spec => []AloneInv
<1>1. Init => AloneInv
  BY DEF Init, AloneInv
<1> QED BY <1>1, AloneInvStep, TypeAlways, EndAlways, PTL DEF Spec

LEMMA OwedAlways == Spec => []OwedInv
<1>1. Init => OwedInv
  BY DEF Init, OwedInv, RolloutOwed, MigrationOwed
<1>2. TypeInv /\ OwedInv /\ [Next]_vars => OwedInv'
  BY StepEffect, RolloutOwedStep, MigrationOwedStep DEF OwedInv
<1> QED BY <1>1, <1>2, TypeAlways, PTL DEF Spec

LEMMA AskedAlways == Spec => [](MigrationAsked /\ SaysOnce)
<1>1. Init => Staged /\ SaysOnce /\ MigrationAsked
  BY DEF Init, Staged, SaysOnce, MigrationAsked
<1>2. TypeInv /\ TypeInv' /\ EndInv /\ AloneInv /\ Staged /\ [Next]_vars => Staged'
  BY StagedStep
<1>3. /\ TypeInv /\ TypeInv' /\ EndInv /\ AloneInv /\ Staged /\ SaysOnce
      /\ [Next]_vars
      => SaysOnce'
  BY SaysOnceStep
<1>4. /\ TypeInv /\ ConfigFirst /\ Staged /\ SaysOnce' /\ MigrationAsked
      /\ [Next]_vars
      => MigrationAsked'
  BY MigrationAskedStep
<1> QED BY <1>1, <1>2, <1>3, <1>4, TypeAlways, EndAlways, AloneAlways,
           ConfigAlways, PTL DEF Spec

LEMMA ResultsOwed ==
  ASSUME TypeInv, EndInv, OwedInv
  PROVE  ResultsAreOwed
<1>t. /\ handlers \in Counts /\ "migration" \in Awaits
      /\ started["rollout"] \in Nat /\ started["migration"] \in Nat
  BY DEF TypeInv, HandlersOK, RestOK, Children, Awaits
<1>1. started["rollout"] > 0 => started["rollout"] # 0
  BY <1>t
<1>2. started["migration"] > 0 => started["migration"] # 0
  BY <1>t
<1>3. MigrationAwaited => MigrationComing
  <2> SUFFICES ASSUME MigrationAwaited PROVE MigrationComing
    OBVIOUS
  <2>1. PICK v \in Version0 : handlers["migration"][v] # 0
    BY DEF MigrationAwaited
  <2>2. /\ handlers["migration"][v] = 1
        /\ migration.state # "none" /\ v = migration.version
    BY <2>1 DEF EndInv, OneAwaits
  <2> QED BY <2>2 DEF MigrationComing
<1> QED
  BY <1>1, <1>2, <1>3 DEF ResultsAreOwed, OwedInv, RolloutOwed, MigrationOwed, MigrationComing

\* The result of a rollout or a migration that the deployment has started is never
\* lost: until it is recorded the child is there and awaited, or a handler is about
\* to be told, in whatever order children end, fail, are cancelled or terminated.
THEOREM ResultsAreNotLost == Spec => []ResultsAreOwed
BY TypeAlways, EndAlways, OwedAlways, ResultsOwed, PTL

\* A deployment made once and refused no child waits only for what is to come: if it
\* does not migrate, for its cleanup once the rollout has ended; if it does, for the
\* migration that is asked for whichever handler started the rollout of a version,
\* while that runs and after it has succeeded.
THEOREM OpenDeploymentsWait == Spec => []CloseIsComing
<1>n. \A n \in Nat : n > 0 <=> n # 0
  OBVIOUS
<1>1. TypeInv /\ ResultsAreOwed /\ MigrationAsked /\ SaysOnce /\ OpenUntilDone
        => CloseIsComing
  <2> SUFFICES ASSUME TypeInv, ResultsAreOwed, MigrationAsked, SaysOnce,
                      OpenUntilDone, open, deploys <= 1, ~refused
               PROVE  /\ db.config = "nonMigratory" /\ db.rollout # "none" =>
                           Waits("start cleanup")
                      /\ /\ db.config # "nonMigratory" /\ RolledOut
                         /\ db.migration = "none"
                         => Waits("start migration") \/ MigrationComing
    BY DEF CloseIsComing
  <2>2. db.config = "nonMigratory" /\ db.rollout # "none" => Waits("start cleanup")
    BY DEF OpenUntilDone, SaysOnce, Waits
  <2>t. /\ handlers \in Counts /\ "start migration" \in Awaits
        /\ started["migration"] \in Nat
    BY WatchedAwaits DEF TypeInv, HandlersOK, RestOK, Children
  <2>3. started["migration"] # 0 => started["migration"] > 0
    BY <1>n, <2>t
  <2>4. (\E v \in Version0 : handlers["start migration"][v] # 0) => Waits("start migration")
    <3> DEFINE m == "start migration"
    <3>1. \A v \in Version0 : handlers[m][v] \in Nat
      BY <2>t DEF Counts
    <3> HIDE DEF m
    <3>2. \A v \in Version0 : handlers[m][v] # 0 => handlers[m][v] > 0
      BY <3>1
    <3> QED BY <3>2 DEF Waits, m
  <2>5. /\ db.config # "nonMigratory" /\ RolledOut /\ db.migration = "none"
        => Waits("start migration") \/ MigrationComing
    BY <2>3, <2>4 DEF MigrationAsked, ResultsAreOwed
  <2> QED BY <2>2, <2>5
<1> QED
  BY <1>1, TypeAlways, ResultsAreNotLost, AskedAlways, OpenUntilBothDone, PTL

=============================================================================
