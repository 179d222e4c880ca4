--------------------------- MODULE VersionFlagsProofs ---------------------------
(***************************************************************************)
(* Theorems about VersionFlags, for any versions, deployments and numbers. *)
(*                                                                         *)
(* Unless two deployments of a version meet, nobody makes a flag of it     *)
(* after one has found it to be without: so the flag made is the only one. *)
(* The number a deployment has taken stays above those of the live flags   *)
(* in the same way.  A flag is enabled only with its test strategy, which  *)
(* is never taken away, so that no flag admits everybody, and its other    *)
(* strategies stay at zero until somebody gives its version traffic.       *)
(***************************************************************************)
EXTENDS VersionFlags, SequenceTheorems, FiniteSetTheorems, TLAPS

\* Deployment d is about to create or to restore a flag.
Makes(d) == deploy[d].pc \in {"create", "restore"}

\* Deployments that are about to make flags at once have met.
MakersHaveMet ==
  \A d, e \in Deployers : d # e /\ Makes(d) /\ Makes(e) =>
    <<deploy[d].name.version, deploy[e].name.version>> \in met

OnlyFlag ==
  /\ \A d \in Deployers : Makes(d) =>
       LET v == deploy[d].name.version
       IN  <<v, v>> \in met \/ \A n \in Live : n.version # v
  /\ \A n, m \in Live : n.version = m.version => <<n.version, n.version>> \in met \/ n = m

\* Numbers that have no more than the digits they are padded to.
Padded(n) == n.seq < Base ^ Width

InOrder ==
  met = {} =>
    /\ \A p \in older : Padded(p[1]) /\ Padded(p[2]) => p[1].seq < p[2].seq
    /\ \A d \in Deployers : Makes(d) /\ Padded(deploy[d].name) =>
         \A n \in Live : Padded(n) => n.seq < deploy[d].name.seq

StaysDark ==
  /\ \A n \in DOMAIN flags : flags[n].enabled => flags[n].test
  /\ \A d \in Deployers : deploy[d].pc \in {"general", "write", "enable"} =>
                            flags[deploy[d].name].test
  /\ \A n \in DOMAIN flags : n.version \notin rolled =>
       \A i \in DOMAIN flags[n].general : flags[n].general[i] = 0

\* At the start version v has all the traffic.
HasAll(v) ==
  /\ flags = [n \in {FlagName(v, FirstSeq)} |->
                [live |-> TRUE, enabled |-> TRUE, test |-> TRUE, general |-> <<100>>]]
  /\ rolled = {v}

-----------------------------------------------------------------------------
\* What is in the list of strategies after one was replaced or added.
LEMMA SetGeneralOf ==
  ASSUME NEW g \in Seq(0..100), NEW found \in BOOLEAN, NEW p \in 0..100
  PROVE  /\ SetGeneral(g, found, p) \in Seq(0..100)
         /\ \A i \in DOMAIN SetGeneral(g, found, p) :
              \/ SetGeneral(g, found, p)[i] = p
              \/ i \in DOMAIN g /\ SetGeneral(g, found, p)[i] = g[i]
<1>1. CASE found /\ g # <<>>
  <2>1. 1 \in 1..Len(g)
    BY <1>1, EmptySeq, LenProperties
  <2>2. SetGeneral(g, found, p) = [g EXCEPT ![1] = p]
    BY <1>1 DEF SetGeneral
  <2>3. [g EXCEPT ![1] = p] \in Seq(0..100)
    BY <2>1, ExceptSeq
  <2> QED
    BY <2>2, <2>3
<1>2. CASE found /\ g = <<>>
  <2>1. SetGeneral(g, found, p) = [g EXCEPT ![1] = p]
    BY <1>2 DEF SetGeneral
  <2>2. DOMAIN g = {}
    BY <1>2
  <2>3. [g EXCEPT ![1] = p] = g
    BY <2>2, <1>2
  <2> QED
    BY <2>1, <2>3
<1>3. CASE ~found
  <2>1. SetGeneral(g, found, p) = Append(g, p)
    BY <1>3 DEF SetGeneral
  <2>2. /\ Append(g, p) \in Seq(0..100)
        /\ Len(Append(g, p)) = Len(g) + 1
        /\ \A i \in 1..Len(g) + 1 : Append(g, p)[i] = IF i = Len(g) + 1 THEN p ELSE g[i]
    OBVIOUS
  <2>3. DOMAIN Append(g, p) = 1..Len(g) + 1 /\ DOMAIN g = 1..Len(g)
    BY <2>2, LenProperties
  <2> QED
    BY <2>1, <2>2, <2>3, LenProperties
<1> QED
  BY <1>1, <1>2, <1>3

\* What a stored flag is and what the others are.
LEMMA Stored ==
  ASSUME NEW name, NEW flag, Store(name, flag)
  PROVE  /\ DOMAIN flags' = DOMAIN flags \cup {name}
         /\ flags'[name] = flag
         /\ \A n \in DOMAIN flags : n # name => flags'[n] = flags[n]
BY DEF Store

-----------------------------------------------------------------------------
\* The types, one lemma for the flags and those who hold their names.
LEMMA InitTyped == Init => TypeOK
<1> SUFFICES ASSUME Init PROVE TypeOK
  OBVIOUS
<1> USE VersionsAssumption, UsersAssumption, NumbersAssumption
<1>1. /\ DOMAIN flags \subseteq FlagNames
      /\ \A n \in DOMAIN flags : flags[n] \in Flag
      /\ rolled \subseteq Versions
  <2>1. CASE flags = <<>> /\ rolled = {}
    BY <2>1
  <2>2. ASSUME NEW v \in Versions, HasAll(v)
        PROVE  /\ DOMAIN flags \subseteq FlagNames
               /\ \A n \in DOMAIN flags : flags[n] \in Flag
               /\ rolled \subseteq Versions
    <3>1. FlagName(v, FirstSeq) \in FlagNames
      BY DEF FlagName, FlagNames
    <3>2. <<100>> \in Seq(0..100)
      OBVIOUS
    <3>3. [live |-> TRUE, enabled |-> TRUE, test |-> TRUE, general |-> <<100>>] \in Flag
      BY <3>2 DEF Flag
    <3> QED
      BY <2>2, <3>1, <3>3 DEF HasAll
  <2> QED
    BY <2>1, <2>2 DEF Init, HasAll
<1>2. /\ pick \in [Users -> Versions \cup {Default}]
      /\ deploys \in 0..MaxDeploys
      /\ removals \in 0..MaxRemovals
      /\ older \subseteq Live \X Live
      /\ met \subseteq Versions \X Versions
  BY DEF Init
<1>3. deploy \in [Deployers -> DeployType] /\ \A d \in Deployers : deploy[d].pc = "idle"
  BY DEF Init, Idle, DeployType
<1>4. removal \in [pc : {"idle"}]
  BY DEF Init, Idle
<1> QED
  BY <1>1, <1>2, <1>3, <1>4 DEF TypeOK

\* A stored flag of type Flag keeps what the types say of the flags.
LEMMA StoreTyped ==
  ASSUME TypeOK, NEW name \in FlagNames, NEW flag \in Flag, Store(name, flag)
  PROVE  /\ DOMAIN flags' \subseteq FlagNames
         /\ \A n \in DOMAIN flags' : flags'[n] \in Flag
         /\ DOMAIN flags \subseteq DOMAIN flags'
         /\ name \in DOMAIN flags'
         /\ Live' = IF flag.live THEN Live \cup {name} ELSE Live \ {name}
<1>1. /\ DOMAIN flags' = DOMAIN flags \cup {name}
      /\ flags'[name] = flag
      /\ \A n \in DOMAIN flags : n # name => flags'[n] = flags[n]
  BY Stored
<1> QED
  BY <1>1 DEF TypeOK, Live

\* Deployments, in the pieces the types are made of.
LEMMA DeployParts ==
  ASSUME TypeOK, NEW d \in Deployers, deploy[d].pc # "idle"
  PROVE  /\ deploy[d].name \in FlagNames
         /\ deploy[d].pc \in {"create", "restore", "test", "general", "enable"} =>
              deploy[d] = [pc |-> deploy[d].pc, name |-> deploy[d].name]
         /\ deploy[d].pc = "write" => deploy[d].found \in BOOLEAN
         /\ deploy[d].pc # "create" => deploy[d].name \in DOMAIN flags
<1>1. deploy[d] \in DeployType
  BY DEF TypeOK
<1> QED
  BY <1>1 DEF TypeOK, DeployType

LEMMA PcTyped ==
  ASSUME TypeOK, NEW d \in Deployers, NEW pc \in {"create", "restore", "test", "general", "enable"},
         deploy[d].pc \in {"create", "restore", "test", "general", "enable"}
  PROVE  /\ [deploy[d] EXCEPT !.pc = pc] = [pc |-> pc, name |-> deploy[d].name]
         /\ [pc |-> pc, name |-> deploy[d].name] \in DeployType
<1>1. /\ deploy[d].name \in FlagNames
      /\ deploy[d] = [pc |-> deploy[d].pc, name |-> deploy[d].name]
  BY DeployParts
<1> QED
  BY <1>1 DEF DeployType

\* A deployment that goes on keeps the types, if the name it holds is stored.
LEMMA DeployTyped ==
  ASSUME TypeOK, NEW d \in Deployers, NEW x \in DeployType,
         deploy' = [deploy EXCEPT ![d] = x],
         x.pc \notin {"idle", "create"} => x.name \in DOMAIN flags',
         DOMAIN flags \subseteq DOMAIN flags'
  PROVE  /\ deploy' \in [Deployers -> DeployType]
         /\ \A e \in Deployers : deploy'[e].pc \notin {"idle", "create"} =>
                                   deploy'[e].name \in DOMAIN flags'
BY DEF TypeOK

RemovalType == [pc : {"idle"}] \cup [pc : {"archive"}, name : DOMAIN flags]

\* A rollback keeps the name it found, since no flag ever goes altogether.
LEMMA RemovalTyped ==
  ASSUME removal \in RemovalType, UNCHANGED removal, DOMAIN flags \subseteq DOMAIN flags'
  PROVE  removal' \in RemovalType'
BY DEF RemovalType

\* What a deployment does to the flag it holds.
LEMMA StepTyped ==
  ASSUME TypeOK, NEW d \in Deployers, Step(d)
  PROVE  TypeOK'
<1> DEFINE name == deploy[d].name
<1>1. ASSUME NEW flag \in Flag, NEW x \in DeployType, deploy[d].pc # "idle",
             Store(name, flag),
             deploy' = [deploy EXCEPT ![d] = x],
             x.pc \notin {"idle", "create"} => x.name = name,
             older' \subseteq Live' \X Live',
             UNCHANGED <<deploys, removals, removal, pick, met, rolled>>
      PROVE  TypeOK'
  <2>1. name \in FlagNames
    BY <1>1, DeployParts
  <2>2. /\ DOMAIN flags' \subseteq FlagNames
        /\ \A n \in DOMAIN flags' : flags'[n] \in Flag
        /\ DOMAIN flags \subseteq DOMAIN flags'
        /\ name \in DOMAIN flags'
    BY <1>1, <2>1, StoreTyped
  <2>3. /\ deploy' \in [Deployers -> DeployType]
        /\ \A e \in Deployers : deploy'[e].pc \notin {"idle", "create"} =>
                                  deploy'[e].name \in DOMAIN flags'
    BY <1>1, <2>2, DeployTyped
  <2>4. removal' \in RemovalType'
    BY <1>1, <2>2, RemovalTyped DEF TypeOK, RemovalType
  <2> QED
    BY <1>1, <2>2, <2>3, <2>4 DEF TypeOK, RemovalType
<1>2. ASSUME NEW x \in DeployType,
             deploy' = [deploy EXCEPT ![d] = x],
             x.pc \notin {"idle", "create"} => x.name \in DOMAIN flags,
             UNCHANGED <<flags, deploys, removals, removal, pick, older, met, rolled>>
      PROVE  TypeOK'
  <2>1. /\ deploy' \in [Deployers -> DeployType]
        /\ \A e \in Deployers : deploy'[e].pc \notin {"idle", "create"} =>
                                  deploy'[e].name \in DOMAIN flags'
    BY <1>2, DeployTyped
  <2> QED
    BY <1>2, <2>1 DEF TypeOK, Live
<1>3. Idle \in DeployType /\ Idle.pc = "idle"
  BY DEF Idle, DeployType
<1>5. CASE Create(d)
  <2>1. deploy[d].pc = "create"
    BY <1>5 DEF Create
  <2>2. [deploy[d] EXCEPT !.pc = "test"] \in DeployType
        /\ [deploy[d] EXCEPT !.pc = "test"] = [pc |-> "test", name |-> name]
    BY <2>1, PcTyped
  <2>3. [deploy[d] EXCEPT !.pc = "restore"] \in DeployType
        /\ [deploy[d] EXCEPT !.pc = "restore"] = [pc |-> "restore", name |-> name]
    BY <2>1, PcTyped
  <2>4. NewFlag \in Flag /\ NewFlag.live
    BY EmptySeq DEF NewFlag, Flag
  <2>5. CASE name \notin DOMAIN flags /\ Store(name, NewFlag) /\ older' = older \cup (Live \X {name})
             /\ deploy' = [deploy EXCEPT ![d] = [deploy[d] EXCEPT !.pc = "test"]]
    <3>1. name \in FlagNames
      BY <2>1, DeployParts
    <3>2. Live' = Live \cup {name}
      BY <2>4, <2>5, <3>1, StoreTyped
    <3>3. older' \subseteq Live' \X Live'
      BY <2>5, <3>2 DEF TypeOK
    <3>4. UNCHANGED <<deploys, removals, removal, pick, met, rolled>>
      BY <1>5 DEF Create
    <3> QED
      BY <1>1, <2>1, <2>2, <2>4, <2>5, <3>3, <3>4
  <2>6. CASE name \in DOMAIN flags /\ UNCHANGED <<flags, older>>
             /\ deploy' = [deploy EXCEPT ![d] = [deploy[d] EXCEPT !.pc = "restore"]]
    <3>1. UNCHANGED <<flags, deploys, removals, removal, pick, older, met, rolled>>
      BY <1>5, <2>6 DEF Create
    <3> QED
      BY <1>2, <2>3, <2>6, <3>1
  <2> QED
    BY <1>5, <2>5, <2>6 DEF Create
<1>6. CASE Restore(d)
  <2>1. deploy[d].pc = "restore"
    BY <1>6 DEF Restore
  <2>2. /\ [deploy[d] EXCEPT !.pc = "test"] \in DeployType
        /\ [deploy[d] EXCEPT !.pc = "test"] = [pc |-> "test", name |-> name]
    BY <2>1, PcTyped
  <2>3. name \in DOMAIN flags /\ name \in FlagNames
    BY <2>1, DeployParts
  <2>4. ASSUME NEW on \in {FALSE, flags[name].enabled}, ~flags[name].live,
               Store(name, [flags[name] EXCEPT !.live = TRUE, !.enabled = on]),
               older' = older \cup (Live \X {name}),
               deploy' = [deploy EXCEPT ![d] = [deploy[d] EXCEPT !.pc = "test"]]
        PROVE  TypeOK'
    <3> DEFINE flag == [flags[name] EXCEPT !.live = TRUE, !.enabled = on]
    <3> flags[name] \in Flag
      BY <2>3 DEF TypeOK
    <3> on \in BOOLEAN
      BY DEF Flag
    <3>1. flag \in Flag /\ flag.live
      BY DEF Flag
    <3>2. Live' = Live \cup {name}
      BY <2>3, <2>4, <3>1, StoreTyped
    <3>3. older' \subseteq Live' \X Live'
      BY <2>4, <3>2 DEF TypeOK
    <3>4. UNCHANGED <<deploys, removals, removal, pick, met, rolled>>
      BY <1>6 DEF Restore
    <3> QED
      BY <1>1, <2>1, <2>2, <2>4, <3>1, <3>3, <3>4
  <2>5. CASE UNCHANGED <<flags, older>> /\ deploy' = [deploy EXCEPT ![d] = Idle]
    <3>1. UNCHANGED <<flags, deploys, removals, removal, pick, older, met, rolled>>
      BY <1>6, <2>5 DEF Restore
    <3> QED
      BY <1>2, <1>3, <2>5, <3>1
  <2> QED
    BY <1>6, <2>4, <2>5 DEF Restore
<1>7. ASSUME NEW flag \in Flag, flag.live, flags[name].live, NEW x \in DeployType,
             deploy[d].pc \in {"test", "write", "enable"},
             Store(name, flag),
             deploy' = [deploy EXCEPT ![d] = x],
             x.pc \notin {"idle", "create"} => x.name = name,
             UNCHANGED <<deploys, removals, removal, pick, older, met, rolled>>
      PROVE  TypeOK'
  <2>1. name \in FlagNames /\ name \in Live
    BY <1>7, DeployParts DEF Live
  <2>2. Live' = Live
    BY <1>7, <2>1, StoreTyped
  <2>3. older' \subseteq Live' \X Live'
    BY <1>7, <2>2 DEF TypeOK
  <2> QED
    BY <1>1, <1>7, <2>3
<1>8. ASSUME deploy[d].pc \in {"test", "general", "write", "enable"}
      PROVE  /\ name \in DOMAIN flags /\ name \in FlagNames
             /\ flags[name] \in Flag
             /\ [pc |-> "enable", name |-> name] \in DeployType
  BY <1>8, DeployParts DEF TypeOK, DeployType
<1>9. CASE ApplyTest(d)
  <2>1. deploy[d].pc = "test"
    BY <1>9 DEF ApplyTest
  <2>2. /\ [deploy[d] EXCEPT !.pc = "general"] \in DeployType
        /\ [deploy[d] EXCEPT !.pc = "general"] = [pc |-> "general", name |-> name]
    BY <2>1, PcTyped
  <2>3. /\ [flags[name] EXCEPT !.test = TRUE] \in Flag
        /\ [flags[name] EXCEPT !.test = TRUE].live = flags[name].live
    BY <1>8, <2>1 DEF Flag
  <2> QED
    BY <1>7, <1>9, <2>1, <2>2, <2>3 DEF ApplyTest
<1>10. CASE FindGeneral(d)
  <2>1. deploy[d].pc = "general"
    BY <1>10 DEF FindGeneral
  <2> DEFINE x == [pc |-> "write", name |-> name, found |-> flags[name].general # <<>>]
  <2>2. x \in DeployType /\ x.name \in DOMAIN flags
    BY <1>8, <2>1 DEF DeployType
  <2> QED
    BY <1>2, <1>10, <2>2 DEF FindGeneral
<1>11. CASE WriteGeneral(d)
  <2>1. deploy[d].pc = "write"
    BY <1>11 DEF WriteGeneral
  <2> DEFINE flag == [flags[name] EXCEPT !.general = SetGeneral(@, deploy[d].found, 0)]
  <2>2. flags[name] \in Flag /\ flags[name].general \in Seq(0..100) /\ deploy[d].found \in BOOLEAN
    BY <1>8, <2>1, DeployParts DEF Flag
  <2>3. SetGeneral(flags[name].general, deploy[d].found, 0) \in Seq(0..100)
    <3> DEFINE g == flags[name].general  found == deploy[d].found
    <3>1. g \in Seq(0..100) /\ found \in BOOLEAN /\ 0 \in 0..100
      BY <2>2
    <3> HIDE DEF g, found
    <3>2. SetGeneral(g, found, 0) \in Seq(0..100)
      BY <3>1, SetGeneralOf
    <3> QED
      BY <3>2 DEF g, found
  <2>4. flag \in Flag /\ flag.live = flags[name].live
    BY <2>2, <2>3 DEF Flag
  <2> QED
    BY <1>7, <1>8, <1>11, <2>1, <2>4 DEF WriteGeneral
<1>12. CASE Enable(d)
  <2>1. deploy[d].pc = "enable"
    BY <1>12 DEF Enable
  <2>2. /\ [flags[name] EXCEPT !.enabled = TRUE] \in Flag
        /\ [flags[name] EXCEPT !.enabled = TRUE].live = flags[name].live
    BY <1>8, <2>1 DEF Flag
  <2> QED
    BY <1>3, <1>7, <1>12, <2>1, <2>2 DEF Enable
<1>13. CASE Fail(d)
  BY <1>2, <1>3, <1>13 DEF Fail
<1> QED
  BY <1>5, <1>6, <1>9, <1>10, <1>11, <1>12, <1>13 DEF Step

\* A step that changes a stored flag and no deployment.
LEMMA OthersTyped ==
  ASSUME TypeOK, NEW name \in DOMAIN flags, NEW flag \in Flag, Store(name, flag),
         UNCHANGED <<deploy, deploys, removals, pick, met>>,
         removal' \in RemovalType, older' \subseteq Live' \X Live', rolled' \subseteq Versions
  PROVE  TypeOK'
<1>1. name \in FlagNames
  BY DEF TypeOK
<1>2. /\ DOMAIN flags' \subseteq FlagNames
      /\ \A n \in DOMAIN flags' : flags'[n] \in Flag
      /\ DOMAIN flags \subseteq DOMAIN flags'
  BY <1>1, StoreTyped
<1>3. removal' \in RemovalType'
  BY <1>2 DEF RemovalType
<1> QED
  BY <1>2, <1>3 DEF TypeOK, RemovalType

LEMMA NextTyped ==
  ASSUME TypeOK, [Next]_vars
  PROVE  TypeOK'
<1> USE NumbersAssumption
<1>1. ASSUME NEW d \in Deployers, NEW v \in Versions, List(d, v) PROVE TypeOK'
  <2>1. ASSUME NEW x \in DeployType,
               deploy' = [deploy EXCEPT ![d] = x],
               x.pc \notin {"idle", "create"} => x.name \in DOMAIN flags,
               met' \subseteq Versions \X Versions
        PROVE  TypeOK'
    <3>1. UNCHANGED <<flags, removals, removal, pick, older, rolled>> /\ deploys' \in 0..MaxDeploys
      BY <1>1 DEF List, TypeOK
    <3>2. /\ deploy' \in [Deployers -> DeployType]
          /\ \A e \in Deployers : deploy'[e].pc \notin {"idle", "create"} =>
                                    deploy'[e].name \in DOMAIN flags'
      BY <2>1, <3>1, DeployTyped
    <3> QED
      BY <2>1, <3>1, <3>2 DEF TypeOK, Live
  <2>2. ASSUME NEW name \in Newest(OfVersion(v)), UNCHANGED met,
               deploy' = [deploy EXCEPT ![d] = [pc |-> "test", name |-> name]]
        PROVE  TypeOK'
    <3>1. name \in DOMAIN flags /\ name \in FlagNames
      BY <2>2 DEF Newest, OfVersion, Live, TypeOK
    <3>2. [pc |-> "test", name |-> name] \in DeployType
      BY <3>1 DEF DeployType
    <3> QED
      BY <2>1, <2>2, <3>1, <3>2 DEF TypeOK
  <2>3. ASSUME NEW n \in NextSeq,
               deploy' = [deploy EXCEPT ![d] = [pc |-> "create", name |-> FlagName(v, n)]],
               met' = met \cup ({v} \X Creating) \cup (Creating \X {v})
        PROVE  TypeOK'
    <3>1. n \in Nat
      BY <2>3 DEF NextSeq, Newest, Live, TypeOK, FlagNames
    <3>2. [pc |-> "create", name |-> FlagName(v, n)] \in DeployType
      BY <3>1 DEF DeployType, FlagName, FlagNames
    <3>3. Creating \subseteq Versions
      <4> SUFFICES ASSUME NEW e \in Deployers, deploy[e].pc \in {"create", "restore"}
                   PROVE  deploy[e].name.version \in Versions
        BY DEF Creating
      <4>1. deploy[e].name \in FlagNames
        BY DeployParts
      <4> QED
        BY <4>1 DEF FlagNames
    <3>4. met' \subseteq Versions \X Versions
      BY <2>3, <3>3 DEF TypeOK
    <3> QED
      BY <2>1, <2>3, <3>2, <3>4
  <2> QED
    BY <1>1, <2>2, <2>3 DEF List
<1>2. ASSUME NEW d \in Deployers, Step(d) PROVE TypeOK'
  BY <1>2, StepTyped
<1>3. ASSUME NEW name \in DOMAIN flags, NEW p \in Percents, SetTraffic(name, p) PROVE TypeOK'
  <2> DEFINE g == flags[name].general  found == flags[name].general # <<>>
             flag == [flags[name] EXCEPT !.general = SetGeneral(g, found, p)]
  <2>1. flags[name] \in Flag /\ g \in Seq(0..100) /\ found \in BOOLEAN /\ p \in 0..100
    BY UsersAssumption DEF TypeOK, Flag
  <2>2. SetGeneral(g, found, p) \in Seq(0..100)
    <3> HIDE DEF g, found
    <3> QED BY <2>1, SetGeneralOf
  <2>3. flag \in Flag /\ flag.live = flags[name].live /\ flags[name].live
    BY <1>3, <2>1, <2>2 DEF Flag, SetTraffic
  <2>4. Store(name, flag)
    BY <1>3 DEF SetTraffic
  <2>5. name \in FlagNames /\ name \in Live
    BY <2>3 DEF TypeOK, Live
  <2> HIDE DEF flag
  <2>6. Live' = Live
    BY <2>3, <2>4, <2>5, StoreTyped
  <2>7. older' \subseteq Live' \X Live' /\ removal' \in RemovalType
    BY <1>3, <2>6 DEF SetTraffic, TypeOK, RemovalType
  <2>8. rolled' \subseteq Versions
    BY <1>3, <2>5 DEF SetTraffic, TypeOK, FlagNames
  <2> QED
    BY <1>3, <2>3, <2>4, <2>7, <2>8, OthersTyped DEF SetTraffic
<1>4. ASSUME NEW v \in Versions, FindFlag(v) PROVE TypeOK'
  BY <1>4 DEF FindFlag, TypeOK, Live
<1>5. CASE Archive
  <2> DEFINE name == removal.name
  <2>1. name \in DOMAIN flags
    BY <1>5 DEF Archive, TypeOK
  <2>2. Idle \in RemovalType
    BY DEF Idle, RemovalType
  <2>3. CASE UNCHANGED <<flags, older>>
    BY <1>5, <2>2, <2>3 DEF Archive, TypeOK, RemovalType, Live
  <2>4. CASE Store(name, [flags[name] EXCEPT !.live = FALSE])
             /\ older' = {p \in older : name \notin {p[1], p[2]}}
    <3> DEFINE flag == [flags[name] EXCEPT !.live = FALSE]
    <3>1. flag \in Flag /\ ~flag.live /\ name \in FlagNames
      BY <2>1 DEF TypeOK, Flag
    <3>2. Live' = Live \ {name}
      BY <2>4, <3>1, StoreTyped
    <3>3. older' \subseteq Live' \X Live'
      BY <2>4, <3>2 DEF TypeOK
    <3>4. UNCHANGED <<deploy, deploys, removals, pick, met>> /\ removal' = Idle
          /\ rolled' \subseteq Versions
      BY <1>5 DEF Archive, TypeOK
    <3> HIDE DEF flag
    <3> QED
      BY <2>1, <2>2, <2>4, <3>1, <3>3, <3>4, OthersTyped DEF flag
  <2> QED
    BY <1>5, <2>3, <2>4 DEF Archive
<1>6. CASE Refresh
  BY <1>6 DEF Refresh, TypeOK, Live
<1>7. CASE UNCHANGED vars
  BY <1>7 DEF vars, TypeOK, Live
<1> QED
  BY <1>1, <1>2, <1>3, <1>4, <1>5, <1>6, <1>7 DEF Next

\* Every variable keeps its type, whatever the numbers of deployments, rollbacks
\* and versions.
THEOREM TypesHold == Spec => []TypeOK
<1>1. Init => TypeOK
  BY InitTyped
<1>2. TypeOK /\ [Next]_vars => TypeOK'
  BY NextTyped
<1> QED
  BY <1>1, <1>2, PTL DEF Spec

-----------------------------------------------------------------------------
\* A step makes a flag, or begins to, or does neither.
Made(d) ==
  /\ Makes(d) /\ ~Makes(d)'
  /\ Live' = Live \cup {deploy[d].name}
  /\ older' = older \cup (Live \X {deploy[d].name})
  /\ met' = met
  /\ \A e \in Deployers \ {d} : deploy'[e] = deploy[e]

Begins(d, v) ==
  /\ OfVersion(v) = {}
  /\ \E n \in NextSeq : deploy' = [deploy EXCEPT ![d] = [pc |-> "create", name |-> FlagName(v, n)]]
  /\ met' = met \cup ({v} \X Creating) \cup (Creating \X {v})
  /\ Live' = Live /\ older' = older

MakesNothing ==
  /\ Live' \subseteq Live /\ older' \subseteq older /\ met' = met
  /\ \A e \in Deployers : Makes(e)' => Makes(e) /\ deploy'[e].name = deploy[e].name

\* The live flags and the pairs after a step of a deployment that makes none.
LEMMA RewritesLive ==
  ASSUME TypeOK, NEW name \in DOMAIN flags, NEW flag, Store(name, flag), flag.live = flags[name].live
  PROVE  Live' = Live
BY Stored DEF Live

LEMMA DeployersStep ==
  ASSUME TypeOK, NEW d \in Deployers, Step(d)
  PROVE  Made(d) \/ MakesNothing
<1> DEFINE name == deploy[d].name
<1>1. ASSUME NEW x, x.pc \notin {"create", "restore"}, deploy' = [deploy EXCEPT ![d] = x],
             Live' = Live, UNCHANGED <<older, met>>
      PROVE  MakesNothing
  BY <1>1 DEF MakesNothing, Makes, TypeOK
<1>2. ASSUME Makes(d), NEW x, x.pc \notin {"create", "restore"}, deploy' = [deploy EXCEPT ![d] = x],
             Live' = Live \cup {name}, older' = older \cup (Live \X {name}), met' = met
      PROVE  Made(d)
  BY <1>2 DEF Made, Makes, TypeOK
<1>3. Idle.pc = "idle"
  BY DEF Idle
<1>4. ASSUME deploy[d].pc \in {"test", "general", "write", "enable"} PROVE name \in DOMAIN flags
  BY <1>4, DeployParts
<1>5. CASE Create(d)
  <2> DEFINE x == [deploy[d] EXCEPT !.pc = "test"]  y == [deploy[d] EXCEPT !.pc = "restore"]
  <2>1. deploy[d].pc = "create" /\ met' = met
    BY <1>5 DEF Create
  <2>2. x = [pc |-> "test", name |-> name] /\ y = [pc |-> "restore", name |-> name]
    BY <2>1, PcTyped
  <2>3. CASE name \notin DOMAIN flags /\ Store(name, NewFlag) /\ deploy' = [deploy EXCEPT ![d] = x]
             /\ older' = older \cup (Live \X {name})
    <3> NewFlag \in Flag /\ NewFlag.live
      BY EmptySeq DEF NewFlag, Flag
    <3> name \in FlagNames
      BY <2>1, DeployParts
    <3>1. Live' = Live \cup {name}
      BY <2>3, StoreTyped
    <3>2. x.pc = "test" /\ Makes(d)
      BY <2>1, <2>2 DEF Makes
    <3> HIDE DEF x
    <3> QED
      BY <1>2, <2>1, <2>3, <3>1, <3>2
  <2>4. CASE name \in DOMAIN flags /\ deploy' = [deploy EXCEPT ![d] = y] /\ UNCHANGED <<flags, older>>
    <3>1. Live' = Live
      BY <2>4 DEF Live
    <3> QED
      BY <2>1, <2>2, <2>4, <3>1 DEF MakesNothing, Makes, TypeOK
  <2> QED
    BY <1>5, <2>3, <2>4 DEF Create
<1>6. CASE Restore(d)
  <2> DEFINE x == [deploy[d] EXCEPT !.pc = "test"]
  <2>1. deploy[d].pc = "restore" /\ met' = met
    BY <1>6 DEF Restore
  <2>2. x = [pc |-> "test", name |-> name] /\ name \in DOMAIN flags /\ flags[name] \in Flag
    BY <2>1, PcTyped, DeployParts DEF TypeOK
  <2>3. ASSUME NEW on \in {FALSE, flags[name].enabled},
               Store(name, [flags[name] EXCEPT !.live = TRUE, !.enabled = on]),
               deploy' = [deploy EXCEPT ![d] = x], older' = older \cup (Live \X {name})
        PROVE  Made(d)
    <3> DEFINE flag == [flags[name] EXCEPT !.live = TRUE, !.enabled = on]
    <3> on \in BOOLEAN /\ name \in FlagNames
      BY <2>2 DEF Flag, TypeOK
    <3>1. flag \in Flag /\ flag.live
      BY <2>2 DEF Flag
    <3>2. Live' = Live \cup {name}
      BY <2>3, <3>1, StoreTyped
    <3> HIDE DEF flag
    <3>3. x.pc = "test" /\ Makes(d)
      BY <2>1, <2>2 DEF Makes
    <3> HIDE DEF x
    <3> QED
      BY <1>2, <2>1, <2>3, <3>2, <3>3
  <2>4. CASE UNCHANGED <<flags, older>> /\ deploy' = [deploy EXCEPT ![d] = Idle]
    BY <1>1, <1>3, <2>1, <2>4 DEF Live
  <2> QED
    BY <1>6, <2>3, <2>4 DEF Restore
<1>7. CASE ApplyTest(d)
  <2>1. deploy[d].pc = "test" /\ name \in DOMAIN flags /\ flags[name] \in Flag
    BY <1>4, <1>7 DEF ApplyTest, TypeOK
  <2>2. [flags[name] EXCEPT !.test = TRUE].live = flags[name].live
    BY <2>1 DEF Flag
  <2>3. Live' = Live
    BY <1>7, <2>1, <2>2, RewritesLive DEF ApplyTest
  <2>4. [deploy[d] EXCEPT !.pc = "general"] = [pc |-> "general", name |-> name]
    BY <2>1, PcTyped
  <2> QED
    BY <1>1, <1>7, <2>3, <2>4 DEF ApplyTest
<1>8. CASE FindGeneral(d)
  BY <1>1, <1>8 DEF FindGeneral, Live
<1>9. CASE WriteGeneral(d)
  <2>1. name \in DOMAIN flags /\ flags[name] \in Flag
    BY <1>4, <1>9 DEF WriteGeneral, TypeOK
  <2>2. [flags[name] EXCEPT !.general = SetGeneral(@, deploy[d].found, 0)].live = flags[name].live
    BY <2>1 DEF Flag
  <2>3. Live' = Live
    BY <1>9, <2>1, <2>2, RewritesLive DEF WriteGeneral
  <2> QED
    BY <1>1, <1>9, <2>3 DEF WriteGeneral
<1>10. CASE Enable(d)
  <2>1. name \in DOMAIN flags /\ flags[name] \in Flag
    BY <1>4, <1>10 DEF Enable, TypeOK
  <2>2. [flags[name] EXCEPT !.enabled = TRUE].live = flags[name].live
    BY <2>1 DEF Flag
  <2>3. Live' = Live
    BY <1>10, <2>1, <2>2, RewritesLive DEF Enable
  <2> QED
    BY <1>1, <1>3, <1>10, <2>3 DEF Enable
<1>11. CASE Fail(d)
  BY <1>1, <1>3, <1>11 DEF Fail, Live
<1> QED
  BY <1>5, <1>6, <1>7, <1>8, <1>9, <1>10, <1>11 DEF Step

LEMMA StepsMake ==
  ASSUME TypeOK, [Next]_vars
  PROVE  \/ \E d \in Deployers : Made(d)
         \/ \E d \in Deployers, v \in Versions : Begins(d, v)
         \/ MakesNothing
<1>1. ASSUME NEW d \in Deployers, NEW v \in Versions, List(d, v)
      PROVE  Begins(d, v) \/ MakesNothing
  <2>1. Live' = Live /\ older' = older
    BY <1>1 DEF List, Live
  <2>2. ASSUME NEW name, UNCHANGED met,
               deploy' = [deploy EXCEPT ![d] = [pc |-> "test", name |-> name]]
        PROVE  MakesNothing
    BY <2>1, <2>2 DEF MakesNothing, Makes, TypeOK
  <2> QED
    BY <1>1, <2>1, <2>2 DEF List, Begins
<1>2. ASSUME NEW name \in DOMAIN flags, NEW p \in Percents, SetTraffic(name, p) PROVE MakesNothing
  <2>1. [flags[name] EXCEPT !.general = SetGeneral(@, @ # <<>>, p)].live = flags[name].live
    BY DEF TypeOK, Flag
  <2>2. Live' = Live
    BY <1>2, <2>1, RewritesLive DEF SetTraffic
  <2> QED
    BY <1>2, <2>2 DEF SetTraffic, MakesNothing, Makes
<1>3. CASE Archive
  <2>1. removal.name \in DOMAIN flags
    BY <1>3 DEF Archive, TypeOK
  <2>2. CASE Store(removal.name, [flags[removal.name] EXCEPT !.live = FALSE])
    <3>1. /\ [flags[removal.name] EXCEPT !.live = FALSE] \in Flag
          /\ ~[flags[removal.name] EXCEPT !.live = FALSE].live
          /\ removal.name \in FlagNames
      <4> flags[removal.name] \in Flag /\ removal.name \in FlagNames
        BY <2>1 DEF TypeOK
      <4> QED
        BY DEF Flag
    <3>2. Live' \subseteq Live
      BY <2>2, <3>1, StoreTyped
    <3> QED
      BY <1>3, <3>2 DEF Archive, MakesNothing, Makes
  <2>3. CASE UNCHANGED <<flags, older>>
    BY <1>3, <2>3 DEF Archive, MakesNothing, Makes, Live
  <2> QED
    BY <1>3, <2>2, <2>3 DEF Archive
<1>4. ASSUME NEW v \in Versions, FindFlag(v) PROVE MakesNothing
  BY <1>4 DEF FindFlag, MakesNothing, Makes, Live
<1>5. CASE Refresh \/ UNCHANGED vars
  BY <1>5 DEF Refresh, vars, MakesNothing, Makes, Live
<1> QED
  BY <1>1, <1>2, <1>3, <1>4, <1>5, DeployersStep DEF Next

-----------------------------------------------------------------------------
(* One flag for each version *)

FlagsInv == MakersHaveMet /\ OnlyFlag

LEMMA FlagsInvInit == Init => FlagsInv
<1> SUFFICES ASSUME Init PROVE FlagsInv
  OBVIOUS
<1>1. \A d \in Deployers : ~Makes(d)
  BY DEF Init, Idle, Makes
<1>2. \A n, m \in Live : n = m
  <2>1. \E f : DOMAIN flags \subseteq {f}
    <3>1. CASE flags = <<>>
      BY <3>1
    <3>2. ASSUME NEW f, NEW x, flags = [n \in {f} |-> x] PROVE DOMAIN flags \subseteq {f}
      BY <3>2
    <3> QED
      BY <3>1, <3>2 DEF Init
  <2> QED
    BY <2>1 DEF Live
<1> QED
  BY <1>1, <1>2 DEF FlagsInv, MakersHaveMet, OnlyFlag

LEMMA FlagsInvNext ==
  ASSUME TypeOK, FlagsInv, [Next]_vars
  PROVE  FlagsInv'
<1> USE DEF FlagsInv
<1>1. ASSUME NEW d \in Deployers, Made(d) PROVE FlagsInv'
  <2> DEFINE name == deploy[d].name
  <2>1. \A e \in Deployers : Makes(e)' => e # d /\ Makes(e) /\ deploy'[e] = deploy[e]
    BY <1>1 DEF Made, Makes
  <2>2. MakersHaveMet'
    BY <1>1, <2>1 DEF Made, MakersHaveMet
  <2>3. \A e \in Deployers : Makes(e)' =>
          LET v == deploy'[e].name.version
          IN  <<v, v>> \in met' \/ \A n \in Live' : n.version # v
    BY <1>1, <2>1 DEF Made, MakersHaveMet, OnlyFlag
  <2>4. \A n, m \in Live' : n.version = m.version => <<n.version, n.version>> \in met' \/ n = m
    <3>1. \A n \in Live : n.version = name.version => <<n.version, n.version>> \in met
      BY <1>1 DEF Made, OnlyFlag
    <3>2. Live' = Live \cup {name} /\ met' = met
      BY <1>1 DEF Made
    <3>3. \A n, m \in Live : n.version = m.version => <<n.version, n.version>> \in met \/ n = m
      BY DEF OnlyFlag
    <3> HIDE DEF name
    <3> QED
      BY <3>1, <3>2, <3>3
  <2> QED
    BY <2>2, <2>3, <2>4 DEF OnlyFlag
<1>2. ASSUME NEW d \in Deployers, NEW v \in Versions, Begins(d, v) PROVE FlagsInv'
  <2>1. PICK n : deploy' = [deploy EXCEPT ![d] = [pc |-> "create", name |-> FlagName(v, n)]]
    BY <1>2 DEF Begins
  <2>2. /\ deploy'[d].pc = "create" /\ deploy'[d].name.version = v
        /\ \A e \in Deployers \ {d} : deploy'[e] = deploy[e]
    BY <2>1 DEF TypeOK, FlagName
  <2>3. \A e \in Deployers \ {d} : Makes(e)' => Makes(e) /\ deploy[e].name.version \in Creating
    BY <2>2 DEF Makes, Creating
  <2>4. met \subseteq met' /\ \A w \in Creating : <<v, w>> \in met' /\ <<w, v>> \in met'
    BY <1>2 DEF Begins
  <2>5. MakersHaveMet'
    BY <2>2, <2>3, <2>4 DEF MakersHaveMet
  <2>6. Live' = Live /\ \A m \in Live : m.version # v
    BY <1>2 DEF Begins, OfVersion
  <2>7. OnlyFlag'
    BY <2>2, <2>3, <2>4, <2>6 DEF OnlyFlag
  <2> QED
    BY <2>5, <2>7
<1>3. CASE MakesNothing
  BY <1>3 DEF MakesNothing, MakersHaveMet, OnlyFlag
<1> QED
  BY <1>1, <1>2, <1>3, StepsMake

\* A set all of whose elements are one has no more than one.
LEMMA AtMostOne ==
  ASSUME NEW S, \A x, y \in S : x = y
  PROVE  Cardinality(S) <= 1
<1>1. CASE S = {}
  BY <1>1, FS_EmptySet
<1>2. ASSUME NEW x \in S PROVE Cardinality(S) = 1
  <2>1. S = {x}
    OBVIOUS
  <2> QED
    BY <2>1, FS_Singleton
<1> QED
  BY <1>1, <1>2

\* deleteWorkflowVersionFlag refuses a version that has two flags: a version has
\* one only, however many attempts there are and wherever they fail, unless two
\* deployments of it were about to create its flag at once.
THEOREM VersionsHaveOneFlag == Spec => []OneFlagPerVersion
<1>1. FlagsInv => OneFlagPerVersion
  <2> SUFFICES ASSUME FlagsInv, NEW v \in Versions, <<v, v>> \notin met
               PROVE  Cardinality({n \in Live : n.version = v}) <= 1
    BY DEF OneFlagPerVersion
  <2> DEFINE S == {n \in Live : n.version = v}
  <2>1. \A x, y \in S : x = y
    BY DEF FlagsInv, OnlyFlag
  <2> HIDE DEF S
  <2>2. Cardinality(S) <= 1
    BY <2>1, AtMostOne
  <2> QED
    BY <2>2 DEF S
<1>2. Init => FlagsInv
  BY FlagsInvInit
<1>3. TypeOK /\ FlagsInv /\ [Next]_vars => FlagsInv'
  BY FlagsInvNext
<1> QED
  BY <1>1, <1>2, <1>3, TypesHold, PTL DEF Spec

-----------------------------------------------------------------------------
(* The order of the flags *)

\* Padded numbers compare as numbers.
LEMMA PaddedBelow ==
  ASSUME NEW f \in FlagNames, NEW g \in FlagNames, Padded(f), Padded(g)
  PROVE  /\ NameBelow(f, g) => f.seq <= g.seq
         /\ f.seq < g.seq => NameBelow(f, g)
<1>1. f.seq \in Nat /\ g.seq \in Nat
  BY DEF FlagNames
<1>2. Digits(f.seq) = Width /\ Digits(g.seq) = Width
  BY DEF Padded, Digits
<1>3. NumberBelow(f.seq, g.seq) <=> f.seq < g.seq
  BY <1>1, <1>2, NumbersAssumption DEF NumberBelow
<1> QED
  BY <1>1, <1>3 DEF NameBelow

LEMMA InOrderInit == Init => InOrder
<1> SUFFICES ASSUME Init PROVE InOrder
  OBVIOUS
<1>1. older = {} /\ \A d \in Deployers : ~Makes(d)
  BY DEF Init, Idle, Makes
<1> QED
  BY <1>1 DEF InOrder

LEMMA InOrderNext ==
  ASSUME TypeOK, FlagsInv, InOrder, [Next]_vars
  PROVE  InOrder'
<1> SUFFICES ASSUME met' = {} PROVE InOrder'
  BY DEF InOrder
<1>1. ASSUME NEW d \in Deployers, Made(d) PROVE InOrder'
  <2> DEFINE name == deploy[d].name
  <2>1. met = {} /\ \A e \in Deployers : Makes(e) => e = d
    BY <1>1 DEF Made, FlagsInv, MakersHaveMet
  <2>2. \A e \in Deployers : ~Makes(e)'
    BY <1>1, <2>1 DEF Made, Makes
  <2>3. Padded(name) => \A n \in Live : Padded(n) => n.seq < name.seq
    BY <1>1, <2>1 DEF Made, InOrder
  <2>4. \A p \in older : Padded(p[1]) /\ Padded(p[2]) => p[1].seq < p[2].seq
    BY <2>1 DEF InOrder
  <2>5. older' = older \cup (Live \X {name})
    BY <1>1 DEF Made
  <2> HIDE DEF name
  <2>6. \A p \in older' : Padded(p[1]) /\ Padded(p[2]) => p[1].seq < p[2].seq
    <3> SUFFICES ASSUME NEW p \in Live \X {name}, Padded(p[1]), Padded(p[2])
                 PROVE  p[1].seq < p[2].seq
      BY <2>4, <2>5
    <3>1. p[1] \in Live /\ p[2] = name
      OBVIOUS
    <3> QED
      BY <2>3, <3>1
  <2> QED
    BY <2>2, <2>6 DEF InOrder, Padded
<1>2. ASSUME NEW d \in Deployers, NEW v \in Versions, Begins(d, v) PROVE InOrder'
  <2>1. PICK n \in NextSeq :
          deploy' = [deploy EXCEPT ![d] = [pc |-> "create", name |-> FlagName(v, n)]]
    BY <1>2 DEF Begins
  <2>2. met = {} /\ Creating = {} /\ Live' = Live /\ older' = older
    <3>1. \A w \in Creating : <<v, w>> \in met'
      BY <1>2 DEF Begins
    <3>2. met \subseteq met' /\ Live' = Live /\ older' = older
      BY <1>2 DEF Begins
    <3> QED
      BY <3>1, <3>2
  <2>3. \A e \in Deployers : ~Makes(e)
    BY <2>2 DEF Creating, Makes
  <2>4. deploy'[d].name = FlagName(v, n) /\ \A e \in Deployers : Makes(e)' => e = d
    BY <2>1, <2>3 DEF Makes, TypeOK
  <2>5. FlagName(v, n).seq = n
    BY DEF FlagName
  <2>6. Padded(FlagName(v, n)) => \A g \in Live : Padded(g) => g.seq < n
    <3> SUFFICES ASSUME Padded(FlagName(v, n)), NEW g \in Live, Padded(g) PROVE g.seq < n
      OBVIOUS
    <3>1. PICK f \in Newest(Live) : n = f.seq + 1
      BY <2>1 DEF NextSeq
    <3>2. f \in Live /\ f \in FlagNames /\ g \in FlagNames /\ (g # f => NameBelow(g, f))
      BY <3>1 DEF Newest, Live, TypeOK
    <3>3. f.seq \in Nat /\ g.seq \in Nat
      BY <3>2 DEF FlagNames
    <3>4. Padded(f)
      <4>1. Base ^ Width \in Nat
        BY NumbersAssumption
      <4> QED
        BY <2>5, <3>1, <3>3, <4>1 DEF Padded
    <3>5. g.seq <= f.seq
      BY <3>2, <3>3, <3>4, PaddedBelow
    <3> QED
      BY <3>1, <3>3, <3>5
  <2> QED
    BY <2>2, <2>4, <2>5, <2>6 DEF InOrder, Padded
<1>3. CASE MakesNothing
  BY <1>3 DEF MakesNothing, InOrder, Padded
<1> QED
  BY <1>1, <1>2, <1>3, StepsMake

\* The client takes the flag whose name sorts last for the newest.  It is: unless
\* creations met, and while the numbers are padded to one length, flags sort as they
\* were made, also those that were archived and restored.
THEOREM FlagsSortAsMade == Spec => []NewestFirst
<1>1. TypeOK /\ InOrder => NewestFirst
  <2> SUFFICES ASSUME TypeOK, InOrder, met = {}, \A n \in Live : n.seq < Base ^ Width,
                      NEW p \in older
               PROVE  NameBelow(p[1], p[2])
    BY DEF NewestFirst
  <2>1. /\ p[1] \in FlagNames /\ Padded(p[1])
        /\ p[2] \in FlagNames /\ Padded(p[2])
    BY DEF TypeOK, Live, Padded
  <2>2. p[1].seq < p[2].seq
    BY <2>1 DEF InOrder
  <2> QED
    BY <2>1, <2>2, PaddedBelow
<1>2. Init => FlagsInv /\ InOrder
  BY FlagsInvInit, InOrderInit
<1>3. TypeOK /\ FlagsInv /\ InOrder /\ [Next]_vars => FlagsInv' /\ InOrder'
  BY FlagsInvNext, InOrderNext
<1> QED
  BY <1>1, <1>2, <1>3, TypesHold, PTL DEF Spec

-----------------------------------------------------------------------------
(* Nobody but testers before the traffic is given *)

\* Flags whose strategies are none but the test strategy or zero.
Dark(flag) == \A i \in DOMAIN flag.general : flag.general[i] = 0

\* A deployment that has come to its general strategy has given the test strategy.
Tested(d) == deploy[d].pc \in {"general", "write", "enable"} => flags[deploy[d].name].test

LEMMA StaysDarkInit == Init => StaysDark
<1> SUFFICES ASSUME Init PROVE StaysDark
  OBVIOUS
<1>1. \A d \in Deployers : deploy[d].pc = "idle"
  BY DEF Init, Idle
<1>2. CASE flags = <<>>
  BY <1>1, <1>2 DEF StaysDark
<1>3. ASSUME NEW v \in Versions, HasAll(v)
      PROVE  StaysDark
  BY <1>1, <1>3 DEF HasAll, StaysDark, FlagName
<1> QED
  BY <1>2, <1>3 DEF Init, HasAll

\* A stored flag keeps the others dark, and what deployments know of them.
LEMMA DarkStore ==
  ASSUME TypeOK, StaysDark, NEW name, NEW flag, Store(name, flag),
         rolled \subseteq rolled',
         flag.enabled => flag.test,
         name \in DOMAIN flags /\ flags[name].test => flag.test,
         name.version \notin rolled' => Dark(flag),
         \A d \in Deployers : deploy'[d] = deploy[d] \/ Tested(d)'
  PROVE  StaysDark'
<1>1. /\ DOMAIN flags' = DOMAIN flags \cup {name}
      /\ flags'[name] = flag
      /\ \A n \in DOMAIN flags : n # name => flags'[n] = flags[n]
  BY Stored
<1>2. \A n \in DOMAIN flags' : flags'[n].enabled => flags'[n].test
  BY <1>1 DEF StaysDark
<1>3. ASSUME NEW d \in Deployers PROVE Tested(d)'
  <2>1. CASE Tested(d)'
    BY <2>1
  <2>2. CASE deploy'[d] = deploy[d] /\ deploy[d].pc \in {"general", "write", "enable"}
    <3>1. deploy[d].name \in DOMAIN flags /\ flags[deploy[d].name].test
      BY <2>2, DeployParts DEF StaysDark
    <3> QED
      BY <1>1, <2>2, <3>1 DEF Tested
  <2> QED
    BY <2>1, <2>2 DEF Tested
<1>4. \A n \in DOMAIN flags' : n.version \notin rolled' => Dark(flags'[n])
  <2> SUFFICES ASSUME NEW n \in DOMAIN flags', n.version \notin rolled' PROVE Dark(flags'[n])
    OBVIOUS
  <2>1. CASE n = name
    BY <1>1, <2>1
  <2>2. CASE n # name
    BY <1>1, <2>2 DEF StaysDark, Dark
  <2> QED
    BY <2>1, <2>2
<1> QED
  BY <1>2, <1>3, <1>4 DEF StaysDark, Tested, Dark

LEMMA DarkStep ==
  ASSUME TypeOK, StaysDark, NEW d \in Deployers, Step(d)
  PROVE  StaysDark'
<1> DEFINE name == deploy[d].name
<1>1. ASSUME NEW x, x.pc \notin {"general", "write", "enable"}, deploy' = [deploy EXCEPT ![d] = x]
      PROVE  \A e \in Deployers : deploy'[e] = deploy[e] \/ Tested(e)'
  BY <1>1 DEF TypeOK, Tested
<1>2. ASSUME NEW x, deploy' = [deploy EXCEPT ![d] = x], UNCHANGED <<flags, rolled>>,
             x.pc \in {"general", "write", "enable"} =>
               x.name = name /\ deploy[d].pc \in {"general", "write", "enable"}
      PROVE  StaysDark'
  <2>1. \A e \in Deployers : deploy'[e] = IF e = d THEN x ELSE deploy[e]
    BY <1>2 DEF TypeOK
  <2> QED
    BY <1>2, <2>1 DEF StaysDark
<1>3. Idle.pc = "idle"
  BY DEF Idle
<1>4. ASSUME deploy[d].pc \notin {"idle", "create"}
      PROVE  /\ name \in DOMAIN flags /\ flags[name] \in Flag
             /\ name.version \notin rolled => Dark(flags[name])
             /\ flags[name].enabled => flags[name].test
  BY <1>4, DeployParts DEF TypeOK, StaysDark, Dark
<1>5. CASE Create(d)
  <2>1. deploy[d].pc = "create" /\ rolled' = rolled
    BY <1>5 DEF Create
  <2> DEFINE x == [deploy[d] EXCEPT !.pc = "test"]  y == [deploy[d] EXCEPT !.pc = "restore"]
  <2>2. x = [pc |-> "test", name |-> name] /\ y = [pc |-> "restore", name |-> name]
    BY <2>1, PcTyped
  <2>3. x.pc = "test" /\ y.pc = "restore"
    BY <2>2
  <2> HIDE DEF x, y
  <2>4. CASE name \notin DOMAIN flags /\ Store(name, NewFlag) /\ deploy' = [deploy EXCEPT ![d] = x]
    <3>1. ~NewFlag.enabled /\ Dark(NewFlag)
      BY DEF NewFlag, Dark
    <3>2. \A e \in Deployers : deploy'[e] = deploy[e] \/ Tested(e)'
      BY <1>1, <2>3, <2>4
    <3> QED
      BY <2>1, <2>4, <3>1, <3>2, DarkStore
  <2>5. CASE UNCHANGED flags /\ deploy' = [deploy EXCEPT ![d] = y]
    BY <1>2, <2>1, <2>3, <2>5
  <2> QED
    BY <1>5, <2>4, <2>5 DEF Create, x, y
<1>6. CASE Restore(d)
  <2>1. deploy[d].pc = "restore" /\ rolled' = rolled
    BY <1>6 DEF Restore
  <2> DEFINE x == [deploy[d] EXCEPT !.pc = "test"]
  <2>2. x.pc = "test"
    BY <2>1, PcTyped
  <2> HIDE DEF x
  <2>3. ASSUME NEW on \in {FALSE, flags[name].enabled}, deploy' = [deploy EXCEPT ![d] = x],
               Store(name, [flags[name] EXCEPT !.live = TRUE, !.enabled = on])
        PROVE  StaysDark'
    <3> DEFINE flag == [flags[name] EXCEPT !.live = TRUE, !.enabled = on]
    <3>1. /\ flag.enabled = on /\ flag.test = flags[name].test
          /\ flag.general = flags[name].general
      BY <1>4, <2>1 DEF Flag
    <3>2. /\ flag.enabled => flag.test
          /\ name.version \notin rolled => Dark(flag)
      BY <1>4, <2>1, <3>1 DEF Dark
    <3>3. Store(name, flag)
      BY <2>3
    <3> HIDE DEF flag
    <3>4. \A e \in Deployers : deploy'[e] = deploy[e] \/ Tested(e)'
      BY <1>1, <2>2, <2>3
    <3> QED
      BY <2>1, <3>1, <3>2, <3>3, <3>4, DarkStore
  <2>4. CASE UNCHANGED flags /\ deploy' = [deploy EXCEPT ![d] = Idle]
    BY <1>2, <1>3, <2>1, <2>4
  <2> QED
    BY <1>6, <2>3, <2>4 DEF Restore, x
<1>7. CASE ApplyTest(d)
  <2>1. deploy[d].pc = "test" /\ rolled' = rolled
    BY <1>7 DEF ApplyTest
  <2> DEFINE flag == [flags[name] EXCEPT !.test = TRUE]
             x == [deploy[d] EXCEPT !.pc = "general"]
  <2>2. flag.test /\ (name.version \notin rolled => Dark(flag))
    BY <1>4, <2>1 DEF Flag, Dark
  <2>3. x.name = name /\ x.pc = "general"
    BY <2>1, PcTyped
  <2>4. Store(name, flag) /\ deploy' = [deploy EXCEPT ![d] = x]
    BY <1>7 DEF ApplyTest
  <2> HIDE DEF flag, x
  <2>5. \A e \in Deployers : deploy'[e] = deploy[e] \/ Tested(e)'
    <3>1. flags'[name] = flag
      BY <2>4, Stored
    <3>2. deploy'[d] = x /\ \A e \in Deployers \ {d} : deploy'[e] = deploy[e]
      BY <2>4 DEF TypeOK
    <3> QED
      BY <2>2, <2>3, <3>1, <3>2 DEF Tested
  <2> QED
    BY <2>1, <2>2, <2>4, <2>5, DarkStore
<1>8. CASE FindGeneral(d)
  BY <1>2, <1>8 DEF FindGeneral
<1>9. ASSUME NEW flag, NEW x, Store(name, flag), deploy' = [deploy EXCEPT ![d] = x], rolled' = rolled,
             deploy[d].pc \in {"write", "enable"},
             flag.test, name.version \notin rolled => Dark(flag),
             x.pc \in {"general", "write", "enable"} => x.name = name
      PROVE  StaysDark'
  <2>1. \A e \in Deployers : deploy'[e] = deploy[e] \/ Tested(e)'
    <3>1. flags'[name] = flag
      BY <1>9, Stored
    <3>2. deploy'[d] = x /\ \A e \in Deployers \ {d} : deploy'[e] = deploy[e]
      BY <1>9 DEF TypeOK
    <3> QED
      BY <1>9, <3>1, <3>2 DEF Tested
  <2> QED
    BY <1>9, <2>1, DarkStore
<1>10. CASE WriteGeneral(d)
  <2>1. deploy[d].pc = "write" /\ rolled' = rolled
    BY <1>10 DEF WriteGeneral
  <2> DEFINE g == flags[name].general  found == deploy[d].found
             flag == [flags[name] EXCEPT !.general = SetGeneral(g, found, 0)]
             x == [pc |-> "enable", name |-> name]
  <2>2. /\ flags[name] \in Flag /\ flags[name].test /\ found \in BOOLEAN
        /\ g \in Seq(0..100) /\ 0 \in 0..100
    <3>1. flags[name] \in Flag /\ found \in BOOLEAN
      BY <1>4, <2>1, DeployParts
    <3>2. flags[name].test
      BY <2>1 DEF StaysDark
    <3> QED
      BY <3>1, <3>2 DEF Flag
  <2>3. \A i \in DOMAIN SetGeneral(g, found, 0) :
          \/ SetGeneral(g, found, 0)[i] = 0
          \/ i \in DOMAIN g /\ SetGeneral(g, found, 0)[i] = g[i]
    <3> HIDE DEF g, found
    <3> QED BY <2>2, SetGeneralOf
  <2>4. flag.test /\ flag.general = SetGeneral(g, found, 0)
    BY <2>2 DEF Flag
  <2>5. name.version \notin rolled => Dark(flag)
    <3>1. name.version \notin rolled => \A i \in DOMAIN g : g[i] = 0
      BY <1>4, <2>1 DEF Dark
    <3> HIDE DEF g, found, flag
    <3> QED BY <2>3, <2>4, <3>1 DEF Dark
  <2>6. Store(name, flag) /\ deploy' = [deploy EXCEPT ![d] = x] /\ x.name = name
    BY <1>10 DEF WriteGeneral
  <2> HIDE DEF flag, x
  <2> QED
    BY <1>9, <2>1, <2>4, <2>5, <2>6
<1>11. CASE Enable(d)
  <2>1. deploy[d].pc = "enable" /\ rolled' = rolled
    BY <1>11 DEF Enable
  <2> DEFINE flag == [flags[name] EXCEPT !.enabled = TRUE]
  <2>2. flag.test /\ (name.version \notin rolled => Dark(flag))
    BY <1>4, <2>1 DEF Flag, StaysDark, Dark
  <2>3. Store(name, flag) /\ deploy' = [deploy EXCEPT ![d] = Idle]
    BY <1>11 DEF Enable
  <2> HIDE DEF flag
  <2> QED
    BY <1>3, <1>9, <2>1, <2>2, <2>3
<1>12. CASE Fail(d)
  BY <1>2, <1>3, <1>12 DEF Fail
<1> QED
  BY <1>5, <1>6, <1>7, <1>8, <1>10, <1>11, <1>12 DEF Step

LEMMA DarkNext ==
  ASSUME TypeOK, StaysDark, [Next]_vars
  PROVE  StaysDark'
<1>1. ASSUME NEW d \in Deployers, NEW v \in Versions, List(d, v) PROVE StaysDark'
  <2>1. ASSUME NEW x, x.pc \notin {"general", "write", "enable"}, deploy' = [deploy EXCEPT ![d] = x]
        PROVE  StaysDark'
    BY <1>1, <2>1 DEF List, StaysDark, TypeOK
  <2> QED
    BY <1>1, <2>1 DEF List
<1>2. ASSUME NEW d \in Deployers, Step(d) PROVE StaysDark'
  BY <1>2, DarkStep
<1>3. ASSUME NEW name \in DOMAIN flags, NEW p \in Percents, SetTraffic(name, p) PROVE StaysDark'
  <2> DEFINE g == flags[name].general  found == flags[name].general # <<>>
             flag == [flags[name] EXCEPT !.general = SetGeneral(g, found, p)]
  <2>1. /\ flags[name] \in Flag /\ g \in Seq(0..100) /\ found \in BOOLEAN /\ p \in 0..100
        /\ flags[name].enabled => flags[name].test
        /\ name.version \notin rolled => \A i \in DOMAIN g : g[i] = 0
    BY UsersAssumption DEF TypeOK, Flag, StaysDark
  <2>2. \A i \in DOMAIN SetGeneral(g, found, p) :
          \/ SetGeneral(g, found, p)[i] = p
          \/ i \in DOMAIN g /\ SetGeneral(g, found, p)[i] = g[i]
    <3>1. g \in Seq(0..100) /\ found \in BOOLEAN /\ p \in 0..100
      BY <2>1
    <3> HIDE DEF g, found
    <3> QED BY <3>1, SetGeneralOf
  <2>3. /\ flag.test = flags[name].test /\ flag.enabled = flags[name].enabled
        /\ flag.general = SetGeneral(g, found, p)
    BY <2>1 DEF Flag
  <2>4. Store(name, flag) /\ deploy' = deploy
        /\ rolled' = IF p > 0 THEN rolled \cup {name.version} ELSE rolled
    BY <1>3 DEF SetTraffic
  <2> HIDE DEF flag, g, found
  <2>5. name.version \notin rolled' => p = 0 /\ name.version \notin rolled
    BY <2>1, <2>4
  <2>6. name.version \notin rolled' => Dark(flag)
    BY <2>1, <2>2, <2>3, <2>5 DEF Dark
  <2> QED
    BY <2>1, <2>3, <2>4, <2>6, DarkStore
<1>4. CASE Archive
  <2> DEFINE name == removal.name  flag == [flags[name] EXCEPT !.live = FALSE]
  <2>1. name \in DOMAIN flags /\ flags[name] \in Flag /\ UNCHANGED <<deploy, rolled>>
    BY <1>4 DEF Archive, TypeOK
  <2>2. /\ flag.test = flags[name].test /\ flag.enabled = flags[name].enabled
        /\ flag.general = flags[name].general
    BY <2>1 DEF Flag
  <2>3. CASE Store(name, flag)
    <3>1. flag.enabled => flag.test
      BY <2>1, <2>2 DEF StaysDark
    <3>2. name.version \notin rolled => Dark(flag)
      BY <2>1, <2>2 DEF StaysDark, Dark
    <3> HIDE DEF flag, name
    <3> QED
      BY <2>1, <2>2, <2>3, <3>1, <3>2, DarkStore
  <2>4. CASE UNCHANGED flags
    BY <2>1, <2>4 DEF StaysDark
  <2> QED
    BY <1>4, <2>3, <2>4 DEF Archive
<1>5. ASSUME NEW v \in Versions, FindFlag(v) PROVE StaysDark'
  BY <1>5 DEF FindFlag, StaysDark
<1>6. CASE Refresh \/ UNCHANGED vars
  BY <1>6 DEF Refresh, vars, StaysDark
<1> QED
  BY <1>1, <1>2, <1>3, <1>4, <1>5, <1>6 DEF Next

\* A version is deployed dark: whatever order requests come and fail in, and
\* whatever is restored, nobody but a tester is sent to a version before it was once
\* given traffic.
THEOREM VersionsAreDeployedDark == Spec => []DarkUntilRolled
<1>1. Init => DarkUntilRolled
  BY UsersAssumption DEF Init, DarkUntilRolled
<1>2. TypeOK /\ StaysDark /\ DarkUntilRolled /\ [Next]_vars => DarkUntilRolled'
  <2> SUFFICES ASSUME TypeOK, StaysDark, DarkUntilRolled, [Next]_vars, NEW u \in Users \ Testers
               PROVE  pick'[u] \in rolled' \cup {Default}
    BY DEF DarkUntilRolled
  <2>1. CASE Refresh
    <3>1. pick'[u] \in VersionFor(u) /\ rolled' = rolled
      BY <2>1 DEF Refresh
    <3>2. ASSUME NEW n \in OnFor(u) PROVE n.version \in rolled
      <4>1. n \in DOMAIN flags /\ flags[n] \in Flag /\ Admits(n, flags[n], u)
        BY <3>2 DEF OnFor, Live, TypeOK
      <4>2. flags[n].test
        BY <4>1 DEF Admits, StaysDark
      <4>3. PICK i \in DOMAIN flags[n].general : Bucket[u][n.version] <= flags[n].general[i]
        BY <4>1, <4>2 DEF Admits
      <4>4. Bucket[u][n.version] \in 1..100
        BY <4>1, UsersAssumption DEF TypeOK, FlagNames
      <4>5. flags[n].general[i] # 0
        BY <4>3, <4>4
      <4> QED
        BY <4>1, <4>5 DEF StaysDark
    <3> QED
      BY <3>1, <3>2 DEF VersionFor, Newest
  <2>2. CASE UNCHANGED pick /\ rolled \subseteq rolled'
    BY <2>2 DEF DarkUntilRolled
  <2>3. Refresh \/ (UNCHANGED pick /\ rolled \subseteq rolled')
    BY DEF Next, Step, vars, List, Create, Restore, ApplyTest, FindGeneral, WriteGeneral, Enable,
           Fail, SetTraffic, FindFlag, Archive
  <2> QED
    BY <2>1, <2>2, <2>3
<1>3. TypeOK /\ StaysDark /\ [Next]_vars => StaysDark'
  BY DarkNext
<1>4. Init => StaysDark
  BY StaysDarkInit
<1> QED
  BY <1>1, <1>2, <1>3, <1>4, TypesHold, PTL DEF Spec

=============================================================================
