------------------------------ MODULE VersionFlags ------------------------------
(***************************************************************************)
(* The feature flags of one workflow's versions (toolbox,                  *)
(* infra/feature-flag-config.ts, and feature-flag-client): deployments     *)
(* create, restore and enable them, rollouts set their traffic, rollbacks  *)
(* archive them, and a client with a cache of its own picks the version a  *)
(* user starts on.                                                         *)
(*                                                                         *)
(* A flag's name holds a sequence number and the version, and nothing else *)
(* says which version is newer.  The number is read off the flags that are *)
(* there and claimed by a later request, so what other deployments do in   *)
(* between matters.                                                        *)
(***************************************************************************)
EXTENDS Naturals, FiniteSets, Sequences

CONSTANTS
  Versions,    \* ids of versions: commits or branches
  Rank,        \* the alphabetical place of an id
  EndsWith,    \* EndsWith[v]: the ids that end with v's
  Deployers,   \* attempts of the activity that may be under way at once
  Users,       \* users who start workflows
  Testers,     \* those whose context says isTest
  Bucket,      \* Bucket[u][v]: where u falls among the 100 percent of v's flag
  Default,     \* what the client answers when no flag is on
  Percents,    \* the percents a rollout or an operator sets
  Base, Width, \* sequence numbers have at least Width digits of base Base
  FirstSeq,    \* the number of the flag there is at the start, if any
  MaxDeploys,  \* bounds the deployments and their attempts
  MaxRemovals  \* bounds the rollbacks

ASSUME VersionsAssumption ==
  /\ Rank \in [Versions -> Nat]
  /\ \A v, w \in Versions : Rank[v] = Rank[w] => v = w
  /\ EndsWith \in [Versions -> SUBSET Versions]
  /\ \A v \in Versions : v \in EndsWith[v]

ASSUME UsersAssumption ==
  /\ Testers \subseteq Users
  /\ Bucket \in [Users -> [Versions -> 1..100]]
  /\ Percents \subseteq 0..100

ASSUME NumbersAssumption ==
  /\ Base \in Nat \ {0, 1}
  /\ Width \in Nat \ {0}
  /\ Base ^ Width \in Nat
  /\ FirstSeq \in Nat
  /\ MaxDeploys \in Nat
  /\ MaxRemovals \in Nat

ASSUME DefaultAssumption == Default \notin Versions

VARIABLES
  flags,     \* what Unleash stores, by name
  deploy,    \* where each deployment is and what it has read
  deploys,   \* attempts begun
  removals,  \* rollbacks begun
  removal,   \* where a rollback is, and the name it found
  pick,      \* what the client answers for each user, from the flags it fetched last
  older,     \* history: pairs of live flags, of which the first was made first
  met,       \* history: pairs of versions that were to be created at once
  rolled     \* history: versions that were ever given traffic

vars == <<flags, deploy, deploys, removals, removal, pick, older, met, rolled>>

-----------------------------------------------------------------------------
(* Names *)

\* workflow.<name>.seqId.<seqId>.version.<versionId>, and its parts.
FlagNames == [seq : Nat, version : Versions]
FlagName(v, n) == [seq |-> n, version |-> v]

\* The digits of a number, padded.
Digits(n) == IF n < Base ^ Width
             THEN Width
             ELSE CHOOSE k \in Width..(Width + n) : n < Base ^ k /\ n >= Base ^ (k - 1)

\* Numbers compare as text: digit by digit, and one that goes on is above.
NumberBelow(n, m) ==
  \/ Digits(n) = Digits(m) /\ n < m
  \/ Digits(n) < Digits(m) /\ n <= m \div (Base ^ (Digits(m) - Digits(n)))
  \/ Digits(n) > Digits(m) /\ n \div (Base ^ (Digits(n) - Digits(m))) < m

\* R.descend(R.prop('name')): the order in which flags are looked through.
NameBelow(f, g) ==
  \/ f.seq # g.seq /\ NumberBelow(f.seq, g.seq)
  \/ f.seq = g.seq /\ Rank[f.version] < Rank[g.version]

\* The first of them, as a set that is empty if there is none.
Newest(names) == {f \in names : \A g \in names \ {f} : NameBelow(g, f)}

-----------------------------------------------------------------------------
(* Flags *)

Flag == [live    : BOOLEAN,      \* not archived
         enabled : BOOLEAN,
         test    : BOOLEAN,      \* has the strategy for test traffic
         general : Seq(0..100)]  \* strategies "All other traffic", first first

Live == {n \in DOMAIN flags : flags[n].live}

Store(name, flag) ==
  flags' = [n \in DOMAIN flags \cup {name} |-> IF n = name THEN flag ELSE flags[n]]

\* Unleash: a flag is on when it is enabled and a strategy admits the user; one
\* that has no strategy admits everybody.
Admits(name, flag, u) ==
  /\ flag.enabled
  /\ \/ flag.test /\ u \in Testers
     \/ \E i \in DOMAIN flag.general : Bucket[u][name.version] <= flag.general[i]
     \/ ~flag.test /\ flag.general = <<>>

\* getWorkflowTaskQueue: the newest flag that is on for the user.  The queue is
\* that of the flag's version; with no such flag it is the caller's default.
OnFor(u) == {n \in Live : Admits(n, flags[n], u)}
VersionFor(u) == IF OnFor(u) = {} THEN {Default} ELSE {n.version : n \in Newest(OnFor(u))}

-----------------------------------------------------------------------------
(* applyWorkflowVersionFlag, one request after the other *)

Idle == [pc |-> "idle"]

\* Wrong on purpose: the newest flag's number is taken again.
SameSeq == IF Live = {} THEN {0} ELSE {n.seq : n \in Newest(Live)}

\* incrementSeqId on the newest flag, or 000.
NextSeq == IF Live = {} THEN {0} ELSE {n.seq + 1 : n \in Newest(Live)}

\* Wrong on purpose: only the newest flag is looked at.
OfVersionIfNewest(v) == {n \in Newest(Live) : n.version = v}

\* applyWorkflowVersionFlag looks for the version among all the flags there are.
OfVersion(v) == {n \in Live : n.version = v}

\* The versions of which a flag is about to be created or restored.
Creating ==
  {deploy[d].name.version : d \in {e \in Deployers : deploy[e].pc \in {"create", "restore"}}}

\* An attempt begins with the list of flags: a version that has one keeps it.
List(d, v) ==
  /\ deploy[d] = Idle
  /\ deploys < MaxDeploys
  /\ deploys' = deploys + 1
  /\ \/ /\ \E name \in Newest(OfVersion(v)) :
             deploy' = [deploy EXCEPT ![d] = [pc |-> "test", name |-> name]]
        /\ UNCHANGED met
     \/ /\ OfVersion(v) = {}
        /\ \E n \in NextSeq :
             deploy' = [deploy EXCEPT ![d] = [pc |-> "create", name |-> FlagName(v, n)]]
        /\ met' = met \cup ({v} \X Creating) \cup (Creating \X {v})
  /\ UNCHANGED <<flags, removals, removal, pick, older, rolled>>

\* Wrong on purpose: a flag is enabled before it has its strategies.
EnabledAtOnce == [live |-> TRUE, enabled |-> TRUE, test |-> FALSE, general |-> <<>>]

NewFlag == [live |-> TRUE, enabled |-> FALSE, test |-> FALSE, general |-> <<>>]

\* createFlag: a new flag is disabled and has no strategies.  The name of a flag
\* that exists or is archived is refused with 409.
Create(d) ==
  LET name == deploy[d].name
  IN  /\ deploy[d].pc = "create"
      /\ \/ /\ name \notin DOMAIN flags
            /\ Store(name, NewFlag)
            /\ older' = older \cup (Live \X {name})
            /\ deploy' = [deploy EXCEPT ![d].pc = "test"]
         \/ /\ name \in DOMAIN flags
            /\ deploy' = [deploy EXCEPT ![d].pc = "restore"]
            /\ UNCHANGED <<flags, older>>
      /\ UNCHANGED <<deploys, removals, removal, pick, met, rolled>>

\* restoreArchivedFlag: the flag has the strategies it had; whether Unleash brings
\* it back enabled is not for this code to say.  A flag that was not archived is an
\* error.
Restore(d) ==
  LET name == deploy[d].name
  IN  /\ deploy[d].pc = "restore"
      /\ \/ /\ ~flags[name].live
            /\ \E on \in {FALSE, flags[name].enabled} :
                 Store(name, [flags[name] EXCEPT !.live = TRUE, !.enabled = on])
            /\ older' = older \cup (Live \X {name})
            /\ deploy' = [deploy EXCEPT ![d].pc = "test"]
         \/ /\ flags[name].live
            /\ deploy' = [deploy EXCEPT ![d] = Idle]
            /\ UNCHANGED <<flags, older>>
      /\ UNCHANGED <<deploys, removals, removal, pick, met, rolled>>

\* applyFlagStrategy for the test strategy, which is the same whoever writes it.
ApplyTest(d) ==
  LET name == deploy[d].name
  IN  /\ deploy[d].pc = "test"
      /\ flags[name].live
      /\ Store(name, [flags[name] EXCEPT !.test = TRUE])
      /\ deploy' = [deploy EXCEPT ![d].pc = "general"]
      /\ UNCHANGED <<deploys, removals, removal, pick, older, met, rolled>>

\* applyFlagStrategy for all other traffic, at 0%: it looks for a strategy of that
\* title and then replaces the one it found or adds one.
FindGeneral(d) ==
  LET name == deploy[d].name
  IN  /\ deploy[d].pc = "general"
      /\ flags[name].live
      /\ deploy' = [deploy EXCEPT ![d] =
                      [pc |-> "write", name |-> name,
                       found |-> flags[name].general # <<>>]]
      /\ UNCHANGED <<flags, deploys, removals, removal, pick, older, met, rolled>>

SetGeneral(general, found, p) == IF found THEN [general EXCEPT ![1] = p] ELSE Append(general, p)

WriteGeneral(d) ==
  LET name == deploy[d].name
  IN  /\ deploy[d].pc = "write"
      /\ flags[name].live
      /\ Store(name, [flags[name] EXCEPT !.general = SetGeneral(@, deploy[d].found, 0)])
      /\ deploy' = [deploy EXCEPT ![d] = [pc |-> "enable", name |-> name]]
      /\ UNCHANGED <<deploys, removals, removal, pick, older, met, rolled>>

Enable(d) ==
  LET name == deploy[d].name
  IN  /\ deploy[d].pc = "enable"
      /\ flags[name].live
      /\ Store(name, [flags[name] EXCEPT !.enabled = TRUE])
      /\ deploy' = [deploy EXCEPT ![d] = Idle]
      /\ UNCHANGED <<deploys, removals, removal, pick, older, met, rolled>>

\* Any request can fail, whether or not it was carried out, and the activity with
\* it; the service may then begin again.
Fail(d) ==
  /\ deploy[d] # Idle
  /\ deploy' = [deploy EXCEPT ![d] = Idle]
  /\ UNCHANGED <<flags, deploys, removals, removal, pick, older, met, rolled>>

-----------------------------------------------------------------------------
(* Traffic, rollback and the client *)

\* applyWorkflowTrafficRouting by a rollout, or an operator.  (The two requests of
\* a rollout are apart in module Rollout.)
SetTraffic(name, p) ==
  /\ flags[name].live
  /\ Store(name, [flags[name] EXCEPT !.general = SetGeneral(@, @ # <<>>, p)])
  /\ rolled' = IF p > 0 THEN rolled \cup {name.version} ELSE rolled
  /\ UNCHANGED <<deploy, deploys, removals, removal, pick, older, met>>

\* deleteWorkflowVersionFlag: the flags whose name ends with the version's id; none
\* or several is an error.
FindFlag(v) ==
  /\ removal = Idle
  /\ removals < MaxRemovals
  /\ removals' = removals + 1
  /\ LET found == {n \in Live : n.version \in EndsWith[v]}
     IN  \E name \in found :
           /\ found = {name}
           /\ removal' = [pc |-> "archive", name |-> name]
  /\ UNCHANGED <<flags, deploy, deploys, pick, older, met, rolled>>

Archive ==
  LET name == removal.name
  IN  /\ removal.pc = "archive"
      /\ \/ /\ flags[name].live
            /\ Store(name, [flags[name] EXCEPT !.live = FALSE])
            /\ older' = {p \in older : name \notin {p[1], p[2]}}
         \/ UNCHANGED <<flags, older>>   \* refused, or lost on its way
      /\ removal' = Idle
      /\ UNCHANGED <<deploy, deploys, removals, pick, met, rolled>>

\* The client polls once a second, when it can; it sees no archived flags.  What it
\* keeps of them is here the answers they give.
Refresh ==
  /\ pick' \in [Users -> Versions \cup {Default}]
  /\ \A u \in Users : pick'[u] \in VersionFor(u)
  /\ UNCHANGED <<flags, deploy, deploys, removals, removal, older, met, rolled>>

-----------------------------------------------------------------------------
\* Either the workflow is new or one version of it has all the traffic.  The
\* client has no flags yet, as when it could not be made.
Init ==
  /\ \/ /\ flags = <<>>
        /\ rolled = {}
     \/ \E v \in Versions :
          /\ flags = [n \in {FlagName(v, FirstSeq)} |->
                        [live |-> TRUE, enabled |-> TRUE, test |-> TRUE, general |-> <<100>>]]
          /\ rolled = {v}
  /\ deploy = [d \in Deployers |-> Idle]
  /\ deploys = 0
  /\ removals = 0
  /\ removal = Idle
  /\ pick = [u \in Users |-> Default]
  /\ older = {}
  /\ met = {}

Step(d) ==
  \/ Create(d)
  \/ Restore(d)
  \/ ApplyTest(d)
  \/ FindGeneral(d)
  \/ WriteGeneral(d)
  \/ Enable(d)
  \/ Fail(d)

Next ==
  \/ \E d \in Deployers, v \in Versions : List(d, v)
  \/ \E d \in Deployers : Step(d)
  \/ \E name \in DOMAIN flags, p \in Percents : SetTraffic(name, p)
  \/ \E v \in Versions : FindFlag(v)
  \/ Archive
  \/ Refresh

Spec == Init /\ [][Next]_vars

-----------------------------------------------------------------------------
(* Properties *)

DeployType == [pc : {"idle"}]
  \cup [pc : {"create", "restore", "test", "general", "enable"}, name : FlagNames]
  \cup [pc : {"write"}, name : FlagNames, found : BOOLEAN]

\* Every variable has its type; a deployment past its creation and a rollback that
\* found a flag hold the name of one that is stored.
TypeOK ==
  /\ DOMAIN flags \subseteq FlagNames
  /\ \A n \in DOMAIN flags : flags[n] \in Flag
  /\ pick \in [Users -> Versions \cup {Default}]
  /\ deploy \in [Deployers -> DeployType]
  /\ \A d \in Deployers : deploy[d].pc \notin {"idle", "create"} =>
                            deploy[d].name \in DOMAIN flags
  /\ deploys \in 0..MaxDeploys
  /\ removals \in 0..MaxRemovals
  /\ removal \in [pc : {"idle"}] \cup [pc : {"archive"}, name : DOMAIN flags]
  /\ older \subseteq Live \X Live
  /\ met \subseteq Versions \X Versions
  /\ rolled \subseteq Versions

\* deleteWorkflowVersionFlag refuses a version that has two flags, so it must have
\* one only.  It has, through failures, retries, rollbacks and redeployments, unless
\* two deployments of it were about to create its flag at once.
OneFlagPerVersion ==
  \A v \in Versions : <<v, v>> \in met \/ Cardinality({n \in Live : n.version = v}) <= 1

\* "Sort descending because we want the latest": unless creations met, and as long
\* as the numbers have the digits they are padded to, flags sort as they were made.
NewestFirst ==
  met = {} /\ (\A n \in Live : n.seq < Base ^ Width) =>
    \A p \in older : NameBelow(p[1], p[2])

\* "Deploy dark": whatever order requests come and fail in, the client picks a
\* version for somebody who is no tester only after it was once given traffic.
DarkUntilRolled == \A u \in Users \ Testers : pick[u] \in rolled \cup {Default}

=============================================================================
