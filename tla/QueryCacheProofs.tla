-------------------------- MODULE QueryCacheProofs --------------------------
(***************************************************************************)
(* Proofs about QueryCache: at rest a component and the global state show  *)
(* what belongs to the component's parameters, and a dialog that has       *)
(* closed by itself shows what it has written, for every query and every   *)
(* command of the dashboard and however often a parameter changes.         *)
(*                                                                         *)
(* The first part is about the tables of DashboardPages: what a key leaves *)
(* out of the parameters, and that only forms of components that keep an   *)
(* answer in the global state put one there.                               *)
(***************************************************************************)
EXTENDS QueryCache, TLAPS

(* What a key may leave out.                                               *)
KeyNearlyWhole(r) ==
  r.call \ r.by \subseteq
    { "org" } \cup (IF r.name = "fetchDeploymentTerminalRecords" THEN { "namespace" } ELSE {})

Courses == { Awaited, Unawaited, Late, Forgotten, Keeping }

Sound(v) ==
  /\ \A r \in v.reads : KeyNearlyWhole(r)
  /\ \A c \in v.commands : c.steps \in Courses
  /\ (\E c \in v.commands : c.steps = Keeping) => \A r \in v.reads : r.keeps # "nothing"

(* Every component of DashboardPages.                                      *)
LEMMA TablesAreSound == \A v \in AllViews : Sound(v)
<1> USE DEF Sound, KeyNearlyWhole, Courses, Awaited, Unawaited, Late, Forgotten, Keeping,
        View, UseFetchApiTokens, Command, UseFetchClusters, UseFetchOrganizations, Read,
        ClusterMemberApi, UseFetchOrganizationMembers, UserApi, DeploymentApi,
        UseFetchDeploymentRevisions, BentoRepositoryApi, ModelRepositoryApi, ModelApi,
        UseFetchYataiComponents, BentoApi, UseFetchOrganizationModelModules,
        OrganizationApi, UseFetchModel, UseFetchBento, UseFetchDeployment,
        DeploymentRevisionApi, Display, NewsApi, InOrg, ClusterApi, KeptInState,
        ClusterQuery, UseFetchInfo, BentoRepositoryQuery,
        UseFetchOrganizationYataiComponents, VersionApi, UseFetchOrganizationMajorCluster,
        UseFetchBentoOptional, ApiTokenApi, OrganizationMemberApi, YataiComponentApi
<1>1. Sound(ApiTokenListCard) /\ Sound(ClusterListCard) /\ Sound(OrganizationListCard) /\
      Sound(ClusterMemberListCard)
  BY DEF ApiTokenListCard, ClusterListCard, OrganizationListCard, ClusterMemberListCard
<1>2. Sound(OrganizationMemberListCard) /\ Sound(UserListCard) /\
      Sound(DeploymentTerminalRecordList) /\ Sound(DeploymentRevisionListCard)
  BY DEF OrganizationMemberListCard, UserListCard, DeploymentTerminalRecordList,
         DeploymentRevisionListCard
<1>3. Sound(DeploymentListCard) /\ Sound(BentoRepositoryDeployments) /\
      Sound(ModelRepositoryListCard) /\ Sound(ModelListCard)
  BY DEF DeploymentListCard, BentoRepositoryDeployments, ModelRepositoryListCard,
         ModelListCard
<1>4. Sound(YataiComponents)
  BY DEF YataiComponents
<1>5. Sound(BentoListCard) /\ Sound(BentoFlatListCard) /\ Sound(ModelFlatListCard) /\
      Sound(BentoRepositoryListCard)
  BY DEF BentoListCard, BentoFlatListCard, ModelFlatListCard, BentoRepositoryListCard
<1>6. Sound(EventListCard) /\ Sound(ModelOverview) /\ Sound(BentoOverview) /\
      Sound(DeploymentOverview)
  BY DEF EventListCard, ModelOverview, BentoOverview, DeploymentOverview
<1>7. Sound(DeploymentEdit) /\ Sound(RevisionRollback) /\ Sound(DeploymentRevisions) /\
      Sound(Home)
  BY DEF DeploymentEdit, RevisionRollback, DeploymentRevisions, Home
<1>8. Sound(ClusterSelector) /\ Sound(BentoRepositorySelector) /\ Sound(BentoSelector) /\
      Sound(ModelRepositorySelector)
  BY DEF ClusterSelector, BentoRepositorySelector, BentoSelector, ModelRepositorySelector
<1>9. Sound(UserSelector) /\ Sound(ModelSelector) /\ Sound(ClusterLayout) /\
      Sound(ClusterSidebar)
  BY DEF UserSelector, ModelSelector, ClusterLayout, ClusterSidebar
<1>10. Sound(BentoRepositoryLayout) /\ Sound(BentoRepositorySidebar) /\
      Sound(ModelRepositorySidebar) /\ Sound(BentoLayout)
  BY DEF BentoRepositoryLayout, BentoRepositorySidebar, ModelRepositorySidebar,
         BentoLayout
<1>11. Sound(ModelLayout) /\ Sound(DeploymentSidebar) /\ Sound(OrganizationSidebar) /\
      Sound(BaseSidebar)
  BY DEF ModelLayout, DeploymentSidebar, OrganizationSidebar, BaseSidebar
<1>12. Sound(DeploymentLayout) /\ Sound(Header) /\ Sound(ClusterSettings) /\
      Sound(OrganizationSettings)
  BY DEF DeploymentLayout, Header, ClusterSettings, OrganizationSettings
<1>13. Sound(BentoRepositoryOverview) /\ Sound(LokiLogQueries) /\ Sound(PodMonitorQueries)
  BY DEF BentoRepositoryOverview, LokiLogQueries, PodMonitorQueries
<1> HIDE DEF Sound
<1> QED BY <1>1, <1>2, <1>3, <1>4, <1>5, <1>6, <1>7, <1>8, <1>9, <1>10, <1>11, <1>12,
        <1>13 DEF AllViews

-----------------------------------------------------------------------------
(* What is left of a command's steps.                                      *)
Rests(s) ==
  { s, << >> } \cup
  (IF s = Awaited
   THEN { << "refetch", "await", "close" >>, << "await", "close" >>, << "close" >> } ELSE {}) \cup
  (IF s = Unawaited THEN { << "refetch", "close" >>, << "close" >> } ELSE {}) \cup
  (IF s = Late THEN { << "close", "refetch" >>, << "refetch" >> } ELSE {}) \cup
  (IF s = Forgotten THEN { << "close" >> } ELSE {}) \cup
  (IF s = Keeping THEN { << "keep" >> } ELSE {})

Values == [Parameters -> { 1, 2 }]
Keyed(d) == d.with \in Values /\ d.key = KeyOf(d.with) /\ d.version \in Nat
Requests == [key : [R.by -> { 1, 2 }], with : Values, read : BOOLEAN, version : Nat]

(* Answers and requests belong to their keys, each key has one of them, a  *)
(* component that keeps nothing in the global state has nothing there.     *)
Filed ==
  /\ subject \in Subjects /\ params \in Values /\ version \in Nat
  /\ \A d \in store : Keyed(d)
  /\ \A f \in asking : f \in Requests /\ f.key = KeyOf(f.with)
  /\ \A d, e \in store : d.key = e.key => d = e
  /\ \A f, g \in asking : f.key = g.key => f = g
  /\ command \in [todo : Rests(subject.command.steps), with : Values, joined : BOOLEAN,
                  failed : BOOLEAN, wrote : Nat]
  /\ \A g, h \in held : g = h
  /\ R.keeps = "nothing" => held = {}

(* The dialog of a command under way or done, with the parameters that are *)
(* on display.                                                             *)
Dialog == box \in { "busy", "done" }

(* A command that has not joined an older request waits for one of its     *)
(* own: no answer to it is older than what the command has written ...     *)
Fresh ==
  (/\ Dialog /\ subject.command.steps = Awaited /\ ~command.joined
   /\ command.wrote > 0 /\ ~Next1("refetch"))
    => \A f \in asking : f.key = KeyOf(params) /\ f.read => f.version >= command.wrote

(* ... and once it has come, that is what the component shows.             *)
Landed ==
  (/\ Dialog /\ subject.command.steps = Awaited /\ ~command.joined /\ ~command.failed
   /\ command.wrote > 0 /\ ~Next1("refetch") /\ ~Next1("await"))
    => \E d \in Shown : d.version >= command.wrote

Ordered ==
  /\ box \in { "none", "open", "busy", "done" } /\ command.wrote <= version
  /\ box = "open" => command.todo = << >>
  /\ command.todo # << >> => (Next1("write") <=> command.wrote = 0)
  /\ box = "done" => command.wrote > 0
  /\ box = "done" /\ subject.command.steps = Awaited => command.todo = << >>
  /\ Dialog => command.with = params

CacheInv == Filed /\ Ordered /\ Fresh /\ Landed

LEMMA SubjectIsSound ==
  ASSUME NEW s \in Subjects
  PROVE  /\ KeyNearlyWhole(s.read) /\ s.command.steps \in Courses \cup { << >> }
         /\ s.command.steps = Keeping => s.read.keeps # "nothing"
<1>1. PICK v \in AllViews : /\ s.read \in v.reads
                            /\ s.command \in v.commands \/ s.command = NoCommand
  BY DEF Subjects
<1>2. /\ \A r \in v.reads : KeyNearlyWhole(r)
      /\ \A c \in v.commands : c.steps \in Courses
      /\ \A c \in v.commands, r \in v.reads : c.steps = Keeping => r.keeps # "nothing"
  BY TablesAreSound DEF Sound
<1>3. NoCommand.steps = << >> /\ << >> # Keeping
  BY DEF NoCommand, Command, Keeping
<1>4. KeyNearlyWhole(s.read)
  BY <1>1, <1>2
<1>5. s.command.steps \in Courses \cup { << >> }
  BY <1>1, <1>2, <1>3
<1>6. s.command.steps = Keeping => s.read.keeps # "nothing"
  BY <1>1, <1>2, <1>3
<1> QED BY <1>4, <1>5, <1>6

LEMMA CoursesDiffer ==
  /\ Awaited \notin { << >>, Unawaited, Late, Forgotten, Keeping }
  /\ Unawaited \notin { << >>, Late, Forgotten, Keeping }
  /\ Late \notin { << >>, Forgotten, Keeping }
  /\ Forgotten \notin { << >>, Keeping } /\ Keeping # << >>
BY DEF Awaited, Unawaited, Late, Forgotten, Keeping

LEMMA RestsAre ==
  /\ Rests(<< >>) = { << >> }
  /\ Rests(Awaited) = { Awaited, << "refetch", "await", "close" >>, << "await", "close" >>,
                        << "close" >>, << >> }
  /\ Rests(Unawaited) = { Unawaited, << "refetch", "close" >>, << "close" >>, << >> }
  /\ Rests(Late) = { Late, << "close", "refetch" >>, << "refetch" >>, << >> }
  /\ Rests(Forgotten) = { Forgotten, << "close" >>, << >> }
  /\ Rests(Keeping) = { Keeping, << "keep" >>, << >> }
BY CoursesDiffer DEF Rests

(* The step after the next one.                                            *)
Moved(s, t) ==
  /\ Tail(t) \in Rests(s)
  /\ Tail(t) # << >> => Head(Tail(t)) # "write"
  /\ Head(t) = "keep" => s = Keeping
  /\ s = Awaited =>
       /\ Head(t) = "write" => Tail(t) # << >> /\ Head(Tail(t)) = "refetch"
       /\ Head(t) = "refetch" => Tail(t) # << >> /\ Head(Tail(t)) = "await"
       /\ Head(t) = "close" => Tail(t) = << >>

LEMMA Onward ==
  ASSUME NEW s \in Courses \cup { << >> }, NEW t \in Rests(s), t # << >>
  PROVE  Moved(s, t)
<1>1. /\ Moved(Awaited, Awaited) /\ Moved(Awaited, << "refetch", "await", "close" >>)
      /\ Moved(Awaited, << "await", "close" >>) /\ Moved(Awaited, << "close" >>)
  BY RestsAre DEF Moved, Awaited
<1>2. /\ Moved(Unawaited, Unawaited) /\ Moved(Unawaited, << "refetch", "close" >>)
      /\ Moved(Unawaited, << "close" >>)
  BY RestsAre, CoursesDiffer DEF Moved, Unawaited
<1>3. /\ Moved(Late, Late) /\ Moved(Late, << "close", "refetch" >>)
      /\ Moved(Late, << "refetch" >>)
  BY RestsAre, CoursesDiffer DEF Moved, Late
<1>4. Moved(Forgotten, Forgotten) /\ Moved(Forgotten, << "close" >>)
  BY RestsAre, CoursesDiffer DEF Moved, Forgotten
<1>5. Moved(Keeping, Keeping) /\ Moved(Keeping, << "keep" >>)
  BY RestsAre, CoursesDiffer DEF Moved, Keeping
<1> QED BY <1>1, <1>2, <1>3, <1>4, <1>5, RestsAre DEF Courses

-----------------------------------------------------------------------------
LEMMA CommandOnward ==
  ASSUME Filed, command.todo # << >>
  PROVE  Moved(subject.command.steps, command.todo)
BY SubjectIsSound, Onward DEF Filed

(* Which steps a command may be left with is settled by its view.          *)
LEMMA Starts ==
  ASSUME Filed
  PROVE  /\ << >> \in Rests(subject.command.steps)
         /\ subject.command.steps \in Rests(subject.command.steps)
         /\ command.todo # << >> => Tail(command.todo) \in Rests(subject.command.steps)
BY CommandOnward DEF Rests, Moved

LEMMA InitFiled == CacheInit => Filed
<1> SUFFICES ASSUME CacheInit PROVE Filed
  OBVIOUS
<1>1. params \in Values /\ command = [todo |-> << >>, with |-> params, joined |-> FALSE,
                                    failed |-> FALSE, wrote |-> 0]
  BY DEF CacheInit, Values, Idle
<1>2. << >> \in Rests(subject.command.steps)
  BY DEF Rests
<1>3. \A f \in asking : f \in Requests /\ f.key = KeyOf(f.with)
  <2> DEFINE new == [key |-> KeyOf(params), with |-> params, read |-> FALSE, version |-> 0]
  <2>1. new \in Requests /\ new.key = KeyOf(new.with)
    BY <1>1 DEF Requests, KeyOf, Values, Parameters
  <2> QED BY <2>1 DEF CacheInit
<1> QED BY <1>1, <1>2, <1>3 DEF CacheInit, Filed

(* Requests under way, by what they ask.                                   *)
LEMMA AskFiles ==
  ASSUME Filed, subject' = subject, NEW ps \in Values, NEW k, k = KeyOf(ps),
         asking' = Ask(k, ps)
  PROVE  /\ \A f \in asking' : f \in Requests /\ f.key = KeyOf(f.with)
         /\ \A f, g \in asking' : f.key = g.key => f = g
<1> DEFINE new == [key |-> k, with |-> ps, read |-> FALSE, version |-> 0]
<1>1. new \in Requests /\ new.key = KeyOf(new.with)
  BY DEF Requests, KeyOf, Values, Parameters
<1>2. CASE asking' = asking
  BY <1>2 DEF Filed
<1>3. CASE asking' = asking \cup { new } /\ \A f \in asking : f.key # k
  BY <1>1, <1>3 DEF Filed
<1> QED BY <1>2, <1>3 DEF Ask

LEMMA FiledKept ==
  ASSUME Filed, [CacheNext]_cacheVars
  PROVE  Filed'
<1>1. subject' = subject /\ Values' = Values /\ Requests' = Requests
  BY DEF CacheNext, cacheVars, Focus, Effect, OpenForm, CloseForm, Submit, Write, WriteFails,
         Refetch, KeepWritten, Close, Turn, Visit, ServerReads, Answered, Failed, Values,
         Parameters, R, Requests
<1>2. CASE Focus
  BY <1>1, <1>2, AskFiles DEF Focus, Filed, Keyed, KeyOf, R
<1>3. CASE Effect
  <2>1. \A g, h \in Keep : g = h
    BY DEF Keep, Shown, Filed
  <2>2. R.keeps = "nothing" => Keep = held
    BY DEF Keep
  <2> QED BY <1>1, <1>3, <2>1, <2>2 DEF Effect, Filed, Keyed, KeyOf, R
<1>4. CASE OpenForm \/ CloseForm
  BY <1>1, <1>4 DEF OpenForm, CloseForm, Filed, Keyed, KeyOf, R
<1>5. CASE Submit
  BY <1>1, <1>5, Starts DEF Submit, Idle, Filed, Keyed, KeyOf, R
<1>6. CASE Write \/ WriteFails
  <2>1. command' \in [todo : Rests(subject.command.steps), with : Values, joined : BOOLEAN,
                     failed : BOOLEAN, wrote : Nat]
    <3>1. CASE Write
      <4>1. version + 1 \in Nat /\ Tail(command.todo) \in Rests(subject.command.steps)
        BY <3>1, Starts DEF Write, Next1, Filed
      <4> QED BY <3>1, <4>1 DEF Write, Filed
    <3>2. CASE WriteFails
      BY <3>2, Starts DEF WriteFails, Filed
    <3> QED BY <1>6, <3>1, <3>2
  <2> QED BY <1>1, <1>6, <2>1 DEF Write, WriteFails, Filed, Keyed, KeyOf, R
<1>7. CASE Refetch
  BY <1>1, <1>7, Starts, AskFiles DEF Refetch, Next1, Filed, Keyed, KeyOf, R
<1>8. CASE KeepWritten
  BY <1>1, <1>8, Starts, CommandOnward, SubjectIsSound
     DEF KeepWritten, Next1, Filed, Keyed, KeyOf, R, Moved
<1>9. CASE Close
  BY <1>1, <1>9, Starts DEF Close, Next1, Filed, Keyed, KeyOf, R
<1>10. ASSUME NEW p \in Parameters, Turn(p) PROVE Filed'
  <2>1. params' \in Values
    BY <1>10 DEF Turn, Filed, Values
  <2> QED BY <1>1, <1>10, <2>1, AskFiles DEF Turn, Filed, Keyed, KeyOf, R
<1>11. ASSUME NEW p \in Parameters, Visit(p) PROVE Filed'
  <2>1. params' \in Values
    BY <1>11 DEF Visit, Filed, Values
  <2> QED BY <1>1, <1>11, <2>1, AskFiles DEF Visit, Filed, Keyed, KeyOf, R
<1>12. ASSUME NEW f \in asking, ServerReads(f) PROVE Filed'
  <2> DEFINE new == [f EXCEPT !.read = TRUE, !.version = version]
  <2>1. new \in Requests /\ new.key = f.key /\ new.with = f.with
    BY DEF Filed, Requests
  <2>2. asking' = (asking \ { f }) \cup { new }
    BY <1>12 DEF ServerReads
  <2> HIDE DEF new
  <2>3. /\ \A g \in asking' : g \in Requests /\ g.key = KeyOf(g.with)
        /\ \A g, h \in asking' : g.key = h.key => g = h
    BY <2>1, <2>2 DEF Filed
  <2> QED BY <1>1, <1>12, <2>3 DEF ServerReads, Filed, Keyed, KeyOf, R
<1>13. ASSUME NEW f \in asking, Answered(f) PROVE Filed'
  <2>1. f.with \in Values /\ f.key = KeyOf(f.with) /\ f.version \in Nat
    BY DEF Filed, Requests
  <2>2. /\ \A d \in store' : Keyed(d)
        /\ \A d, e \in store' : d.key = e.key => d = e
    BY <1>13, <2>1 DEF Answered, Filed, Keyed
  <2>3. command' \in [todo : Rests(subject.command.steps), with : Values, joined : BOOLEAN,
                     failed : BOOLEAN, wrote : Nat]
    BY <1>13, Starts DEF Answered, Awakened, Filed
  <2> QED BY <1>1, <1>13, <2>2, <2>3 DEF Answered, Filed, Keyed, KeyOf, R
<1>14. ASSUME NEW f \in asking, Failed(f) PROVE Filed'
  <2>1. command' \in [todo : Rests(subject.command.steps), with : Values, joined : BOOLEAN,
                     failed : BOOLEAN, wrote : Nat]
    BY <1>14, Starts DEF Failed, Awakened, Filed
  <2> QED BY <1>1, <1>14, <2>1 DEF Failed, Filed, Keyed, KeyOf, R
<1>15. CASE UNCHANGED cacheVars
  BY <1>1, <1>15 DEF cacheVars, Filed, Keyed, KeyOf, R
<1> QED BY <1>2, <1>3, <1>4, <1>5, <1>6, <1>7, <1>8, <1>9, <1>10, <1>11, <1>12, <1>13, <1>14,
           <1>15 DEF CacheNext

LEMMA FiledOwnData == Filed => OwnData
<1> SUFFICES ASSUME Filed, AtRest, NEW d \in Shown \cup held, NEW p \in Parameters
             PROVE  \/ d.with[p] = params[p]
                    \/ p = "org" /\ "org" \notin R.by
                    \/ p = "namespace" /\ R.name = "fetchDeploymentTerminalRecords"
  BY DEF OwnData
<1>1. \A e \in Shown : KeyOf(e.with) = KeyOf(params)
  BY DEF Shown, Filed, Keyed
<1>2. \E e \in Shown : e.with = d.with
  <2>1. CASE R.keeps = "nothing"
    BY <2>1 DEF Filed
  <2>2. CASE R.keeps # "nothing"
    BY <2>2 DEF AtRest, Keep, Filed
  <2> QED BY <2>1, <2>2
<1>3. KeyOf(d.with) = KeyOf(params)
  BY <1>1, <1>2
<1>4. CASE p \in R.by
  BY <1>3, <1>4 DEF KeyOf
<1>5. CASE p \in R.call \ R.by
  BY <1>5, SubjectIsSound DEF Filed, KeyNearlyWhole, R
<1> QED BY <1>4, <1>5 DEF Parameters

(* At rest a component shows the answer to what it would ask now, and so   *)
(* does the global state, but for what the keys leave out: for every query *)
(* of the dashboard, however often the parameters change, in whatever      *)
(* order answers come and whatever fails (the hooks' keys, the effects of  *)
(* the layouts).                                                           *)
THEOREM ShowsOwnData == CacheSpec => []OwnData
<1>1. CacheSpec => []Filed
  BY InitFiled, FiledKept, PTL DEF CacheSpec
<1> QED BY <1>1, FiledOwnData, PTL

-----------------------------------------------------------------------------
LEMMA InitOrdered == CacheInit => Ordered /\ Fresh /\ Landed
BY DEF CacheInit, Idle, Ordered, Fresh, Landed, Dialog

LEMMA OrderedKept ==
  ASSUME Filed, Ordered, [CacheNext]_cacheVars
  PROVE  Ordered'
<1> USE DEF Filed, Ordered, Next1, Dialog
<1>1. CASE Focus \/ Effect
  BY <1>1 DEF Focus, Effect
<1>2. CASE OpenForm \/ CloseForm
  BY <1>2 DEF OpenForm, CloseForm
<1>3. CASE Submit
  BY <1>3, SubjectIsSound DEF Submit, Idle, Courses, Awaited, Unawaited, Late, Forgotten, Keeping
<1>4. CASE Write
  BY <1>4, CommandOnward DEF Write, Moved
<1>5. CASE WriteFails
  BY <1>5 DEF WriteFails
<1>6. CASE Refetch
  BY <1>6, CommandOnward DEF Refetch, Moved
<1>7. CASE KeepWritten
  BY <1>7, CommandOnward, CoursesDiffer DEF KeepWritten, Moved
<1>8. CASE Close
  BY <1>8, CommandOnward DEF Close, Moved
<1>9. ASSUME NEW p \in Parameters, Turn(p) PROVE Ordered'
  BY <1>9 DEF Turn
<1>10. ASSUME NEW p \in Parameters, Visit(p) PROVE Ordered'
  BY <1>10 DEF Visit
<1>11. ASSUME NEW f \in asking, ServerReads(f) PROVE Ordered'
  BY <1>11 DEF ServerReads
<1>12. ASSUME NEW f \in asking, Answered(f) \/ Failed(f) PROVE Ordered'
  <2>1. PICK t \in BOOLEAN : command' = Awakened(f.key, t)
    BY <1>12 DEF Answered, Failed
  <2>2. CASE command' = command
    BY <1>12, <2>2 DEF Answered, Failed
  <2>3. CASE /\ Next1("await")
             /\ command' = [command EXCEPT !.todo = Tail(@), !.failed = t]
    BY <1>12, <2>3, CommandOnward DEF Answered, Failed, Moved
  <2> QED BY <2>1, <2>2, <2>3 DEF Awakened
<1>13. CASE UNCHANGED cacheVars
  BY <1>13 DEF cacheVars
<1> QED BY <1>1, <1>2, <1>3, <1>4, <1>5, <1>6, <1>7, <1>8, <1>9, <1>10, <1>11, <1>12, <1>13
        DEF CacheNext

(* The requests that a component waits for, if any has been asked.         *)
LEMMA FreshKept ==
  ASSUME Filed, Ordered, Fresh, [CacheNext]_cacheVars
  PROVE  Fresh'
<1> SUFFICES ASSUME Dialog', subject'.command.steps = Awaited, ~command'.joined,
                    command'.wrote > 0, ~Next1("refetch")',
                    NEW g \in asking', g.key = KeyOf(params)', g.read
             PROVE  g.version >= command'.wrote
  BY DEF Fresh
<1>1. subject' = subject
  BY DEF CacheNext, cacheVars, Focus, Effect, OpenForm, CloseForm, Submit, Write, WriteFails,
         Refetch, KeepWritten, Close, Turn, Visit, ServerReads, Answered, Failed, Dialog
<1>2. KeyOf(params)' = KeyOf(params')
  BY <1>1 DEF KeyOf, R
<1> USE DEF Filed, Ordered, Next1, Dialog
<1>3. CASE Focus
  BY <1>3, <1>1, <1>2 DEF Focus, Ask, Fresh
<1>4. CASE Effect \/ UNCHANGED cacheVars
  BY <1>4, <1>1, <1>2 DEF Effect, cacheVars, Fresh
<1>5. CASE OpenForm \/ CloseForm
  BY <1>5 DEF OpenForm, CloseForm
<1>6. CASE Submit
  BY <1>6 DEF Submit, Idle
<1>7. CASE Write
  BY <1>7, <1>1, CommandOnward DEF Write, Moved
<1>8. CASE WriteFails
  BY <1>8 DEF WriteFails
<1>9. CASE Refetch
  <2>1. asking' # asking /\ asking' = Ask(KeyOf(params), params)
    BY <1>9 DEF Refetch, Ask
  <2> QED BY <1>9, <1>2, <2>1 DEF Refetch, Ask
<1>10. CASE KeepWritten \/ Close
  BY <1>10, <1>1, <1>2, CommandOnward DEF KeepWritten, Close, Fresh, Moved
<1>11. ASSUME NEW p \in Parameters, Turn(p) \/ Visit(p) PROVE FALSE
  BY <1>11 DEF Turn, Visit
<1>12. ASSUME NEW f \in asking, ServerReads(f) PROVE g.version >= command'.wrote
  BY <1>12, <1>1, <1>2 DEF ServerReads, Fresh, Requests
<1>13. ASSUME NEW f \in asking, Answered(f) \/ Failed(f) PROVE g.version >= command'.wrote
  BY <1>13, <1>1, <1>2, CommandOnward DEF Answered, Failed, Awakened, Fresh, Moved
<1> QED BY <1>3, <1>4, <1>5, <1>6, <1>7, <1>8, <1>9, <1>10, <1>11, <1>12, <1>13
        DEF CacheNext

(* What they bring stays on display.                                       *)
LEMMA LandedKept ==
  ASSUME Filed, Ordered, Fresh, Landed, [CacheNext]_cacheVars
  PROVE  Landed'
<1> SUFFICES ASSUME Dialog', subject'.command.steps = Awaited, ~command'.joined,
                    ~command'.failed, command'.wrote > 0, ~Next1("refetch")',
                    ~Next1("await")'
             PROVE  \E d \in Shown' : d.version >= command'.wrote
  BY DEF Landed
<1>1. subject' = subject
  BY DEF CacheNext, cacheVars, Focus, Effect, OpenForm, CloseForm, Submit, Write, WriteFails,
         Refetch, KeepWritten, Close, Turn, Visit, ServerReads, Answered, Failed, Dialog
<1>2. Shown' = { d \in store' : d.key = KeyOf(params') }
  BY <1>1 DEF Shown, KeyOf, R
<1> USE DEF Filed, Ordered, Next1, Dialog
<1>3. CASE Focus \/ Effect \/ UNCHANGED cacheVars
  BY <1>3, <1>1, <1>2 DEF Focus, Effect, cacheVars, Landed, Shown
<1>4. CASE OpenForm \/ CloseForm
  BY <1>4 DEF OpenForm, CloseForm
<1>5. CASE Submit
  BY <1>5 DEF Submit, Idle
<1>6. CASE Write
  BY <1>6, <1>1, CommandOnward DEF Write, Moved
<1>7. CASE WriteFails
  BY <1>7 DEF WriteFails
<1>8. CASE Refetch
  BY <1>8, <1>1, CommandOnward DEF Refetch, Moved
<1>9. CASE KeepWritten \/ Close
  BY <1>9, <1>1, <1>2, CommandOnward, CoursesDiffer DEF KeepWritten, Close, Landed, Shown, Moved
<1>10. ASSUME NEW p \in Parameters, Turn(p) \/ Visit(p) PROVE FALSE
  BY <1>10 DEF Turn, Visit
<1>11. ASSUME NEW f \in asking, ServerReads(f)
       PROVE  \E d \in Shown' : d.version >= command'.wrote
  BY <1>11, <1>1, <1>2 DEF ServerReads, Landed, Shown
<1>12. ASSUME NEW f \in asking, Failed(f)
       PROVE  \E d \in Shown' : d.version >= command'.wrote
  BY <1>12, <1>1, <1>2 DEF Failed, Awakened, Landed, Shown
<1>13. ASSUME NEW f \in asking, Answered(f)
       PROVE  \E d \in Shown' : d.version >= command'.wrote
  <2>1. command'.wrote = command.wrote /\ command'.joined = command.joined
    BY <1>13 DEF Answered, Awakened
  <2>2. CASE f.key = KeyOf(params)
    <3>1. f.version >= command.wrote
      <4>1. ~Next1("refetch")
        BY <1>13, <2>2 DEF Answered, Awakened
      <4> QED BY <1>13, <1>1, <2>1, <2>2, <4>1 DEF Answered, Fresh
    <3>2. [key |-> f.key, with |-> f.with, version |-> f.version] \in store' /\ params' = params
      BY <1>13 DEF Answered
    <3> QED BY <1>2, <2>1, <2>2, <3>1, <3>2
  <2>3. CASE f.key # KeyOf(params)
    <3>1. command' = command
      BY <1>13, <2>3 DEF Answered, Awakened
    <3>2. PICK d \in Shown : d.version >= command.wrote
      BY <1>13, <1>1, <3>1 DEF Answered, Landed
    <3>3. d \in store' /\ d.key = KeyOf(params) /\ params' = params
      BY <1>13, <2>3 DEF Answered, Shown
    <3> QED BY <1>2, <2>1, <3>2, <3>3
  <2> QED BY <2>2, <2>3
<1> QED BY <1>3, <1>4, <1>5, <1>6, <1>7, <1>8, <1>9, <1>10, <1>11, <1>12, <1>13
        DEF CacheNext

(* A dialog that has closed by itself has done what it was for; and if the *)
(* command asks anew before that, what it has written is on display, but   *)
(* for a request that failed or was under way already: for every command   *)
(* of the dashboard, whatever the user, the server and other requests do   *)
(* meanwhile (handleCreate..., handleUpdate... of the lists and layouts).  *)
THEOREM DialogsReadOwnWrites == CacheSpec => []ReadsOwnWrite
<1>1. CacheSpec => []CacheInv
  <2>1. CacheInit => CacheInv
    BY InitFiled, InitOrdered DEF CacheInv
  <2>2. CacheInv /\ [CacheNext]_cacheVars => CacheInv'
    BY FiledKept, OrderedKept, FreshKept, LandedKept DEF CacheInv
  <2> QED BY <2>1, <2>2, PTL DEF CacheSpec
<1>2. CacheInv => ReadsOwnWrite
  BY DEF CacheInv, Ordered, Landed, ReadsOwnWrite, Dialog, Next1
<1> QED BY <1>1, <1>2, PTL

=============================================================================
