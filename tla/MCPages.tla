------------------------------ MODULE MCPages ------------------------------
(***************************************************************************)
(* The pages of the dashboard that ask over HTTP and the parts of them     *)
(* that keep a state of their own.  They share nothing that matters to the *)
(* properties: every behaviour is of one of them, and the variables of the *)
(* others do not change.                                                   *)
(***************************************************************************)
EXTENDS Sequences, QueryCache, PodDialogs, GrafanaView, ListUrl, DeploymentForm, LabelList

CONSTANT Parts \* the parts to check

VARIABLE part

(* The pods of an API server and of two runners, one of them a canary's    *)
(* and one to debug.                                                       *)
Rank == [p1 |-> 1, p2 |-> 3, p3 |-> 2, p4 |-> 4]
ByName(p, q) == Rank[p] < Rank[q]
RunnerOfPods == [p1 |-> "api", p2 |-> "r1", p3 |-> "r2", p4 |-> "r1"]
StatusOfPods == [p1 |-> "Running", p2 |-> "Failed", p3 |-> "Pending", p4 |-> "Unknown"]
ContainersOfPods ==
  [p1 |-> { "main" }, p2 |-> { "main", "debugger" }, p3 |-> { "main" }, p4 |-> {}]

(* A word, one that finds another as a regular expression, one that is     *)
(* none, and one with a backslash.                                         *)
FourWords == { "w", "a.b", "(", "back" }
WordsInLines == FourWords \cup { "W", "kube-probe" }
SameLetters == [p \in WordsInLines |-> IF p \in { "w", "W" } THEN { "w", "W" } ELSE { p }]
WhatMatches == [w \in FourWords |-> IF w = "a.b" THEN { "w", "a.b" } ELSE { w }]
WhatIsRead  == [w \in FourWords |-> IF w = "back" THEN "error" ELSE w]

(* Texts with a filter of several values, a word and a key without value;  *)
(* with a negated filter; with dates; and with one key twice.              *)
SomeTexts == { << >>, << << "creator", "a", "x" >>, << "w" >>, << "is", "" >> >>,
               << << "not", "creator" >> >>, << << "dates", "d1" >>, << "w" >> >>, << << "is", "new" >>, << "new", "b" >> >> }
CreatedByMe == << << "creator", "@me" >> >>

(* Two versions of a bento, each with a runner the other has not.          *)
TwoVersions == { << "r", "1" >>, << "r", "2" >> }
RunnersOfBento(b) == IF b[2] = "1" THEN { "a" } ELSE { "b" }

(* The parts that are not checked are in one initial state of theirs.      *)
IdleDialogs == Init /\ page = "replicas" /\ known
IdleQueries == CacheInit /\ subject = CHOOSE s \in Subjects : s.command.steps = << >>
IdleLogs    == GrafanaInit /\ shownIn = "log"
IdleListing == ListInit /\ trail = << [q |-> << >>, page |-> 0] >> /\ range = NoPicker
IdleEditor  == FormInit /\ mode = "new" /\ server = Revision(1, "c1", << "r", "1" >>, NoText, NoText)
IdleLabels  == LabelInit /\ Stored = NoLabels

(* Dates come with a picker, and what is done then is less by one.         *)
DatesIfPicked ==
  IF range = NoPicker THEN DatesOf(Q) \o DatesOf(parseQ(value.text)) = << >>
  ELSE acts < MaxActs

(* The versions of the bento differ in their names only, and with a second *)
(* revision there is less to edit.                                         *)
FewRevisions ==
  IF server.number = 1 THEN server.fields["bento"] = "1"
  ELSE edits < MaxEdits \/ phase = "closed"

PagesInit ==
  \/ /\ part \in Parts \cap { "dialogs" } /\ Init
     /\ IdleQueries /\ IdleLogs /\ IdleListing /\ IdleEditor /\ IdleLabels
  \/ /\ part \in Parts \cap { "queries" } /\ CacheInit
     /\ IdleDialogs /\ IdleLogs /\ IdleListing /\ IdleEditor /\ IdleLabels
  \/ /\ part \in Parts \cap { "logs" } /\ GrafanaInit
     /\ IdleDialogs /\ IdleQueries /\ IdleListing /\ IdleEditor /\ IdleLabels
  \/ /\ part \in Parts \cap { "listing" } /\ ListInit /\ DatesIfPicked
     /\ IdleDialogs /\ IdleQueries /\ IdleLogs /\ IdleEditor /\ IdleLabels
  \/ /\ part \in Parts \cap { "editor" } /\ FormInit /\ FewRevisions
     /\ IdleDialogs /\ IdleQueries /\ IdleLogs /\ IdleListing /\ IdleLabels
  \/ /\ part \in Parts \cap { "labels" } /\ LabelInit
     /\ IdleDialogs /\ IdleQueries /\ IdleLogs /\ IdleListing /\ IdleEditor

(* Of the toolbar and the form one thing is being used at a time.          *)
OneThingAtATime ==
  Cardinality({ b \in { "keyword", "max lines", "form", "components" } :
                  CASE b = "keyword" -> keyword.typed # keyword.applied
                    [] b = "max lines" -> maxLines.typed # maxLines.applied
                    [] b = "form" -> form.open
                    [] b = "components" -> components # {} }) <= 1

PagesNext ==
  /\ UNCHANGED part
  /\ \/ /\ part = "dialogs" /\ Next
        /\ UNCHANGED << cacheVars, grafanaVars, listVars, formVars, labelVars >>
     \/ /\ part = "queries" /\ CacheNext
        /\ UNCHANGED << vars, grafanaVars, listVars, formVars, labelVars >>
     \/ /\ part = "logs" /\ GrafanaNext /\ OneThingAtATime'
        /\ UNCHANGED << vars, cacheVars, listVars, formVars, labelVars >>
     \/ /\ part = "listing" /\ ListNext /\ DatesIfPicked'
        /\ UNCHANGED << vars, cacheVars, grafanaVars, formVars, labelVars >>
     \/ /\ part = "editor" /\ FormNext /\ FewRevisions'
        /\ UNCHANGED << vars, cacheVars, grafanaVars, listVars, labelVars >>
     \/ /\ part = "labels" /\ LabelNext
        /\ UNCHANGED << vars, cacheVars, grafanaVars, listVars, formVars >>

PagesSpec ==
  PagesInit /\ [][PagesNext]_<< part, vars, cacheVars, grafanaVars, listVars, formVars, labelVars >>

(* The types of every part.                                                *)
TypesOK ==
  /\ TypeOK /\ CacheTypeOK /\ GrafanaTypeOK
  /\ ListTypeOK /\ FormTypeOK /\ LabelTypeOK
=============================================================================
