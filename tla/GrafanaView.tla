---------------------------- MODULE GrafanaView ----------------------------
(***************************************************************************)
(* What the dashboard shows in frames of Grafana: LokiLog with the form of *)
(* its line filters, PodMonitor and DeploymentMonitor.                     *)
(*                                                                         *)
(* A frame's address follows from what is on display; the text fields      *)
(* count once Enter is pressed, the form once it is submitted.  The query  *)
(* is kept here as what it means, a conjunction of selectors, a            *)
(* disjunction of label filters and a conjunction of line filters, and     *)
(* whether the text that stands for it can be read back.                   *)
(***************************************************************************)
EXTENDS Naturals, FiniteSets, SequencesExt

CONSTANTS
  Words,     \* what may be typed
  Pieces,    \* what a line may have in it, words as they are typed included
  Alike,     \* for each piece, those that differ from it in case only, and it
  Pattern,   \* for each word, the pieces that it finds as a regular expression
  NoRegexp,  \* the words that are no regular expression, as "("
  Unquoted,  \* for each word, what Loki reads between the quotes for it
  Runners,   \* names of the bento's runners
  MaxFilters \* bound on the rows of the form

VARIABLES
  shownIn,   \* "log", "deployment" or "pod": where the frame is
  cluster,   \* the cluster of the context, or else the major one
  named,     \* the deployment's name is known
  keyword,   \* applied, and as typed
  maxLines,  \* likewise
  components,\* the label filters selected
  filters,   \* the line filters
  form,      \* of LokiFiltersForm: whether it is open, and its own filters
  show,      \* the frame has been loaded once
  styled     \* the present frame has been loaded and has got its style

grafanaVars == << shownIn, cluster, named, keyword, maxLines, components, filters,
                  form, show, styled >>

(* An empty text, and the user agent of the probes.                        *)
NoWord == ""
Probe  == "kube-probe"

FilterTypes == { "contains", "not contains" }

(* Whether its case matters is no choice of the form.                      *)
LineFilter ==
  [type : FilterTypes, isRegexp : BOOLEAN, anyCase : { FALSE },
   value : Words \cup { NoWord }]

KubeProbe ==
  [type |-> "not contains", isRegexp |-> FALSE, anyCase |-> FALSE, value |-> Probe]

(* A keyword is sent with (?i) in front of it.                             *)
Keyword(w) == [type |-> "contains", isRegexp |-> TRUE, anyCase |-> TRUE, value |-> w]

ASSUME WordsAssumption ==
  /\ NoWord \notin Words \cup NoRegexp /\ Words \cup { Probe } \subseteq Pieces
  /\ Probe \in Words => Unquoted[Probe] = Probe
  /\ "error" \notin Words

-----------------------------------------------------------------------------
(* defaultLabelFilterNodes of the page of a deployment.                    *)
Selectors == IF named THEN { "yatai_ai_deployment" } ELSE {}

(* The options of the select: the API server, and each runner of the bento *)
(* that is deployed.                                                       *)
ComponentOptions == { "api_server" } \cup (IF named THEN Runners ELSE {})

(* Mutant: the keyword counts as it is typed.                              *)
LineFiltersAsTyped ==
  (IF named THEN << KubeProbe >> ELSE << >>)
  \o (IF keyword.typed = NoWord THEN << >> ELSE << Keyword(keyword.typed) >>) \o filters

(* defaultLineFilterNodes, and what the form has added.                    *)
LineFilters ==
  (IF named THEN << KubeProbe >> ELSE << >>)
  \o (IF keyword.applied = NoWord THEN << >> ELSE << Keyword(keyword.applied) >>) \o filters

(* Quotes are escaped, and nothing else: what has a backslash is read as   *)
(* something else, or not at all ("error").                                *)
Meant(f) == IF f.value \in Words THEN Unquoted[f.value] ELSE f.value

(* A string that cannot be read, or no regular expression where there has  *)
(* to be one, spoils the query.                                            *)
Readable(f) == Meant(f) # "error" /\ (f.isRegexp => Meant(f) \notin NoRegexp)

(* expr: it cannot be read without a selector, or with a bad line filter.  *)
Expr == [selectors |-> Selectors, labels |-> components, lines |-> ToSet(LineFilters),
         ok |-> Selectors # {} /\ \A f \in ToSet(LineFilters) : Readable(f)]

(* A text that is no number makes NaN, and JSON makes null of it.          *)
InJson(n) == IF n = "NaN" THEN "null" ELSE n

(* The query of each view; a panel's has the name of what it is about.     *)
LokiQuery       == [expr |-> Expr, maxLines |-> InJson(maxLines.applied)]
PodQuery        == << "var-pod", "pod" >>
DeploymentQuery == << "var-pod", "deployment" >>

(* hasMonitoring of the page with the panels of a deployment.              *)
HasMonitoring == FALSE

(* What the views wait for: "no data" without the root path of a cluster's *)
(* Grafana, or without a cluster or a deployment for the panels.           *)
NoData == CASE shownIn = "log" -> cluster # "with grafana"
            [] shownIn = "pod" -> cluster = "unknown"
            [] shownIn = "deployment" -> ~HasMonitoring \/ cluster = "unknown" \/ ~named

(* The frame's address, which is also its key.                             *)
FrameUrl == IF shownIn = "log" THEN LokiQuery
       ELSE IF shownIn = "pod" THEN PodQuery ELSE DeploymentQuery

(* Another address is another frame; "no data" takes the component away.   *)
Reload == show' = (show /\ ~NoData') /\ styled' = (styled /\ ~NoData' /\ FrameUrl' = FrameUrl)

GrafanaInit ==
  /\ shownIn \in { "log", "deployment", "pod" } /\ cluster = "unknown" /\ named = FALSE
  /\ keyword = [applied |-> NoWord, typed |-> NoWord]
  /\ maxLines = [applied |-> "1000", typed |-> "1000"]
  /\ components = {} /\ filters = << >> /\ form = [open |-> FALSE, filters |-> << >>]
  /\ show = FALSE /\ styled = FALSE

-----------------------------------------------------------------------------
(* The organization's major cluster or the context's gets known, in either *)
(* case perhaps one without Grafana.  A form that goes with the rest comes *)
(* back with what had been submitted.                                      *)
LearnCluster ==
  /\ cluster' \in { "without grafana", "with grafana" }
  /\ form' = [form EXCEPT !.filters =
               IF form.open /\ cluster' # "with grafana" THEN filters ELSE @]
  /\ UNCHANGED << shownIn, named, keyword, maxLines, components, filters >> /\ Reload

(* So does the deployment; its name goes while it is loaded again.         *)
LearnDeployment ==
  /\ named' = ~named
  /\ UNCHANGED << shownIn, cluster, keyword, maxLines, components, filters, form >> /\ Reload

Toolbar == shownIn = "log" /\ ~NoData /\ ~form.open

TypeKeyword(w) ==
  /\ Toolbar /\ keyword' = [keyword EXCEPT !.typed = w]
  /\ UNCHANGED << shownIn, cluster, named, maxLines, components, filters, form >> /\ Reload

EnterKeyword ==
  /\ Toolbar /\ keyword' = [keyword EXCEPT !.applied = keyword.typed]
  /\ UNCHANGED << shownIn, cluster, named, maxLines, components, filters, form >> /\ Reload

TypeMaxLines(n) ==
  /\ Toolbar /\ maxLines' = [maxLines EXCEPT !.typed = n]
  /\ UNCHANGED << shownIn, cluster, named, keyword, components, filters, form >> /\ Reload

EnterMaxLines ==
  /\ Toolbar /\ maxLines' = [maxLines EXCEPT !.applied = maxLines.typed]
  /\ UNCHANGED << shownIn, cluster, named, keyword, components, filters, form >> /\ Reload

(* A filter that is no longer among the options stays until removed.       *)
SelectComponents(cs) ==
  /\ Toolbar /\ cs \subseteq components \cup ComponentOptions /\ components' = cs
  /\ UNCHANGED << shownIn, cluster, named, keyword, maxLines, filters, form >> /\ Reload

-----------------------------------------------------------------------------
(* LokiFiltersForm, in a dialog: it has a copy of the filters.             *)
OpenFilters ==
  /\ Toolbar /\ form' = [open |-> TRUE, filters |-> filters]
  /\ UNCHANGED << shownIn, cluster, named, keyword, maxLines, components, filters >> /\ Reload

AddFilter ==
  /\ Len(form.filters) < MaxFilters
  /\ form' = [form EXCEPT !.filters =
                Append(@, [type |-> "contains", isRegexp |-> FALSE, anyCase |-> FALSE,
                           value |-> NoWord])]

HandleUpdate(i, f) == form' = [form EXCEPT !.filters[i] = f]

HandleDelete(i) == form' = [form EXCEPT !.filters = RemoveAt(@, i)]

ClearForm == form' = [form EXCEPT !.filters = << >>]

EditForm ==
  /\ form.open /\ ~NoData
  /\ \/ AddFilter \/ ClearForm
     \/ \E i \in 1 .. Len(form.filters) :
          HandleDelete(i) \/ \E f \in LineFilter : HandleUpdate(i, f)
  /\ UNCHANGED << shownIn, cluster, named, keyword, maxLines, components, filters >> /\ Reload

(* onLineFilterNodesSubmit.                                                *)
SubmitForm ==
  /\ form.open /\ ~NoData
  /\ filters' = form.filters /\ form' = [open |-> FALSE, filters |-> << >>]
  /\ UNCHANGED << shownIn, cluster, named, keyword, maxLines, components >> /\ Reload

CloseFilters ==
  /\ form.open /\ ~NoData /\ form' = [open |-> FALSE, filters |-> << >>]
  /\ UNCHANGED << shownIn, cluster, named, keyword, maxLines, components, filters >> /\ Reload

(* handleIFrameLoad, and the 600 ms after it.  show is the component's,    *)
(* not the frame's: the next frame is visible before it is styled.         *)
HandleIFrameLoad ==
  /\ ~NoData /\ show' = TRUE /\ styled' = TRUE
  /\ UNCHANGED << shownIn, cluster, named, keyword, maxLines, components, filters, form >>

GrafanaNext ==
  \/ LearnCluster \/ LearnDeployment \/ OpenFilters \/ EditForm \/ SubmitForm \/ CloseFilters
  \/ \E w \in Words \cup { NoWord } : TypeKeyword(w)
  \/ \E n \in { "1000", "NaN" } : TypeMaxLines(n)
  \/ EnterKeyword \/ EnterMaxLines \/ HandleIFrameLoad
  \/ \E cs \in SUBSET ({ "api_server" } \cup Runners) : SelectComponents(cs)

GrafanaSpec == GrafanaInit /\ [][GrafanaNext]_grafanaVars

-----------------------------------------------------------------------------
(* The types of the state.                                                 *)
GrafanaTypeOK ==
  /\ keyword.applied \in Words \cup { NoWord } /\ keyword.typed \in Words \cup { NoWord }
  /\ ToSet(filters) \cup ToSet(form.filters) \subseteq LineFilter
  /\ Len(filters) <= MaxFilters /\ Len(form.filters) <= MaxFilters
  /\ components \subseteq { "api_server" } \cup Runners
  /\ show \in BOOLEAN /\ named \in BOOLEAN

(* Lines: of which deployment, of which component, with which pieces.      *)
Lines == [of : { "this", "other" }, by : { "api_server" } \cup Runners,
          has : SUBSET Pieces]

(* |=, != and |~, !~: whether a line has one of these pieces; every line   *)
(* has the empty text.                                                     *)
Filter(f, found, l) == (f.type = "contains") = (f.value = NoWord \/ found \cap l.has # {})

Finds(f) ==
  IF ~f.isRegexp THEN { Meant(f) }
  ELSE IF f.anyCase THEN UNION { Alike[p] : p \in Pattern[Meant(f)] }
  ELSE Pattern[Meant(f)]

Holds(f, l) == Filter(f, Finds(f), l)

(* What Loki finds for a query.                                            *)
Found(e) ==
  { l \in Lines : /\ "yatai_ai_deployment" \in e.selectors => l.of = "this"
                  /\ e.labels = {} \/ l.by \in e.labels
                  /\ \A f \in e.lines : Holds(f, l) }

(* What the form says of a filter: that lines contain what was typed, or   *)
(* match it, or do not.                                                    *)
Says(f, l) == Filter(f, IF f.isRegexp THEN Pattern[f.value] ELSE { f.value }, l)

(* What the user has asked for last: lines of this deployment, of any of   *)
(* the components selected, with the keyword entered in whatever case,     *)
(* that every filter submitted lets through.                               *)
Wanted ==
  { l \in Lines : /\ l.of = "this" /\ Probe \notin l.has
                  /\ components = {} \/ l.by \in components
                  /\ keyword.applied # NoWord => Alike[keyword.applied] \cap l.has # {}
                  /\ \A i \in 1 .. Len(filters) : Says(filters[i], l) }

(* Words that Loki reads as they are, a keyword that as a regular          *)
(* expression finds itself and nothing else.                               *)
AsTyped(f) ==
  f.value # NoWord =>
    Unquoted[f.value] = f.value /\ (f.isRegexp => f.value \notin NoRegexp)

PlainKeyword ==
  keyword.applied # NoWord =>
    /\ AsTyped(Keyword(keyword.applied))
    /\ UNION { Alike[p] : p \in Pattern[keyword.applied] } = Alike[keyword.applied]

(* With plain words the log shows the lines that were asked for, and with  *)
(* any no line of another deployment or that a plain filter rules out:     *)
(* rather an error, as while the name of the deployment is not known.  And *)
(* as many lines as were asked for, unless that was no number (LokiLog).   *)
LogShowsWanted ==
  (shownIn = "log" /\ ~NoData) =>
    /\ (named /\ PlainKeyword /\ \A i \in 1 .. Len(filters) : AsTyped(filters[i]))
         => Expr.ok /\ Found(Expr) = Wanted
    /\ Expr.ok => \A l \in Found(Expr) :
         /\ l.of = "this"
         /\ \A i \in 1 .. Len(filters) : AsTyped(filters[i]) => Says(filters[i], l)
    /\ LokiQuery.maxLines = maxLines.applied \/ maxLines.applied = "NaN"
=============================================================================
