----------------------------- MODULE PageProofs -----------------------------
(***************************************************************************)
(* What the parts of the pages promise, for any pods, texts, filters,      *)
(* labels and users, and however often they are used: the dialogs of pods, *)
(* the log, the address of a list, the deployment form and the labels.     *)
(***************************************************************************)
EXTENDS PodDialogs, GrafanaView, ListUrl, DeploymentForm, LabelList,
        SequenceTheorems, FiniteSetTheorems, TLAPS

-----------------------------------------------------------------------------
(* An open dialog is of one of the pods, and where buttons of that pod are. *)
HeldInv ==
  dialog # Closed =>
    /\ dialog.pod \in Pods
    /\ Table \/ dialog.at[1] = RowOf(dialog.pod)

LEMMA HolderOfRow ==
  ASSUME NEW p, NEW h \in Holders(p), ~Table
  PROVE  h[1] = RowOf(p)
BY DEF Holders

LEMMA OpenHolds ==
  ASSUME NEW p \in Pods, NEW kind, NEW c, Open(kind, p, c)
  PROVE  HeldInv'
<1>1. PICK h \in Holders(p) : dialog' = [kind |-> kind, at |-> h, pod |-> p, container |-> c]
  BY DEF Open
<1>2. dialog'.pod = p /\ dialog'.at = h
  BY <1>1
<1>3. Table' = Table
  BY DEF Open, Table
<1>4. Table \/ h[1] = RowOf(p)
  BY HolderOfRow
<1> QED
  BY <1>2, <1>3, <1>4 DEF HeldInv, RowOf

LEMMA RemainsHeld ==
  ASSUME HeldInv, page' = page, dialog' \in { dialog, Closed }
  PROVE  HeldInv'
BY DEF HeldInv, Table, RowOf

LEMMA RemainingOr ==
  ASSUME NEW list, NEW unmounted
  PROVE  Remaining(list, unmounted) \in { dialog, Closed }
BY DEF Remaining

LEMMA HeldStep ==
  ASSUME HeldInv, [Next]_vars
  PROVE  HeldInv'
<1>1. CASE \E p \in Pods :
        ViewLog(p) \/ ViewEvents(p) \/ OpenTerminal(p) \/ OpenDebug(p) \/ OpenDebugger(p)
  BY <1>1, OpenHolds DEF ViewLog, ViewEvents, OpenTerminal, OpenDebug, OpenDebugger
<1>2. CASE CloseDialog
  BY <1>2, RemainsHeld DEF CloseDialog
<1>3. CASE Reconnect
  BY <1>3, RemainingOr, RemainsHeld DEF Reconnect
<1>4. CASE Learn
  BY <1>4, RemainsHeld DEF Learn
<1>5. CASE \E list \in Lists : Push(list)
  BY <1>5, RemainingOr, RemainsHeld DEF Push
<1>6. CASE UNCHANGED vars
  BY <1>6, RemainsHeld DEF vars
<1> QED
  BY <1>1, <1>2, <1>3, <1>4, <1>5, <1>6 DEF Next

LEMMA HeldFollows == HeldInv => Follows
<1> SUFFICES ASSUME HeldInv, dialog # Closed
             PROVE  /\ Content \in { dialog.pod, NoPod, NotExists }
                    /\ known => (Content = NotExists <=>
                         dialog.kind = "log" /\ dialog.pod \notin Range(pods))
  BY DEF Follows
<1>1. dialog.pod # NotExists
  BY PodNames DEF HeldInv
<1> DEFINE listed == IF Table THEN Range(pods)
                     ELSE { p \in Range(pods) : RowOf(p) = dialog.at[1] }
<1>2. Content = ShownPod(listed)
  BY DEF Content, DialogOfTable, DialogOfBall
<1>3. dialog.pod \in listed <=> dialog.pod \in Range(pods)
  BY DEF HeldInv
<1> HIDE DEF listed
<1>4. known => Content = IF dialog.kind = "log" /\ dialog.pod \notin Range(pods)
                           THEN NotExists ELSE dialog.pod
  BY <1>2, <1>3 DEF ShownPod
<1>5. ~known => Content \in { NoPod, NotExists }
  BY <1>2 DEF ShownPod
<1> QED
  BY <1>1, <1>4, <1>5

(* A dialog shows the pod it was opened for or none, and a log says that   *)
(* its pod does not exist only when the page lists no such pod or does not *)
(* know where it is (PodList, PodStatuses).                                *)
THEOREM DialogsFollow == Spec => []Follows
<1>1. Init => HeldInv
  BY DEF Init, HeldInv
<1>2. HeldInv /\ [Next]_vars => HeldInv'
  BY HeldStep
<1> QED
  BY <1>1, <1>2, HeldFollows, PTL DEF Spec

(* A push or a new connection closes no dialog of a table, and one of a    *)
(* ball only with its place in the row (PodList, and PodStatuses with its  *)
(* keys).                                                                  *)
THEOREM DialogsKept == Spec => Kept
<1>1. [Next]_vars => [KeepsDialog]_vars
  <2> SUFFICES ASSUME Next, dialog # Closed, dialog' # dialog, ~CloseDialog
               PROVE  ~Table /\ (loading' \/ dialog.at[2] > Len(Split(pods', dialog.at[1])))
    BY DEF KeepsDialog
  <2>1. CASE \E p \in Pods :
          ViewLog(p) \/ ViewEvents(p) \/ OpenTerminal(p) \/ OpenDebug(p) \/ OpenDebugger(p)
    BY <2>1 DEF ViewLog, ViewEvents, OpenTerminal, OpenDebug, OpenDebugger, Open
  <2>2. CASE Reconnect
    BY <2>2 DEF Reconnect, Remaining
  <2>3. CASE Learn
    BY <2>3 DEF Learn
  <2>4. CASE \E list \in Lists : Push(list)
    BY <2>4 DEF Push, Remaining
  <2> QED
    BY <2>1, <2>2, <2>3, <2>4 DEF Next
<1> QED
  BY <1>1, PTL DEF Spec, Kept

-----------------------------------------------------------------------------
(* The filters and the form's own are sequences of line filters, and the   *)
(* keyword is a word.                                                      *)
FilterLists ==
  /\ keyword = [applied |-> keyword.applied, typed |-> keyword.typed]
  /\ keyword.applied \in Words \cup { NoWord } /\ keyword.typed \in Words \cup { NoWord }
  /\ filters \in Seq(LineFilter) /\ form.filters \in Seq(LineFilter)
  /\ form = [open |-> form.open, filters |-> form.filters]

LEMMA ListsBegin == GrafanaInit => FilterLists
BY DEF GrafanaInit, FilterLists

LEMMA NewLineFilter ==
  [type |-> "contains", isRegexp |-> FALSE, anyCase |-> FALSE, value |-> NoWord] \in LineFilter
<1>1. "contains" \in FilterTypes
  BY DEF FilterTypes
<1> QED
  BY <1>1 DEF LineFilter

LEMMA RemovedTyped ==
  ASSUME NEW S, NEW s \in Seq(S), NEW i \in 1 .. Len(s)
  PROVE  RemoveAt(s, i) \in Seq(S)
<1>1. SubSeq(s, 1, i - 1) \in Seq(S)
  OBVIOUS
<1>2. SubSeq(s, i + 1, Len(s)) \in Seq(S)
  OBVIOUS
<1> QED
  BY <1>1, <1>2 DEF RemoveAt

LEMMA EditKeepsLists ==
  ASSUME FilterLists, EditForm
  PROVE  FilterLists'
<1> DEFINE own == form.filters
<1>1. form.filters \in Seq(LineFilter) /\ filters' = filters /\ keyword' = keyword
  BY DEF FilterLists, EditForm
<1>2. ASSUME NEW fs \in Seq(LineFilter), form' = [form EXCEPT !.filters = fs]
      PROVE  FilterLists'
  BY <1>1, <1>2 DEF FilterLists
<1>3. CASE AddFilter
  <2>1. Append(form.filters, [type |-> "contains", isRegexp |-> FALSE, anyCase |-> FALSE,
                              value |-> NoWord]) \in Seq(LineFilter)
    BY <1>1, NewLineFilter
  <2> QED
    BY <1>2, <1>3, <2>1 DEF AddFilter
<1>4. CASE ClearForm
  <2>1. << >> \in Seq(LineFilter)
    OBVIOUS
  <2> QED
    BY <1>2, <1>4, <2>1 DEF ClearForm
<1>5. ASSUME NEW i \in 1 .. Len(form.filters), HandleDelete(i)
      PROVE  FilterLists'
  BY <1>1, <1>2, <1>5, RemovedTyped DEF HandleDelete
<1>6. ASSUME NEW i \in 1 .. Len(form.filters), NEW f \in LineFilter, HandleUpdate(i, f)
      PROVE  FilterLists'
  <2>1. [form.filters EXCEPT ![i] = f] \in Seq(LineFilter)
    BY <1>1
  <2> QED
    BY <1>2, <1>6, <2>1 DEF HandleUpdate
<1> QED
  BY <1>3, <1>4, <1>5, <1>6 DEF EditForm

LEMMA ListsStay ==
  ASSUME FilterLists, [GrafanaNext]_grafanaVars
  PROVE  FilterLists'
<1>1. CASE UNCHANGED << keyword, filters, form >>
  BY <1>1 DEF FilterLists
<1>6. CASE EnterKeyword \/ \E w \in Words \cup { NoWord } : TypeKeyword(w)
  BY <1>6 DEF EnterKeyword, TypeKeyword, FilterLists
<1>2. CASE LearnCluster
  <2>1. /\ keyword' = keyword /\ filters' = filters
        /\ \E fs \in { filters, form.filters } : form' = [form EXCEPT !.filters = fs]
    BY <1>2, Zenon DEF LearnCluster
  <2> QED
    BY <2>1 DEF FilterLists
<1>3. CASE OpenFilters
  BY <1>3 DEF OpenFilters, FilterLists
<1>4. CASE EditForm
  BY <1>4, EditKeepsLists
<1>5. CASE SubmitForm \/ CloseFilters
  <2>1. form' = [open |-> FALSE, filters |-> << >>]
    BY <1>5 DEF SubmitForm, CloseFilters
  <2>2. form'.open = FALSE /\ form'.filters = << >> /\ << >> \in Seq(LineFilter)
    BY <2>1
  <2>3. filters' \in Seq(LineFilter)
    BY <1>5 DEF SubmitForm, CloseFilters, FilterLists
  <2>4. keyword' = keyword
    BY <1>5 DEF SubmitForm, CloseFilters
  <2> QED
    BY <2>1, <2>2, <2>3, <2>4 DEF FilterLists
<1> QED
  BY <1>1, <1>2, <1>3, <1>4, <1>5, <1>6
     DEF GrafanaNext, grafanaVars, LearnDeployment, TypeMaxLines, EnterMaxLines,
         HandleIFrameLoad, SelectComponents

(* The line filter of the keyword entered.                                 *)
ByKeyword == Keyword(keyword.applied)

(* The items of two sequences one after the other.                         *)
LEMMA ToSetConcat ==
  ASSUME NEW S, NEW s \in Seq(S), NEW t \in Seq(S)
  PROVE  ToSet(s \o t) = ToSet(s) \cup ToSet(t)
<1> DEFINE u == s \o t
<1>1. /\ u \in Seq(S) /\ Len(u) = Len(s) + Len(t)
      /\ \A i \in 1 .. Len(s) : u[i] = s[i]
      /\ \A i \in 1 .. Len(t) : u[Len(s) + i] = t[i]
  OBVIOUS
<1>2. DOMAIN u = 1 .. Len(u) /\ DOMAIN s = 1 .. Len(s) /\ DOMAIN t = 1 .. Len(t)
  BY <1>1
<1>3. Len(s) \in Nat /\ Len(t) \in Nat
  OBVIOUS
<1> HIDE DEF u
<1>4. ASSUME NEW i \in 1 .. Len(u)
      PROVE  u[i] \in ToSet(s) \cup ToSet(t)
  <2>1. CASE i \in 1 .. Len(s)
    BY <1>1, <1>2, <2>1 DEF ToSet
  <2>2. CASE i \notin 1 .. Len(s)
    <3>1. i - Len(s) \in 1 .. Len(t) /\ i = Len(s) + (i - Len(s))
      BY <1>1, <1>3, <2>2
    <3> QED
      BY <1>1, <1>2, <3>1 DEF ToSet
  <2> QED
    BY <2>1, <2>2
<1>5. \A i \in 1 .. Len(s) : i \in 1 .. Len(u) /\ s[i] = u[i]
  BY <1>1, <1>3
<1>6. \A i \in 1 .. Len(t) : Len(s) + i \in 1 .. Len(u) /\ t[i] = u[Len(s) + i]
  BY <1>1, <1>3
<1>7. ToSet(s) \subseteq ToSet(u)
  BY <1>2, <1>5 DEF ToSet
<1>8. ToSet(t) \subseteq ToSet(u)
  BY <1>2, <1>6 DEF ToSet
<1>9. ToSet(u) \subseteq ToSet(s) \cup ToSet(t)
  BY <1>2, <1>4 DEF ToSet
<1> QED
  BY <1>7, <1>8, <1>9 DEF u

LEMMA FiltersOfQuery ==
  ASSUME FilterLists
  PROVE  ToSet(LineFilters) = { f \in { KubeProbe, ByKeyword } \cup ToSet(filters) :
           \/ f = KubeProbe /\ named
           \/ f = ByKeyword /\ keyword.applied # NoWord
           \/ f \in ToSet(filters) }
<1> DEFINE S == LineFilter \cup { KubeProbe, ByKeyword }
           a == IF named THEN << KubeProbe >> ELSE << >>
           b == IF keyword.applied = NoWord THEN << >> ELSE << ByKeyword >>
<1>1. a \in Seq(S) /\ b \in Seq(S) /\ filters \in Seq(S)
  <2>1. KubeProbe \in S /\ ByKeyword \in S /\ LineFilter \subseteq S
    OBVIOUS
  <2> HIDE DEF S
  <2>2. << KubeProbe >> \in Seq(S) /\ << ByKeyword >> \in Seq(S) /\ << >> \in Seq(S)
    BY <2>1
  <2>3. filters \in Seq(S)
    BY <2>1, SeqMonotonic DEF FilterLists
  <2> QED
    BY <2>2, <2>3
<1>2. LineFilters = (a \o b) \o filters
  BY DEF LineFilters, ByKeyword
<1>3. ToSet(a) = { f \in { KubeProbe } : named }
  BY DEF ToSet
<1>4. ToSet(b) = { f \in { ByKeyword } : keyword.applied # NoWord }
  BY DEF ToSet
<1>5. a \o b \in Seq(S)
  BY <1>1
<1> HIDE DEF a, b, S
<1>6. ToSet(LineFilters) = (ToSet(a) \cup ToSet(b)) \cup ToSet(filters)
  <2>1. ToSet(a \o b) = ToSet(a) \cup ToSet(b)
    BY <1>1, ToSetConcat
  <2>2. ToSet((a \o b) \o filters) = ToSet(a \o b) \cup ToSet(filters)
    BY <1>1, <1>5, ToSetConcat
  <2> QED
    BY <1>2, <2>1, <2>2
<1> QED
  BY <1>3, <1>4, <1>6

LEMMA MembersOfFilters ==
  ASSUME FilterLists, NEW f
  PROVE  f \in ToSet(filters) <=> \E i \in 1 .. Len(filters) : f = filters[i]
<1>1. DOMAIN filters = 1 .. Len(filters)
  BY DEF FilterLists
<1> QED
  BY <1>1 DEF ToSet

(* A filter of plain words is read, and lets through what it says.         *)
LEMMA PlainFilter ==
  ASSUME NEW f \in LineFilter, AsTyped(f), NEW l
  PROVE  Readable(f) /\ (Holds(f, l) <=> Says(f, l))
<1>1. f.value \in Words \cup { NoWord } /\ f.isRegexp \in BOOLEAN /\ f.anyCase = FALSE
  BY DEF LineFilter
<1>2. "error" \notin Words /\ NoWord \notin Words \cup NoRegexp /\ NoWord # "error"
  BY WordsAssumption, Zenon DEF NoWord
<1>3. Meant(f) = f.value
  BY <1>1, <1>2 DEF Meant, AsTyped
<1>4. f.value # "error" /\ (f.isRegexp => f.value \notin NoRegexp)
  BY <1>1, <1>2 DEF AsTyped
<1>5. Readable(f)
  BY <1>3, <1>4 DEF Readable
<1>6. Finds(f) = IF f.isRegexp THEN Pattern[f.value] ELSE { f.value }
  BY <1>1, <1>3 DEF Finds
<1> QED
  BY <1>5, <1>6, Zenon DEF Holds, Says

LEMMA KubeProbeFilter ==
  Readable(KubeProbe) /\ \A l : Holds(KubeProbe, l) <=> Probe \notin l.has
<1>1. /\ KubeProbe.value = Probe /\ KubeProbe.type # "contains"
      /\ KubeProbe.isRegexp = FALSE
  BY Zenon DEF KubeProbe
<1>2. Meant(KubeProbe) = Probe
  BY <1>1, WordsAssumption DEF Meant
<1>3. Probe # NoWord /\ Probe # "error"
  BY Zenon DEF NoWord, Probe
<1>4. Finds(KubeProbe) = { Probe }
  BY <1>1, <1>2 DEF Finds
<1> QED
  BY <1>1, <1>2, <1>3, <1>4 DEF Readable, Holds, Filter

LEMMA PlainKeywordFilter ==
  ASSUME keyword.applied \in Words, PlainKeyword
  PROVE  Readable(ByKeyword) /\ \A l : Holds(ByKeyword, l) <=> Alike[keyword.applied] \cap l.has # {}
<1>1. /\ ByKeyword.value = keyword.applied /\ ByKeyword.type = "contains"
      /\ ByKeyword.isRegexp = TRUE /\ ByKeyword.anyCase = TRUE
  BY DEF ByKeyword, Keyword
<1>2. keyword.applied # NoWord /\ keyword.applied # "error"
  BY WordsAssumption
<1>3. /\ Unquoted[keyword.applied] = keyword.applied /\ keyword.applied \notin NoRegexp
      /\ UNION { Alike[p] : p \in Pattern[keyword.applied] } = Alike[keyword.applied]
  BY <1>1, <1>2 DEF PlainKeyword, AsTyped, ByKeyword
<1>4. Meant(ByKeyword) = keyword.applied
  BY <1>1, <1>3 DEF Meant
<1>5. Finds(ByKeyword) = Alike[keyword.applied]
  BY <1>1, <1>3, <1>4 DEF Finds
<1> QED
  BY <1>1, <1>2, <1>3, <1>4, <1>5 DEF Readable, Holds, Filter

LEMMA ListsShowWanted == FilterLists => LogShowsWanted
<1> SUFFICES ASSUME FilterLists
             PROVE  /\ (named /\ PlainKeyword /\ \A i \in 1 .. Len(filters) : AsTyped(filters[i]))
                         => Expr.ok /\ Found(Expr) = Wanted
                    /\ Expr.ok => \A l \in Found(Expr) :
                         /\ l.of = "this"
                         /\ \A i \in 1 .. Len(filters) :
                              AsTyped(filters[i]) => Says(filters[i], l)
                    /\ LokiQuery.maxLines = maxLines.applied \/ maxLines.applied = "NaN"
  BY DEF LogShowsWanted
<1> DEFINE lines == ToSet(LineFilters)
<1>1. \A f : f \in lines <=> \/ f = KubeProbe /\ named
                             \/ f = ByKeyword /\ keyword.applied # NoWord
                             \/ \E i \in 1 .. Len(filters) : f = filters[i]
  BY FiltersOfQuery, MembersOfFilters
<1>2. /\ Expr.selectors = Selectors /\ Expr.labels = components /\ Expr.lines = lines
      /\ Expr.ok <=> Selectors # {} /\ \A f \in lines : Readable(f)
  BY DEF Expr
<1>3. \A i \in 1 .. Len(filters) : filters[i] \in LineFilter
  BY DEF FilterLists
<1>4. keyword.applied # NoWord => keyword.applied \in Words
  BY DEF FilterLists
<1> HIDE DEF lines
<1>5. ASSUME named, PlainKeyword, \A i \in 1 .. Len(filters) : AsTyped(filters[i])
      PROVE  Expr.ok /\ Found(Expr) = Wanted
  <2>1. Selectors = { "yatai_ai_deployment" }
    BY <1>5 DEF Selectors
  <2>2. \A f \in lines : Readable(f)
    BY <1>1, <1>3, <1>4, <1>5, PlainFilter, KubeProbeFilter, PlainKeywordFilter
  <2>3. ASSUME NEW l \in Lines
        PROVE  (\A f \in lines : Holds(f, l)) <=>
                 /\ Probe \notin l.has
                 /\ keyword.applied # NoWord => Alike[keyword.applied] \cap l.has # {}
                 /\ \A i \in 1 .. Len(filters) : Says(filters[i], l)
    <3>1. Holds(KubeProbe, l) <=> Probe \notin l.has
      BY KubeProbeFilter
    <3>2. keyword.applied # NoWord =>
            (Holds(ByKeyword, l) <=> Alike[keyword.applied] \cap l.has # {})
      BY <1>4, <1>5, PlainKeywordFilter
    <3>3. \A i \in 1 .. Len(filters) : Holds(filters[i], l) <=> Says(filters[i], l)
      BY <1>3, <1>5, PlainFilter
    <3> QED
      BY <1>1, <1>5, <3>1, <3>2, <3>3
  <2>4. \A l : l \in Found(Expr) <=> l \in Wanted
    BY <1>2, <2>1, <2>3 DEF Found, Wanted
  <2> QED
    BY <1>2, <2>1, <2>2, <2>4
<1>6. ASSUME Expr.ok, NEW l \in Found(Expr)
      PROVE  l.of = "this"
  <2>1. "yatai_ai_deployment" \in Expr.selectors
    BY <1>2, <1>6 DEF Selectors
  <2> QED
    BY <1>6, <2>1 DEF Found
<1>7. ASSUME NEW l \in Found(Expr), NEW i \in 1 .. Len(filters), AsTyped(filters[i])
      PROVE  Says(filters[i], l)
  <2>1. Holds(filters[i], l)
    BY <1>1, <1>2, <1>7 DEF Found
  <2> QED
    BY <1>3, <1>7, <2>1, PlainFilter
<1>8. LokiQuery.maxLines = maxLines.applied \/ maxLines.applied = "NaN"
  BY DEF LokiQuery, InJson
<1> QED
  BY <1>5, <1>6, <1>7, <1>8

(* Of plain words the log shows the lines that toolbar and form have asked *)
(* for; of any, none that a plain filter rules out; and as many lines as   *)
(* were asked for, unless that was no number (LokiLog).                    *)
THEOREM LogFollowsToolbar == GrafanaSpec => []LogShowsWanted
BY ListsBegin, ListsStay, ListsShowWanted, PTL DEF GrafanaSpec

-----------------------------------------------------------------------------
(* An address has a query and a page, and a history is a sequence.         *)
IsAddress(a)  == a = [q |-> a.q, page |-> a.page]
IsHistory(t)  == \E S : t \in Seq(S)

(* Every writer but the table has the page of the address that was opened. *)
PagesOf(s) ==
  /\ IsHistory(s.trail) /\ s.at \in 1 .. Len(s.trail)
  /\ DOMAIN s.refs = Writers /\ \A w \in Writers : IsAddress(s.refs[w])
  /\ \A w \in Writers \ { "table" } : s.refs[w].page = s.trail[1].page
  /\ s.trail[s.at].page # s.trail[1].page => s.by \in { "table", "history" }

PagesInv == PagesOf(Here)

(* At rest no filter takes a click for its own, and one at most is open.   *)
OpenInv ==
  /\ self = [f \in Filters |-> FALSE]
  /\ open = {} \/ \E f \in Filters : open = { f }

(* A push forgets what was ahead in the history and keeps its beginning.   *)
LEMMA PushedHistory ==
  ASSUME NEW t, IsHistory(t), NEW n \in 1 .. Len(t), NEW new
  PROVE  LET u == Append(SubSeq(t, 1, n), new)
         IN IsHistory(u) /\ n + 1 \in 1 .. Len(u) /\ u[1] = t[1] /\ u[n + 1] = new
<1>1. PICK S : t \in Seq(S)
  BY DEF IsHistory
<1> DEFINE u == Append(SubSeq(t, 1, n), new)
<1>2. SubSeq(t, 1, n) \in Seq(S) /\ Len(SubSeq(t, 1, n)) = n /\ SubSeq(t, 1, n)[1] = t[1]
  BY <1>1
<1>3. SubSeq(t, 1, n) \in Seq(S \cup { new })
  BY <1>2
<1>4. u \in Seq(S \cup { new }) /\ Len(u) = n + 1 /\ u[n + 1] = new /\ u[1] = t[1]
  BY <1>2, <1>3
<1>5. IsHistory(u)
  BY <1>4 DEF IsHistory
<1>6. n + 1 \in 1 .. Len(u)
  BY <1>4
<1> QED
  BY <1>4, <1>5, <1>6

LEMMA WriterKeepsPage ==
  ASSUME NEW s, PagesOf(s), NEW w \in Writers \ { "table" }, NEW text
  PROVE  PagesOf(UpdateQuery(s, w, [s.refs[w] EXCEPT !.q = text]))
<1> DEFINE new == [s.refs[w] EXCEPT !.q = text]
           t == UpdateQuery(s, w, new)
<1>1. IsAddress(new) /\ new.page = s.trail[1].page
  <2> DEFINE old == s.refs[w]
  <2>1. old = [q |-> old.q, page |-> old.page] /\ old.page = s.trail[1].page
    BY DEF PagesOf, IsAddress
  <2> HIDE DEF old
  <2>2. LET a == [old EXCEPT !.q = text]
        IN a = [q |-> a.q, page |-> a.page] /\ a.page = old.page
    BY <2>1
  <2> QED
    BY <2>1, <2>2 DEF old, IsAddress
<1>2. /\ t.refs = [s.refs EXCEPT ![w] = new] /\ t.by = w
      /\ t.trail = Append(SubSeq(s.trail, 1, s.at), new) /\ t.at = s.at + 1
  BY DEF UpdateQuery
<1> HIDE DEF new, t
<1>3. /\ IsHistory(t.trail) /\ t.at \in 1 .. Len(t.trail)
      /\ t.trail[1] = s.trail[1] /\ t.trail[t.at] = new
  BY <1>2, PushedHistory DEF PagesOf
<1>4. \A v \in Writers : t.refs[v] = IF v = w THEN new ELSE s.refs[v]
  BY <1>2 DEF PagesOf
<1>5. DOMAIN t.refs = Writers /\ \A v \in Writers : IsAddress(t.refs[v])
  BY <1>1, <1>2, <1>4 DEF PagesOf
<1>6. PagesOf(t)
  BY <1>1, <1>3, <1>4, <1>5 DEF PagesOf
<1> QED
  BY <1>6 DEF t, new

LEMMA TableTurnsPage ==
  ASSUME PagesInv, NEW n
  PROVE  PagesOf(SetPage(n))
<1> DEFINE new == [q |-> Url.q, page |-> n]
           t == SetPage(n)
<1>1. IsAddress(new) /\ "table" \in Writers
  BY DEF IsAddress, Writers
<1>2. /\ t.refs = [refs EXCEPT !["table"] = new] /\ t.by = "table"
      /\ t.trail = Append(SubSeq(trail, 1, at), new) /\ t.at = at + 1
  BY DEF SetPage, UpdateQuery, Here
<1> HIDE DEF new, t
<1>3. IsHistory(t.trail) /\ t.at \in 1 .. Len(t.trail) /\ t.trail[1] = trail[1]
  BY <1>2, PushedHistory DEF PagesInv, PagesOf, Here
<1>4. \A v \in Writers : t.refs[v] = IF v = "table" THEN new ELSE refs[v]
  BY <1>2 DEF PagesInv, PagesOf, Here
<1>5. DOMAIN t.refs = Writers /\ \A v \in Writers : IsAddress(t.refs[v])
  BY <1>1, <1>2, <1>4 DEF PagesInv, PagesOf, Here
<1>6. PagesOf(t)
  BY <1>2, <1>3, <1>4, <1>5 DEF PagesInv, PagesOf, Here
<1> QED
  BY <1>6 DEF t

LEMMA PagesBegin == ListInit => PagesInv
<1> SUFFICES ASSUME ListInit PROVE PagesInv
  OBVIOUS
<1>1. PICK t \in Texts, n \in 0 .. NumPages : trail = << [q |-> t, page |-> n] >>
  BY DEF ListInit
<1>2. trail[1] = [q |-> t, page |-> n] /\ Len(trail) = 1 /\ IsHistory(trail)
  <2>1. trail \in Seq({ [q |-> t, page |-> n] })
    BY <1>1
  <2> QED
    BY <1>1, <2>1 DEF IsHistory
<1>3. at = 1 /\ refs = [w \in Writers |-> trail[1]]
  BY DEF ListInit
<1>4. /\ DOMAIN refs = Writers /\ \A w \in Writers : refs[w] = trail[1]
      /\ IsAddress(trail[1])
  BY <1>2, <1>3 DEF IsAddress
<1>5. /\ Here.trail = trail /\ Here.at = 1 /\ Here.refs = refs
  BY <1>3 DEF Here
<1>6. IsHistory(Here.trail) /\ Here.at \in 1 .. Len(Here.trail)
  <2>1. 1 \in 1 .. Len(trail)
    BY <1>2
  <2> QED
    BY <1>2, <1>5, <2>1, Zenon
<1>7. DOMAIN Here.refs = Writers /\ \A w \in Writers : IsAddress(Here.refs[w])
  BY <1>4, <1>5
<1>8. \A w \in Writers \ { "table" } : Here.refs[w].page = Here.trail[1].page
  BY <1>4, <1>5
<1>9. Here.trail[Here.at] = Here.trail[1]
  BY <1>5
<1> QED
  BY <1>6, <1>7, <1>8, <1>9 DEF PagesInv, PagesOf

LEMMA BecomesPages ==
  ASSUME NEW s, PagesOf(s), Becomes(s)
  PROVE  PagesInv'
BY DEF PagesInv, PagesOf, Here, Becomes, IsHistory, IsAddress

LEMMA PagesUntouched ==
  ASSUME PagesInv, UNCHANGED << trail, at, refs, by >>
  PROVE  PagesInv'
BY BecomesPages DEF PagesInv, Becomes, Here

LEMMA EffectsKeepPages ==
  ASSUME PagesInv, RunEffects
  PROVE  PagesInv'
<1> DEFINE input == IF "value" \in due /\ ~keyDown
                    THEN WriteQ(Here, "input", parseQ(value.text)) ELSE Here
<1>1. "input" \in Writers \ { "table" } /\ "card" \in Writers \ { "table" }
  BY DEF Writers
<1>2. PagesOf(input)
  BY <1>1, WriterKeepsPage DEF WriteQ, PagesInv
<1>3. Becomes(IF "dates" \in due THEN WriteQ(input, "card", Dated(Q)) ELSE input)
  BY DEF RunEffects
<1> HIDE DEF input
<1>4. PagesOf(WriteQ(input, "card", Dated(Q)))
  BY <1>1, <1>2, WriterKeepsPage DEF WriteQ
<1> QED
  BY <1>2, <1>3, <1>4, BecomesPages

LEMMA GoKeepsPages ==
  ASSUME PagesInv, NEW i, Go(i)
  PROVE  PagesInv'
<1>1. DOMAIN trail = 1 .. Len(trail)
  BY DEF PagesInv, PagesOf, Here, IsHistory
<1> QED
  BY <1>1 DEF PagesInv, PagesOf, Here, IsAddress, Go

LEMMA PagesStay ==
  ASSUME PagesInv, [ListNext]_listVars
  PROVE  PagesInv'
<1>1. CASE KeyUp \/ ClickElsewhere \/ UNCHANGED listVars
  BY <1>1, PagesUntouched DEF KeyUp, ClickElsewhere, listVars
<1>2. CASE SelectPreset \/ Clear \/ \E key \in BOOLEAN : Search(key)
  <2>1. "input" \in Writers \ { "table" } /\ "bar" \in Writers \ { "table" }
    BY DEF Writers
  <2>2. \A q : PagesOf(WriteQ(Here, "input", q))
    BY <2>1, WriterKeepsPage DEF WriteQ, PagesInv
  <2>3. PagesOf(ClearQ(Here, "bar"))
    BY <2>1, WriterKeepsPage DEF ClearQ, PagesInv
  <2> QED
    BY <1>2, <2>2, <2>3, BecomesPages DEF SelectPreset, Clear, Search
<1>3. CASE \/ \E t \in Texts, b, key \in BOOLEAN : Change(t, b, key)
           \/ \E r \in Ranges \cup { Emptied } : Pick(r)
  BY <1>3, PagesUntouched DEF Change, Pick
<1>4. CASE \E f \in Filters : ClickLabel(f) \/ \E v \in Options : Select(f, v)
  <2>1. "card" \in Writers \ { "table" }
    BY DEF Writers
  <2>2. \A q : PagesOf(WriteQ(Here, "card", q))
    BY <2>1, WriterKeepsPage DEF WriteQ, PagesInv
  <2> QED
    BY <1>4, <2>2, PagesUntouched, BecomesPages DEF ClickLabel, Select
<1>5. CASE \E n \in 1 .. NumPages : TurnTo(n)
  BY <1>5, TableTurnsPage, BecomesPages DEF TurnTo
<1>6. CASE Go(at - 1) \/ Go(at + 1)
  BY <1>6, GoKeepsPages
<1>7. CASE RunEffects
  BY <1>7, EffectsKeepPages
<1> QED
  BY <1>1, <1>2, <1>3, <1>4, <1>5, <1>6, <1>7, Zenon DEF ListNext

LEMMA OpenStays ==
  ASSUME OpenInv, [ListNext]_listVars
  PROVE  OpenInv'
<1>1. CASE UNCHANGED << open, self >>
  BY <1>1 DEF OpenInv
<1>2. ASSUME NEW f \in Filters, ClickLabel(f) PROVE OpenInv'
  <2>1. \A g \in Filters : ~self[g] /\ [self EXCEPT ![f] = TRUE][g] = (g = f)
    BY DEF OpenInv
  <2>2. \A g \in Filters : g \in open' => g = f
    BY <1>2, <2>1 DEF ClickLabel
  <2>3. open' \subseteq Filters
    BY <1>2 DEF ClickLabel
  <2>4. open' = {} \/ open' = { f }
    BY <2>2, <2>3
  <2>5. self' = [g \in Filters |-> FALSE]
    BY <1>2 DEF ClickLabel, OpenInv
  <2> QED
    BY <2>4, <2>5 DEF OpenInv
<1>3. CASE ClickElsewhere
  BY <1>3 DEF ClickElsewhere, OpenInv
<1> QED
  BY <1>1, <1>2, <1>3 DEF ListNext, listVars, RunEffects, KeyUp, SelectPreset, Clear, Pick,
     Change, Search, Select, TurnTo, Go

LEMMA OneIsOpen == OpenInv => OneOpen
BY FS_EmptySet, FS_Singleton DEF OpenInv, OneOpen

(* What \div gives.                                                        *)
LEMMA Quotient ==
  ASSUME NEW a \in Nat, NEW b \in Nat \ { 0 }
  PROVE  a \div b \in Nat /\ (a \div b) * b <= a /\ a < (a \div b + 1) * b
OBVIOUS

(* With pages of at least one item, each item is on one of them.           *)
LEMMA EveryItem == Total \in Nat /\ Count \in Nat \ { 0 } => AllOffered
<1> SUFFICES ASSUME Total \in Nat, Count \in Nat \ { 0 }, NEW i \in 1 .. Total
             PROVE  \E n \in 1 .. NumPages : i \in ItemsOf(n)
  BY DEF AllOffered
<1> DEFINE a == (i - 1) \div Count
           b == Total \div Count
<1>1. a \in Nat /\ a * Count <= i - 1 /\ i - 1 < (a + 1) * Count
  BY Quotient
<1>2. b \in Nat /\ b * Count <= Total /\ Total < (b + 1) * Count
  BY Quotient
<1> HIDE DEF a, b
<1>3. a <= b
  <2> SUFFICES ASSUME a > b PROVE FALSE
    BY <1>1, <1>2
  <2>1. (b + 1) * Count <= a * Count
    BY <1>1, <1>2
  <2>2. (b + 1) * Count \in Int /\ a * Count \in Int
    BY <1>1, <1>2
  <2> QED
    BY <1>1, <1>2, <2>1, <2>2
<1>4. a + 1 \in 1 .. NumPages
  BY <1>1, <1>2, <1>3 DEF NumPages, b
<1>5. i \in ItemsOf(a + 1)
  BY <1>1 DEF ItemsOf
<1> QED
  BY <1>4, <1>5

(* Another page of a list than that of the address is on display only      *)
(* because it was turned to, one filter at most is open, and no item is    *)
(* out of reach of the pagination (useQueryArgs, the filters, and the      *)
(* pagination of Table, List and Grid).                                    *)
THEOREM ListFollowsUrl ==
  Total \in Nat /\ Count \in Nat \ { 0 } =>
    (ListSpec => [](PageTurned /\ OneOpen /\ AllOffered))
<1> SUFFICES ASSUME Total \in Nat /\ Count \in Nat \ { 0 }
             PROVE  ListSpec => [](PageTurned /\ OneOpen /\ AllOffered)
  OBVIOUS
<1> DEFINE Inv == PagesInv /\ OpenInv
<1>1. ListInit => Inv
  BY PagesBegin DEF ListInit, OpenInv
<1>2. Inv /\ [ListNext]_listVars => Inv'
  BY PagesStay, OpenStays
<1>3. Inv => PageTurned /\ OneOpen
  BY OneIsOpen DEF PagesInv, PagesOf, Here, PageTurned, Url
<1>4. AllOffered
  BY EveryItem
<1> QED
  BY <1>1, <1>2, <1>3, <1>4, PTL DEF ListSpec

-----------------------------------------------------------------------------
(* What hides in o is in v as it is in o.                                  *)
Keeps(o, v) ==
  /\ Hidden \in DOMAIN o.fields =>
       Hidden \in DOMAIN v.fields /\ v.fields[Hidden] = o.fields[Hidden]
  /\ \A r \in DOMAIN o.runners :
       /\ r \in DOMAIN v.runners
       /\ o.runners[r].over # NoText => v.runners[r].over = o.runners[r].over

HiddenInv ==
  phase # "closed" => Keeps(origin, values) /\ shared \subseteq DOMAIN values.runners

(* Whatever is shown is what would be sent.                                *)
AgreeInv ==
  /\ \A f \in DOMAIN ui.fields \ { Hidden } :
       f \in DOMAIN values.fields /\ values.fields[f] = ui.fields[f]
  /\ \A r \in DOMAIN ui.runners :
       r \in DOMAIN values.runners
         /\ (values.runners[r].own = ui.runners[r].own \/ ui.runners[r].own = "blank")

(* What the effects leave as it is.                                        *)
ShownBy(fs, new) ==
  \A f \in DOMAIN fs : f \in DOMAIN new /\ (f # "kube_namespace" => new[f] = fs[f])

(* A form that nobody has touched is at the server's revision, or at the   *)
(* one before, which it was opened with; and as long as it shows the       *)
(* runners that it was opened with, it has no others.                      *)
AtServer == ui.runners = server.runners /\ confs = server.conf /\ ShownBy(server.fields, ui.fields)

Current ==
  /\ \/ shown = server.number /\ AtServer
     \/ shown = 1 /\ server.number = 2
  /\ shown = 1 => ui.runners = origin.runners
  /\ ui.runners = origin.runners => values.runners = origin.runners

CurrentInv ==
  mode = "edit" =>
    /\ phase = "closed" /\ fresh =>
         cached = server \/ (cached.number = 1 /\ server.number = 2)
    /\ phase # "closed" /\ ~touched /\ based => Current

(* The shapes that EXCEPT relies on.                                       *)
IsForm(v) == v = [fields |-> v.fields, runners |-> v.runners, env |-> v.env]
IsRevision(v) ==
  v = [number |-> v.number, conf |-> v.conf, fields |-> v.fields, runners |-> v.runners]
AreRunners(rs) == rs = [r \in DOMAIN rs |-> Runner(rs[r].own, rs[r].over)]

FormShapes ==
  /\ mode \in { "new", "edit" } /\ phase \in { "open", "sending", "closed" }
  /\ server.number \in Nat
  /\ IsForm(ui) /\ IsForm(values) /\ IsRevision(server) /\ IsRevision(cached)
  /\ AreRunners(ui.runners) /\ AreRunners(values.runners)
  /\ AreRunners(server.runners) /\ AreRunners(cached.runners) /\ AreRunners(origin.runners)
  /\ \A s \in sent : AreRunners(s.runners)

FormInv == FormShapes /\ AgreeInv /\ HiddenInv /\ CurrentInv

LEMMA RevisionShapes ==
  ASSUME NEW n, NEW c, NEW b, NEW conf, NEW over, NEW v, v = Revision(n, c, b, conf, over)
  PROVE  IsRevision(v) /\ AreRunners(v.runners) /\ v.number = n
BY DEF Revision, IsRevision, AreRunners, Runner

LEMMA EmptyForm ==
  /\ IsForm(NoFields) /\ AreRunners(NoFields.runners) /\ DOMAIN NoFields.runners = {}
  /\ Hidden \notin DOMAIN NoFields.fields
<1>1. IsForm(NoFields) /\ AreRunners(NoFields.runners) /\ DOMAIN NoFields.runners = {}
  BY DEF NoFields, IsForm, AreRunners
<1>2. Hidden \notin DOMAIN NoFields.fields
  BY DEF NoFields, Over, Fields, Others, Hidden, TargetItems, ReplicaItems,
         ResourceItems, Strategy, DebugItems, EnvItems
<1> QED
  BY <1>1, <1>2

(* mergeWith on runners: shapes stay, and so do equal runners.             *)
LEMMA MergedShapes ==
  ASSUME NEW old, NEW new, AreRunners(old), AreRunners(new)
  PROVE  AreRunners(MergedRunners(old, new))
BY DEF AreRunners, MergedRunners, MergedRunner, Over, Runner

LEMMA MergedSame ==
  ASSUME NEW rs, AreRunners(rs)
  PROVE  MergedRunners(rs, rs) = rs
<1>1. \A r \in DOMAIN rs : MergedRunner(rs[r], rs[r]) = rs[r]
  BY DEF AreRunners, MergedRunner, Runner
<1>2. MergedRunners(rs, rs) = [r \in DOMAIN rs |-> MergedRunner(rs[r], rs[r])]
  BY DEF MergedRunners, Over
<1>3. rs = [r \in DOMAIN rs |-> rs[r]]
  BY DEF AreRunners
<1> QED
  BY <1>1, <1>2, <1>3

LEMMA MergedFirst ==
  ASSUME NEW old, NEW rs, AreRunners(rs), DOMAIN old = {}
  PROVE  MergedRunners(old, rs) = rs
<1>1. MergedRunners(old, rs) = [r \in DOMAIN rs |-> rs[r]]
  BY DEF MergedRunners, Over
<1>2. rs = [r \in DOMAIN rs |-> rs[r]]
  BY DEF AreRunners
<1> QED
  BY <1>1, <1>2

LEMMA InitForm == FormInit => FormInv
<1> SUFFICES ASSUME FormInit PROVE FormInv
  OBVIOUS
<1>1. PICK c \in Clusters, b \in Bentos, over \in FieldTexts :
        server = Revision(1, c, b, NoText, over)
  BY DEF FormInit
<1>2. server.number = 1 /\ AreRunners(server.runners) /\ IsRevision(server)
  BY <1>1, RevisionShapes
<1>3. FormShapes
  BY <1>2, EmptyForm DEF FormInit, FormShapes
<1>4. AgreeInv
  <2>1. ui = NoFields /\ values = NoFields
    BY DEF FormInit
  <2> QED
    BY <2>1, EmptyForm DEF AgreeInv
<1>5. HiddenInv /\ CurrentInv
  BY DEF FormInit, HiddenInv, CurrentInv
<1> QED
  BY <1>3, <1>4, <1>5 DEF FormInv

(* What the effects make of the fields and of the runners.                 *)
LEMMA EffectsOf ==
  ASSUME NEW u, IsForm(u), AreRunners(u.runners), NEW b
  PROVE  /\ IsForm(Defaults(u, b)) /\ AreRunners(Defaults(u, b).runners)
         /\ Defaults(u, b).fields = u.fields
         /\ mode = "edit" => Defaults(u, b) = u
<1>1. CASE Defaults(u, b) = u
  BY <1>1
<1>2. CASE Defaults(u, b) # u
  <2>1. PICK rs : rs = [r \in UNION { RunnersOf(x) : x \in b } |-> Runner("default", NoText)]
    OBVIOUS
  <2>2. mode = "new" /\ Defaults(u, b) = [u EXCEPT !.runners = rs]
    BY <1>2, <2>1 DEF Defaults
  <2>3. AreRunners(rs)
    BY <2>1 DEF AreRunners, Runner
  <2> QED
    BY <2>2, <2>3 DEF IsForm
<1> QED
  BY <1>1, <1>2

LEMMA SettledOf ==
  ASSUME NEW u, NEW s, IsForm(u), s = Settled(u)
  PROVE  /\ IsForm(s) /\ s.runners = u.runners
         /\ ShownBy(u.fields, s.fields)
         /\ Hidden \in DOMAIN s.fields => Hidden \in DOMAIN u.fields
<1> DEFINE told == Having(u.fields, "kube_namespace", DefaultNamespace(u.fields["cluster_name"]))
<1>1. s = u \/ s = [u EXCEPT !.fields = told]
  BY DEF Settled
<1>2. CASE s = u
  BY <1>2 DEF ShownBy
<1>3. CASE s = [u EXCEPT !.fields = told]
  <2>1. IsForm(s) /\ s.runners = u.runners /\ s.fields = told
    BY <1>3 DEF IsForm
  <2> QED
    BY <2>1 DEF Having, Over, ShownBy, Hidden
<1> QED
  BY <1>1, <1>2, <1>3

LEMMA SetUIEffect ==
  ASSUME NEW u, NEW v, IsForm(u), AreRunners(u.runners), AreRunners(v.runners), SetUI(u, v)
  PROVE  /\ IsForm(ui') /\ IsForm(values') /\ AreRunners(ui'.runners) /\ AreRunners(values'.runners)
         /\ AgreeInv'
         /\ ShownBy(u.fields, ui'.fields)
         /\ mode = "edit" => ui'.runners = u.runners
         /\ values' = Merge(v, ui')
         /\ DOMAIN v.runners \cup DOMAIN ui'.runners \subseteq DOMAIN values'.runners
<1>1. PICK s : s = Settled(u)
  OBVIOUS
<1>2. PICK new : ui' = new /\ values' = Merge(v, new) /\ new = Defaults(s, bento')
  BY <1>1 DEF SetUI
<1>3. IsForm(s) /\ s.runners = u.runners /\ ShownBy(u.fields, s.fields)
  BY <1>1, SettledOf
<1>4. IsForm(new) /\ AreRunners(new.runners) /\ new.fields = s.fields /\ (mode = "edit" => new = s)
  <2>1. PICK b : b = bento'
    OBVIOUS
  <2> QED
    BY <1>2, <1>3, <2>1, EffectsOf
<1>5. /\ values'.fields = Over([f \in DOMAIN new.fields |->
                                 IF f = Hidden /\ f \in DOMAIN v.fields THEN v.fields[f]
                                 ELSE new.fields[f]], v.fields)
      /\ values'.runners = MergedRunners(v.runners, new.runners)
      /\ IsForm(values')
  BY <1>2 DEF Merge, IsForm
<1>6. AreRunners(values'.runners)
  BY <1>4, <1>5, MergedShapes
<1>7. AgreeInv'
  <2>1. \A f \in DOMAIN new.fields \ { Hidden } :
          f \in DOMAIN values'.fields /\ values'.fields[f] = new.fields[f]
    BY <1>5 DEF Over
  <2>2. \A r \in DOMAIN new.runners : r \in DOMAIN values'.runners /\
         (values'.runners[r].own = new.runners[r].own \/ new.runners[r].own = "blank")
    BY <1>5 DEF Over, MergedRunners, MergedRunner, Runner
  <2> QED
    BY <1>2, <2>1, <2>2 DEF AgreeInv
<1>8. DOMAIN v.runners \cup DOMAIN new.runners \subseteq DOMAIN values'.runners
  BY <1>5 DEF MergedRunners, Over
<1> QED
  BY <1>2, <1>3, <1>4, <1>5, <1>6, <1>7, <1>8

(* What is not shown is kept.                                              *)
LEMMA MergeKeeps ==
  ASSUME NEW o, NEW v, NEW new, NEW all, all = Merge(v, new), Keeps(o, v)
  PROVE  Keeps(o, all)
<1>1. /\ all.fields = Over([f \in DOMAIN new.fields |->
                             IF f = Hidden /\ f \in DOMAIN v.fields THEN v.fields[f]
                             ELSE new.fields[f]], v.fields)
      /\ all.runners = MergedRunners(v.runners, new.runners)
  BY DEF Merge
<1>2. Hidden \in DOMAIN v.fields =>
        Hidden \in DOMAIN all.fields /\ all.fields[Hidden] = v.fields[Hidden]
  BY <1>1 DEF Over
<1>3. \A r \in DOMAIN v.runners :
        /\ r \in DOMAIN all.runners
        /\ v.runners[r].over # NoText => all.runners[r].over = v.runners[r].over
  BY <1>1 DEF Over, MergedRunners, MergedRunner, Runner
<1> QED
  BY <1>2, <1>3 DEF Keeps

LEMMA OpenKeeps == FormInv /\ OpenDeploymentForm => FormInv'
<1> SUFFICES ASSUME FormInv, OpenDeploymentForm PROVE FormInv'
  OBVIOUS
<1> USE DEF FormInv, FormShapes
<1>1. PICK u : u = IF mode = "new" THEN NoFields ELSE FormOf(cached)
  OBVIOUS
<1>2. PICK v : v = NoFields
  OBVIOUS
<1>3. /\ SetUI(u, v) /\ origin' = u /\ IsForm(u) /\ AreRunners(u.runners)
      /\ AreRunners(v.runners)
  BY <1>1, <1>2, EmptyForm DEF OpenDeploymentForm, StartForm, IsForm, FormOf
<1>4. /\ IsForm(ui') /\ IsForm(values') /\ AreRunners(ui'.runners) /\ AreRunners(values'.runners)
      /\ AgreeInv' /\ (mode = "edit" => ui'.runners = u.runners)
      /\ ShownBy(u.fields, ui'.fields)
      /\ values' = Merge(v, ui')
  BY <1>3, SetUIEffect
<1>5. /\ UNCHANGED << mode, server, cached, fresh >> /\ phase = "closed" /\ phase' = "open"
      /\ sent' = {} /\ based' = fresh
      /\ mode = "edit" => shown' = cached.number /\ confs' = cached.conf
  BY DEF OpenDeploymentForm, StartForm
<1>6. FormShapes'
  BY <1>3, <1>4, <1>5
<1>7. values'.runners = ui'.runners
  <2>1. values'.runners = MergedRunners(v.runners, ui'.runners)
    BY <1>4 DEF Merge
  <2> QED
    BY <1>2, <1>4, <2>1, EmptyForm, MergedFirst
<1>8. HiddenInv'
  <2>1. Hidden \in DOMAIN ui'.fields =>
          Hidden \in DOMAIN values'.fields /\ values'.fields[Hidden] = ui'.fields[Hidden]
    BY <1>2, <1>4, EmptyForm DEF Merge, Over
  <2>2. Hidden \in DOMAIN u.fields =>
          Hidden \in DOMAIN ui'.fields /\ ui'.fields[Hidden] = u.fields[Hidden]
    BY <1>4 DEF ShownBy, Hidden
  <2>3. \A r \in DOMAIN u.runners : r \in DOMAIN values'.runners /\ values'.runners[r] = u.runners[r]
    <3>1. CASE mode = "new"
      BY <1>1, <3>1, EmptyForm
    <3>2. CASE mode = "edit"
      BY <1>4, <1>7, <3>2
    <3> QED
      BY <3>1, <3>2
  <2>4. Keeps(u, values')
    BY <2>1, <2>2, <2>3 DEF Keeps
  <2>5. shared' \subseteq DOMAIN u.runners
    BY <1>1 DEF OpenDeploymentForm, StartForm, FormOf
  <2> QED
    BY <1>3, <2>3, <2>4, <2>5 DEF HiddenInv
<1>9. CurrentInv'
  <2>1. ASSUME mode = "edit", fresh PROVE Current'
    <3>1. u.runners = cached.runners /\ u.fields = cached.fields
      BY <1>1, <2>1 DEF FormOf
    <3>2. (shown' = server'.number /\ AtServer') \/ (shown' = 1 /\ server'.number = 2)
      <4>1. CASE cached = server
        BY <1>4, <1>5, <2>1, <3>1, <4>1 DEF AtServer
      <4>2. CASE cached # server
        BY <1>5, <2>1, <4>2 DEF CurrentInv
      <4> QED
        BY <4>1, <4>2
    <3>3. ui'.runners = origin'.runners /\ values'.runners = origin'.runners
      BY <1>3, <1>4, <1>7, <2>1
    <3> QED
      BY <3>2, <3>3 DEF Current
  <2> QED
    BY <1>5, <2>1 DEF CurrentInv
<1> QED
  BY <1>4, <1>6, <1>8, <1>9

(* What the merge writes into the objects of the cache.                    *)
LEMMA WriteThroughShapes ==
  ASSUME FormInv, AreRunners(values'.runners), shared \subseteq DOMAIN values'.runners,
         cached' = cached \/ WriteThrough
  PROVE  IsRevision(cached') /\ AreRunners(cached'.runners)
<1>1. CASE cached' = cached
  BY <1>1 DEF FormInv, FormShapes
<1>2. CASE WriteThrough
  <2>1. PICK rs : rs = [r \in DOMAIN cached.runners |->
                         IF r \in shared THEN values'.runners[r] ELSE cached.runners[r]]
    OBVIOUS
  <2>2. cached' = [cached EXCEPT !.runners = rs]
    BY <1>2, <2>1 DEF WriteThrough
  <2> QED
    <3>1. AreRunners(rs)
      BY <2>1 DEF FormInv, FormShapes, AreRunners, Runner
    <3> QED
      BY <2>2, <3>1 DEF FormInv, FormShapes, IsRevision
<1> QED
  BY <1>1, <1>2

(* Whatever the user does to the form: it is touched.                      *)
LEMMA EditKeeps ==
  ASSUME FormInv, Edit, NEW u, NEW v, IsForm(u), AreRunners(u.runners), AreRunners(v.runners),
         SetUI(u, v), Keeps(origin', v), AreRunners(origin'.runners),
         shared' \subseteq DOMAIN v.runners,
         cached' = cached \/ (WriteThrough /\ shared' = shared)
  PROVE  FormInv'
<1> USE DEF FormInv, FormShapes
<1>1. /\ UNCHANGED << mode, phase, server, sent, fresh >> /\ touched' /\ phase # "closed"
  BY DEF Edit
<1>2. /\ IsForm(ui') /\ IsForm(values') /\ AreRunners(ui'.runners) /\ AreRunners(values'.runners)
      /\ AgreeInv' /\ values' = Merge(v, ui')
      /\ shared' \subseteq DOMAIN values'.runners
  BY SetUIEffect
<1>3. IsRevision(cached') /\ AreRunners(cached'.runners)
  <2>1. CASE cached' = cached
    BY <2>1
  <2>2. CASE WriteThrough /\ shared' = shared
    BY <1>2, <2>2, WriteThroughShapes
  <2> QED
    BY <2>1, <2>2
<1>4. FormShapes'
  BY <1>1, <1>2, <1>3
<1>5. HiddenInv'
  <2>1. PICK o, new, all : o = origin' /\ new = ui' /\ all = values'
    OBVIOUS
  <2>2. Keeps(o, all)
    BY <1>2, <2>1, MergeKeeps
  <2> QED
    BY <1>2, <2>1, <2>2 DEF HiddenInv
<1>6. CurrentInv'
  BY <1>1 DEF CurrentInv
<1> QED
  BY <1>2, <1>4, <1>5, <1>6

LEMMA ChangeKeeps == ASSUME FormInv, NEW u, handleChange(u) PROVE FormInv'
<1>1. PICK t, v : t = Told(u) /\ v = values
  OBVIOUS
<1>2. IsForm(t) /\ AreRunners(t.runners)
  BY <1>1 DEF Told, IsForm, AreRunners, Runner
<1>3. Edit /\ SetUI(t, v) /\ WriteThrough /\ origin' = origin /\ shared' = shared
  BY <1>1 DEF handleChange
<1>4. /\ Keeps(origin', v) /\ AreRunners(v.runners) /\ AreRunners(origin'.runners)
      /\ shared' \subseteq DOMAIN v.runners
  BY <1>1, <1>3 DEF Edit, FormInv, FormShapes, HiddenInv
<1> QED
  BY <1>2, <1>3, <1>4, EditKeeps

LEMMA TabKeeps == ASSUME FormInv, NEW r, OpenTab(r) PROVE FormInv'
<1>1. PICK u, v : u = [ui EXCEPT !.runners = Having(@, r, Runner("blank", NoText))] /\ v = values
  OBVIOUS
<1>2. IsForm(u) /\ u.runners = Having(ui.runners, r, Runner("blank", NoText))
  BY <1>1 DEF FormInv, FormShapes, IsForm
<1>3. AreRunners(u.runners)
  BY <1>2 DEF FormInv, FormShapes, AreRunners, Having, Over, Runner
<1>4. Edit /\ SetUI(u, v) /\ WriteThrough /\ origin' = origin /\ shared' = shared
  BY <1>1 DEF OpenTab
<1>5. /\ Keeps(origin', v) /\ AreRunners(v.runners) /\ AreRunners(origin'.runners)
      /\ shared' \subseteq DOMAIN v.runners
  BY <1>1, <1>4 DEF Edit, FormInv, FormShapes, HiddenInv
<1> QED
  BY <1>2, <1>3, <1>4, <1>5, EditKeeps

LEMMA JsonKeeps == FormInv /\ JsonEdit => FormInv'
<1> SUFFICES ASSUME FormInv, JsonEdit PROVE FormInv'
  OBVIOUS
<1>1. PICK r \in DOMAIN values.runners :
        Json([fields |-> values.fields, env |-> FALSE,
              runners |-> [s \in DOMAIN values.runners \ { r } |-> values.runners[s]]])
  BY DEF JsonEdit
<1>2. PICK u :
        /\ Json(u)
        /\ u = [fields |-> values.fields, env |-> FALSE,
                runners |-> [s \in DOMAIN values.runners \ { r } |-> values.runners[s]]]
  BY <1>1
<1>3. IsForm(u) /\ AreRunners(u.runners)
  BY <1>2 DEF FormInv, FormShapes, IsForm, AreRunners, Runner
<1>4. Edit /\ SetUI(u, u) /\ cached' = cached /\ origin' = u /\ shared' = {}
  BY <1>2 DEF Json
<1>5. Keeps(u, u)
  BY DEF Keeps
<1> QED
  BY <1>3, <1>4, <1>5, EditKeeps

(* An answer that brings what the selectors show.                          *)
LEMMA FetchedKeeps ==
  ASSUME FormInv, SetUI(ui, values), WriteThrough, phase # "closed",
         UNCHANGED << mode, phase, confs, server, shared, fresh, based, origin, shown, touched, sent >>
  PROVE  FormInv'
<1> USE DEF FormInv, FormShapes
<1>1. PICK u, v, o : u = ui /\ v = values /\ o = origin
  OBVIOUS
<1>2. IsForm(u) /\ AreRunners(u.runners) /\ AreRunners(v.runners) /\ SetUI(u, v)
  BY <1>1
<1>3. /\ IsForm(ui') /\ IsForm(values') /\ AreRunners(ui'.runners) /\ AreRunners(values'.runners)
      /\ AgreeInv' /\ (mode = "edit" => ui'.runners = u.runners)
      /\ ShownBy(u.fields, ui'.fields)
      /\ values' = Merge(v, ui')
      /\ DOMAIN v.runners \subseteq DOMAIN values'.runners
  BY <1>2, SetUIEffect
<1>4. IsRevision(cached') /\ AreRunners(cached'.runners)
  BY <1>1, <1>3, WriteThroughShapes DEF HiddenInv
<1>5. FormShapes'
  BY <1>3, <1>4
<1>6. HiddenInv'
  <2>1. PICK new, all : new = ui' /\ all = values'
    OBVIOUS
  <2>2. Keeps(o, v) /\ shared \subseteq DOMAIN v.runners
    BY <1>1 DEF HiddenInv
  <2>3. Keeps(o, all)
    BY <1>3, <2>1, <2>2, MergeKeeps
  <2> QED
    BY <1>1, <1>3, <2>1, <2>2, <2>3 DEF HiddenInv
<1>7. CurrentInv'
  <2>1. ASSUME mode = "edit", ~touched, based PROVE Current'
    <3>1. Current
      BY <2>1 DEF CurrentInv
    <3>2. ui'.runners = u.runners
      BY <1>3, <2>1
    <3>3. AtServer => AtServer'
      BY <1>1, <1>3, <3>2 DEF AtServer, ShownBy
    <3>4. ASSUME ui'.runners = o.runners PROVE values'.runners = o.runners
      <4>1. v.runners = o.runners
        BY <1>1, <3>1, <3>2, <3>4 DEF Current
      <4>2. values'.runners = MergedRunners(v.runners, ui'.runners)
        BY <1>3 DEF Merge
      <4> QED
        BY <1>2, <3>4, <4>1, <4>2, MergedSame
    <3> QED
      BY <1>1, <3>1, <3>2, <3>3, <3>4 DEF Current
  <2> QED
    BY <2>1 DEF CurrentInv
<1> QED
  BY <1>3, <1>5, <1>6, <1>7

LEMMA RevisionKeeps == FormInv /\ RevisionFetched => FormInv'
<1> SUFFICES ASSUME FormInv, RevisionFetched PROVE FormInv'
  OBVIOUS
<1> USE DEF FormInv, FormShapes
<1>1. /\ mode = "edit" /\ cached' = server
      /\ UNCHANGED << mode, phase, server, based, origin, touched, sent >>
  BY DEF RevisionFetched
<1>2. CASE ~(phase # "closed" /\ server.number # shown)
  <2>1. /\ UNCHANGED << shown, confs >> /\ IsForm(ui') /\ IsForm(values')
        /\ ui'.fields = ui.fields /\ ui'.runners = ui.runners
        /\ values'.fields = values.fields /\ values'.runners = values.runners
        /\ shared' \subseteq shared
    BY <1>2 DEF RevisionFetched, IsForm
  <2>2. FormShapes' /\ AgreeInv'
    BY <1>1, <2>1 DEF AgreeInv
  <2>3. HiddenInv'
    BY <1>1, <2>1 DEF HiddenInv, Keeps
  <2>4. CurrentInv'
    BY <1>1, <2>1 DEF CurrentInv, Current, AtServer
  <2> QED
    BY <2>2, <2>3, <2>4
<1>3. CASE phase # "closed" /\ server.number # shown
  <2>1. PICK u, v, o : u = FormOf(server) /\ v = values /\ o = origin
    OBVIOUS
  <2>2. /\ SetUI(u, v) /\ shown' = server.number /\ confs' = server.conf
        /\ IsForm(u) /\ AreRunners(u.runners) /\ AreRunners(v.runners)
        /\ u.runners = server.runners /\ u.fields = server.fields
    BY <1>3, <2>1 DEF RevisionFetched, IsForm, FormOf
  <2>3. /\ IsForm(ui') /\ IsForm(values') /\ AreRunners(ui'.runners) /\ AreRunners(values'.runners)
        /\ AgreeInv' /\ ui'.runners = u.runners
        /\ ShownBy(u.fields, ui'.fields)
        /\ values' = Merge(v, ui')
        /\ DOMAIN v.runners \cup DOMAIN ui'.runners \subseteq DOMAIN values'.runners
    BY <1>1, <2>2, SetUIEffect
  <2>4. FormShapes'
    BY <1>1, <2>3
  <2>5. HiddenInv'
    <3>1. PICK new, all : new = ui' /\ all = values'
      OBVIOUS
    <3>2. Keeps(o, v) /\ shared \subseteq DOMAIN v.runners
      BY <1>3, <2>1 DEF HiddenInv
    <3>3. Keeps(o, all)
      BY <2>3, <3>1, <3>2, MergeKeeps
    <3>4. shared' \subseteq shared \cup DOMAIN server.runners
      BY <1>3 DEF RevisionFetched
    <3> QED
      BY <1>1, <2>1, <2>2, <2>3, <3>1, <3>2, <3>3, <3>4 DEF HiddenInv
  <2>6. CurrentInv'
    <3>1. ASSUME ~touched, based PROVE Current'
      <4>1. shown = 1 /\ server.number = 2 /\ v.runners = o.runners
        BY <1>1, <1>3, <2>1, <3>1 DEF CurrentInv, Current
      <4>2. AtServer' /\ shown' = server'.number /\ shown' # 1
        BY <1>1, <2>2, <2>3, <4>1 DEF AtServer
      <4>3. ASSUME ui'.runners = o.runners PROVE values'.runners = o.runners
        <5>1. values'.runners = MergedRunners(v.runners, ui'.runners)
          BY <2>3 DEF Merge
        <5> QED
          BY <2>2, <4>1, <4>3, <5>1, MergedSame
      <4> QED
        BY <1>1, <2>1, <4>2, <4>3 DEF Current
    <3> QED
      BY <1>1, <1>3, <3>1 DEF CurrentInv
  <2> QED
    BY <2>3, <2>4, <2>5, <2>6
<1> QED
  BY <1>2, <1>3

LEMMA OtherKeeps == FormInv /\ OtherRevision => FormInv'
<1> SUFFICES ASSUME FormInv, OtherRevision PROVE FormInv'
  OBVIOUS
<1> USE DEF FormInv, FormShapes
<1>1. PICK c, b, over : server' = Revision(2, c, b, "x", over)
  BY DEF OtherRevision
<1>2. server.number = 1 /\ server'.number = 2 /\ IsRevision(server') /\ AreRunners(server'.runners)
  <2>1. PICK new : new = server'
    OBVIOUS
  <2> QED
    BY <1>1, <2>1, RevisionShapes DEF OtherRevision
<1>3. UNCHANGED << mode, phase, ui, values, confs, cached, shared, fresh, based, origin, shown,
                   touched, sent >>
  BY DEF OtherRevision
<1>4. FormShapes' /\ AgreeInv' /\ HiddenInv'
  BY <1>2, <1>3 DEF AgreeInv, HiddenInv, Keeps
<1>5. CurrentInv'
  BY <1>2, <1>3 DEF CurrentInv, Current
<1> QED
  BY <1>4, <1>5

LEMMA SentKeeps == ASSUME FormInv, NEW s \in sent, Sent(s) PROVE FormInv'
<1> USE DEF FormInv, FormShapes
<1>1. /\ phase' = "closed" /\ ~fresh' /\ sent' \subseteq sent
      /\ UNCHANGED << mode, ui, values, cached, origin >>
  BY DEF Sent
<1>2. IsRevision(server') /\ server'.number \in Nat /\ AreRunners(server'.runners)
  <2>1. CASE mode = "new"
    BY <2>1 DEF Sent
  <2>2. CASE mode = "edit"
    <3>1. server' = [number |-> server.number + 1, conf |-> s.conf, runners |-> s.runners,
                     fields |-> Over([f \in { "cluster_name", "name", "kube_namespace" } |->
                                       server.fields[f]], s.fields)]
      BY <2>2 DEF Sent
    <3> QED
      BY <3>1 DEF IsRevision
  <2> QED
    BY <2>1, <2>2
<1> QED
  BY <1>1, <1>2 DEF AgreeInv, HiddenInv, CurrentInv

(* What neither the form's data nor the server's revision is changed by.   *)
LEMMA FormStays ==
  ASSUME FormInv, IsForm(values'), values'.fields = values.fields,
         values'.runners = values.runners,
         UNCHANGED << mode, ui, server, based, origin, shown >>,
         phase' # "closed" => phase # "closed" /\ shared' = shared,
         (confs' = confs /\ touched' = touched) \/ touched',
         phase' = "closed" => ~fresh',
         phase' \in { "open", "sending", "closed" },
         IsRevision(cached'), AreRunners(cached'.runners),
         \A s \in sent' : AreRunners(s.runners)
  PROVE  FormInv'
<1> USE DEF FormInv, FormShapes
<1>1. FormShapes'
  OBVIOUS
<1>2. AgreeInv'
  BY DEF AgreeInv
<1>3. HiddenInv'
  BY DEF HiddenInv, Keeps
<1>4. CurrentInv'
  BY DEF CurrentInv, Current, AtServer
<1> QED
  BY <1>1, <1>2, <1>3, <1>4

LEMMA FinishKeeps ==
  FormInv /\ (handleFinish \/ Refused \/ Cancel \/ SearchBento) => FormInv'
<1>1. ASSUME FormInv, handleFinish PROVE FormInv'
  <2>1. /\ IsForm(values') /\ values'.fields = values.fields /\ values'.runners = values.runners
        /\ IsRevision(cached') /\ cached'.runners = cached.runners
    BY <1>1 DEF handleFinish, FormInv, FormShapes, IsForm, IsRevision
  <2>2. /\ UNCHANGED << mode, ui, server, shared, based, origin, shown, confs, touched >>
        /\ phase = "open" /\ phase' = "sending"
        /\ \A s \in sent' : s.runners = values.runners
    BY <1>1 DEF handleFinish
  <2> QED
    BY <1>1, <2>1, <2>2, FormStays DEF FormInv, FormShapes
<1>2. ASSUME FormInv, Refused \/ Cancel \/ SearchBento PROVE FormInv'
  BY <1>2, FormStays DEF Refused, Cancel, SearchBento, FormInv, FormShapes
<1> QED
  BY <1>1, <1>2

LEMMA FormKeeps == FormInv /\ [FormNext]_formVars => FormInv'
<1> SUFFICES ASSUME FormInv, [FormNext]_formVars PROVE FormInv'
  OBVIOUS
<1>1. ASSUME NEW c, ClusterFetched(c) \/ BentosListed(c) PROVE FormInv'
  BY <1>1, FetchedKeeps DEF ClusterFetched, BentosListed
<1>2. ASSUME NEW f, NEW t, WriteField(f, t) \/ SelectField(f, t) \/ WriteRunner(f, t) PROVE FormInv'
  BY <1>2, ChangeKeeps DEF WriteField, SelectField, WriteRunner
<1>3. ASSUME NEW t, WriteConf(t) PROVE FormInv'
  BY <1>3, FormStays DEF WriteConf, Edit, FormInv, FormShapes
<1>4. CASE UNCHANGED formVars
  BY <1>4
     DEF formVars, FormInv, FormShapes, AgreeInv, HiddenInv, Keeps, CurrentInv, Current, AtServer
<1> QED
  BY <1>1, <1>2, <1>3, <1>4, OpenKeeps, TabKeeps, JsonKeeps, RevisionKeeps, OtherKeeps,
     SentKeeps, FinishKeeps
  DEF FormNext

(* What an open form shows is what it sends, what it has begun with and no *)
(* item shows is kept, and a form that nobody has touched shows what the   *)
(* server has, and sends it if it was opened with it (handleChange,        *)
(* mergeWith and the effect on the revision in DeploymentForm).            *)
THEOREM FormsAgree == FormSpec => []FormAgrees
<1>1. FormInv => FormAgrees
  <2> SUFFICES ASSUME FormInv PROVE FormAgrees
    OBVIOUS
  <2>1. ShownIsSent
    BY DEF FormInv, AgreeInv, ShownIsSent
  <2>2. HiddenIsKept
    BY DEF FormInv, HiddenInv, HiddenIsKept, Keeps
  <2>3. StartsFromServer
    <3> SUFFICES ASSUME phase = "open", mode = "edit", ~touched, based, shown = server.number
                 PROVE  /\ ui.runners = server.runners /\ confs = server.conf
                        /\ origin = FormOf(server) =>
                             /\ values.runners = server.runners
                             /\ \A f \in DOMAIN server.fields \ { "kube_namespace" } :
                                  values.fields[f] = server.fields[f]
      BY DEF StartsFromServer
    <3>1. Current /\ AtServer
      <4>1. Current
        BY DEF FormInv, CurrentInv
      <4> QED
        BY <4>1 DEF Current
    <3>2. ASSUME origin = FormOf(server)
          PROVE  /\ values.runners = server.runners
                 /\ \A f \in DOMAIN server.fields \ { "kube_namespace" } :
                      values.fields[f] = server.fields[f]
      <4>1. origin.runners = server.runners /\ origin.fields = server.fields
        BY <3>2 DEF FormOf
      <4>2. values.runners = server.runners
        BY <3>1, <4>1 DEF Current, AtServer
      <4>3. ASSUME NEW f \in DOMAIN server.fields \ { "kube_namespace" }
            PROVE  values.fields[f] = server.fields[f]
        <5>1. CASE f = Hidden
          BY <2>2, <4>1, <5>1 DEF HiddenIsKept
        <5>2. CASE f # Hidden
          BY <3>1, <5>2 DEF AtServer, ShownBy, FormInv, AgreeInv
        <5> QED
          BY <5>1, <5>2
      <4> QED
        BY <4>2, <4>3
    <3> QED
      BY <3>1, <3>2 DEF AtServer
  <2> QED
    BY <2>1, <2>2, <2>3 DEF FormAgrees
<1> QED
  BY InitForm, FormKeeps, <1>1, PTL DEF FormSpec

-----------------------------------------------------------------------------
(* What is stored, and what a request carries: its list, what it has yet   *)
(* to do, what it has written, and what others have in the meantime.       *)
LabelRow     == [id : Nat, value : Values \cup { Empty }]
LabelRows    == UNION { [ks -> LabelRow] : ks \in SUBSET Keys }
ChangeKinds     == { "edit", "delete", "add", "put" }
LabelRequests  ==
  [user : Users, kind : ChangeKinds, key : Keys, value : Typed \cup { Empty }, list : Labels,
   phase : { "sent", "open", "failed", "done", "refetching" },
   delete : SUBSET (Keys \X Nat), put : SUBSET Keys, at : [key : Keys \cup { Empty }, id : Nat],
   wrote : LabelRows, disturbed : SUBSET Keys, op : Nat]

LabelTypes ==
  /\ rows \in [Keys -> LabelRow] /\ inserted \in Nat /\ copy \in [Users -> Labels]
  /\ reading \in [Users -> [state : { "no", "asked", "read" }, data : Labels]]
  /\ editing \in [Users -> Keys \cup { Empty }] /\ adding \in [Users -> BOOLEAN]
  /\ requests \subseteq LabelRequests /\ clean \in BOOLEAN /\ wanted \in Labels /\ ops \in Nat

(* How far a transaction has come with a key that nobody else has changed. *)
Listed(r, k) ==
  IF r.list[k] = Empty
  THEN << k, rows[k].id >> \in r.delete \/ Seen(r, k).value = Empty
  ELSE \/ k \in r.put /\ k \notin DOMAIN r.wrote
       \/ k \notin r.put /\ r.at = [key |-> k, id |-> rows[k].id] /\ k \notin DOMAIN r.wrote
       \/ k \notin r.put /\ r.at.key # k /\ k \in DOMAIN r.wrote /\ r.wrote[k].value = r.list[k]

(* A transaction deletes what its list has not, and puts what it has.      *)
OnlyOwn(r) ==
  /\ \A d \in r.delete : r.list[d[1]] = Empty
  /\ r.put \subseteq Put(r)
  /\ r.at.key # Empty => r.at.key \in Put(r) \ r.put
  /\ \A k \in Keys \ r.disturbed : Listed(r, k)

(* As long as all changes are clean, a request under way was made from the *)
(* labels that are stored.                                                 *)
FromPresent(r) == r.list = Changed(Stored, r.kind, r.key, r.value) /\ r.disturbed = {}

NotBegun(r) == r.disturbed = {} /\ DOMAIN r.wrote = {} /\ r.at = Nothing

(* The inductive invariant.                                                *)
LabelInv ==
  /\ LabelTypes
  /\ \A r \in requests : r.phase = "open" => OnlyOwn(r)
  /\ \A r \in requests : r.phase = "sent" => NotBegun(r)
  /\ clean => wanted = Stored
  /\ clean => \A r \in requests : UnderWay(r) => FromPresent(r)
  /\ clean => \A r, s \in requests : UnderWay(r) /\ UnderWay(s) => r = s

LEMMA NoRows == << >> \in LabelRows /\ DOMAIN << >> = {}
<1>1. << >> \in [{} -> LabelRow]
  OBVIOUS
<1> QED
  BY <1>1 DEF LabelRows

LEMMA WroteTypes ==
  ASSUME NEW r \in LabelRequests, NEW k \in Keys, NEW row \in LabelRow
  PROVE  Wrote(r, k, row) \in LabelRows
<1>1. PICK ks \in SUBSET Keys : r.wrote \in [ks -> LabelRow]
  BY DEF LabelRequests, LabelRows
<1>2. Wrote(r, k, row) \in [ks \cup { k } -> LabelRow]
  BY <1>1 DEF Wrote
<1> QED
  BY <1>2 DEF LabelRows

LEMMA ChangedTypes ==
  ASSUME NEW l \in Labels, NEW kind \in ChangeKinds, NEW k \in Keys,
         NEW v \in Typed \cup { Empty }
  PROVE  Changed(l, kind, k, v) \in Labels
BY LabelConstants DEF Labels, ChangeKinds, Changed

LEMMA StoredTypes == LabelTypes => Stored \in Labels
BY DEF LabelTypes, Stored, Labels, LabelRow

LEMMA InitHolds == LabelInit => LabelInv
<1> SUFFICES ASSUME LabelInit PROVE LabelInv
  OBVIOUS
<1>1. rows \in [Keys -> LabelRow]
  <2>1. PICK l \in [Keys -> (Values \ Typed) \cup { Empty }] :
          rows = [k \in Keys |-> IF l[k] = Empty THEN NoRow ELSE [id |-> 1, value |-> l[k]]]
    BY DEF LabelInit
  <2>2. ASSUME NEW k \in Keys PROVE rows[k] \in LabelRow
    <3>1. CASE l[k] = Empty
      BY <2>1, <3>1 DEF LabelRow, NoRow
    <3>2. CASE l[k] # Empty
      <4>1. rows[k] = [id |-> 1, value |-> l[k]] /\ l[k] \in Values
        BY <2>1, <3>2
      <4> QED
        BY <4>1 DEF LabelRow
    <3> QED
      BY <3>1, <3>2
  <2> QED
    BY <2>1, <2>2
<1>2. Stored \in Labels /\ NoLabels \in Labels
  BY <1>1 DEF Stored, Labels, LabelRow, NoLabels
<1>3. LabelTypes
  BY <1>1, <1>2 DEF LabelInit, LabelTypes, NotRead, Labels
<1> QED
  BY <1>1, <1>2, <1>3 DEF LabelInit, LabelInv

(* A step of a transaction.                                                *)
LEMMA StepKeeps ==
  ASSUME LabelInv, NEW r \in requests, NEW new \in LabelRequests, UnderWay(r), Step(r, new),
         inserted' \in Nat, new.phase \in { "open", "failed" },
         new.phase = "open" => OnlyOwn(new),
         new.kind = r.kind, new.key = r.key, new.value = r.value, new.list = r.list,
         new.disturbed = r.disturbed
  PROVE  LabelInv'
<1> USE DEF LabelInv, Step
<1>1. LabelTypes'
  BY DEF LabelTypes
<1>2. \A s \in requests' : s.phase = "open" => OnlyOwn(s)'
  <2>1. ASSUME NEW s PROVE OnlyOwn(s)' <=> OnlyOwn(s)
    <3>1. ASSUME NEW k PROVE Listed(s, k)' <=> Listed(s, k)
      BY DEF Listed, Seen
    <3> QED
      BY <3>1 DEF OnlyOwn, Put
  <2> QED
    BY <2>1
<1>3. \A s \in requests' : s.phase = "sent" => NotBegun(s)
  OBVIOUS
<1>4. clean' => wanted' = Stored'
  BY DEF Stored
<1>5. clean' => \A s \in requests' : UnderWay(s) => FromPresent(s)'
  <2>1. Stored' = Stored
    BY DEF Stored
  <2>2. ASSUME NEW s PROVE FromPresent(s)' <=> FromPresent(s)
    BY <2>1 DEF FromPresent
  <2>3. FromPresent(r) => FromPresent(new)
    BY DEF FromPresent
  <2> QED
    BY <2>2, <2>3
<1>6. clean' => \A s, t \in requests' : UnderWay(s) /\ UnderWay(t) => s = t
  OBVIOUS
<1> QED
  BY <1>1, <1>2, <1>3, <1>4, <1>5, <1>6 DEF NotBegun, Nothing

LEMMA ListKeeps ==
  ASSUME LabelInv, NEW r \in requests, List(r)
  PROVE  LabelInv'
<1> DEFINE D == { << k, rows[k].id >> : k \in { x \in Keys \ Put(r) : rows[x] # NoRow } }
<1>0. \A d : d \in D <=>
        \E k \in Keys : k \notin Put(r) /\ rows[k] # NoRow /\ d = << k, rows[k].id >>
  OBVIOUS
<1>1. PICK new : new = [r EXCEPT !.phase = "open", !.put = Put(r), !.delete = D]
  OBVIOUS
<1>a. Step(r, new) /\ UnderWay(r) /\ inserted' \in Nat
  BY <1>1 DEF List, UnderWay, LabelInv, LabelTypes
<1> HIDE DEF D
<1>2. r \in LabelRequests /\ rows \in [Keys -> LabelRow] /\ NotBegun(r)
  BY DEF LabelInv, LabelTypes, List
<1>3. new \in LabelRequests
  <2>1. D \subseteq Keys \X Nat
    <3>1. ASSUME NEW d \in D PROVE d \in Keys \X Nat
      <4>1. PICK k \in Keys : d = << k, rows[k].id >>
        BY <1>0
      <4>2. rows[k].id \in Nat
        BY <1>2 DEF LabelRow
      <4> QED
        BY <4>1, <4>2
    <3> QED
      BY <3>1
  <2>2. Put(r) \subseteq Keys
    BY DEF Put
  <2> QED
    BY <1>1, <1>2, <2>1, <2>2 DEF LabelRequests
<1>4. OnlyOwn(new)
  <2>1. /\ new.delete = D /\ new.put = Put(r) /\ new.at = Nothing
        /\ new.wrote = r.wrote /\ new.list = r.list /\ DOMAIN r.wrote = {}
    BY <1>1, <1>2 DEF LabelRequests, NotBegun
  <2>2. \A d \in new.delete : new.list[d[1]] = Empty
    BY <1>0, <2>1 DEF Put
  <2>4. Put(new) = Put(r)
    BY <2>1 DEF Put
  <2>3. ASSUME NEW k \in Keys PROVE Listed(new, k)
    <3>1. CASE new.list[k] = Empty
      <4>1. Seen(new, k) = rows[k]
        BY <2>1 DEF Seen
      <4> QED
      BY <1>0, <2>1, <3>1, <4>1 DEF Listed, Put, NoRow
    <3>2. CASE new.list[k] # Empty
      BY <2>1, <3>2 DEF Listed, Put
    <3> QED
      BY <3>1, <3>2
  <2> QED
    BY <2>1, <2>2, <2>3, <2>4 DEF OnlyOwn, Nothing
<1> QED
  <2>1. /\ new.phase = "open" /\ new.kind = r.kind /\ new.key = r.key /\ new.value = r.value
        /\ new.list = r.list /\ new.disturbed = r.disturbed
    BY <1>1, <1>2 DEF LabelRequests
  <2> QED
    BY <1>3, <1>4, <1>a, <2>1, StepKeeps

LEMMA DeleteKeeps ==
  ASSUME LabelInv, NEW r \in requests, NEW k \in Keys, NEW id \in Nat, Delete(r, k, id)
  PROVE  LabelInv'
<1>1. PICK wrote : wrote = IF rows[k].id = id THEN Wrote(r, k, NoRow) ELSE r.wrote
  OBVIOUS
<1>2. PICK new : new = [r EXCEPT !.delete = @ \ { << k, id >> }, !.wrote = wrote]
  OBVIOUS
<1>3. r \in LabelRequests /\ r.phase = "open" /\ OnlyOwn(r)
  BY DEF Delete, LabelInv, LabelTypes
<1>4. Step(r, new) /\ UnderWay(r) /\ inserted' \in Nat /\ << k, id >> \in r.delete
  BY <1>1, <1>2 DEF Delete, UnderWay, LabelInv, LabelTypes
<1>5. wrote \in LabelRows
  <2>1. NoRow \in LabelRow
    BY DEF NoRow, LabelRow
  <2> QED
    BY <1>1, <1>3, <2>1, WroteTypes DEF LabelRequests
<1>6. /\ new.phase = "open" /\ new.kind = r.kind /\ new.key = r.key /\ new.value = r.value
      /\ new.list = r.list /\ new.disturbed = r.disturbed /\ new.wrote = wrote
      /\ new.delete = r.delete \ { << k, id >> } /\ new.put = r.put /\ new.at = r.at
  BY <1>2, <1>3 DEF LabelRequests
<1>7. new \in LabelRequests
  BY <1>2, <1>3, <1>5 DEF LabelRequests
<1>8. OnlyOwn(new)
  <2>1. r.list[k] = Empty
    BY <1>3, <1>4 DEF OnlyOwn
  <2>2. ASSUME NEW x \in Keys \ r.disturbed PROVE Listed(new, x)
    <3>1. Listed(r, x)
      BY <1>3, <2>2 DEF OnlyOwn
    <3>2. CASE x # k
      <4>1. /\ x \in DOMAIN wrote <=> x \in DOMAIN r.wrote
            /\ x \in DOMAIN wrote => wrote[x] = r.wrote[x]
        BY <1>1, <3>2 DEF Wrote
      <4>2. Seen(new, x) = Seen(r, x)
        BY <1>6, <4>1 DEF Seen
      <4>3. << x, rows[x].id >> \in r.delete => << x, rows[x].id >> \in new.delete
        BY <1>6, <3>2
      <4> QED
        BY <1>6, <3>1, <4>1, <4>2, <4>3 DEF Listed
    <3>3. CASE x = k /\ rows[k].id = id
      <4>1. wrote = Wrote(r, k, NoRow)
        BY <1>1, <3>3
      <4>2. k \in DOMAIN wrote /\ wrote[k] = NoRow
        BY <4>1 DEF Wrote
      <4> QED
        BY <1>6, <2>1, <3>3, <4>2 DEF Listed, Seen, NoRow
    <3>4. CASE x = k /\ rows[k].id # id
      <4>1. Seen(new, x) = Seen(r, x)
        BY <1>1, <1>6, <3>4 DEF Seen
      <4>2. << x, rows[x].id >> \in r.delete => << x, rows[x].id >> \in new.delete
        BY <1>6, <3>4
      <4> QED
        BY <1>6, <2>1, <3>1, <3>4, <4>1, <4>2 DEF Listed
    <3> QED
      BY <3>2, <3>3, <3>4
  <2>3. Put(new) = Put(r)
    BY <1>6 DEF Put
  <2> QED
    BY <1>3, <1>6, <2>2, <2>3 DEF OnlyOwn
<1> QED
  BY <1>4, <1>6, <1>7, <1>8, StepKeeps

LEMMA GetByKeyKeeps ==
  ASSUME LabelInv, NEW r \in requests, NEW k \in Keys, GetByKey(r, k)
  PROVE  LabelInv'
<1>1. PICK new : new = [r EXCEPT !.put = @ \ { k }, !.at = [key |-> k, id |-> Seen(r, k).id]]
  OBVIOUS
<1>2. r \in LabelRequests /\ r.phase = "open" /\ OnlyOwn(r) /\ k \in r.put /\ r.at.key = Empty
  BY DEF GetByKey, LabelInv, LabelTypes
<1>3. Step(r, new) /\ UnderWay(r) /\ inserted' \in Nat
  BY <1>1 DEF GetByKey, UnderWay, LabelInv, LabelTypes
<1>4. Seen(r, k).id \in Nat
  <2>1. PICK ks \in SUBSET Keys : r.wrote \in [ks -> LabelRow]
    BY <1>2 DEF LabelRequests, LabelRows
  <2>2. rows[k] \in LabelRow
    BY DEF LabelInv, LabelTypes
  <2> QED
    BY <2>1, <2>2 DEF Seen, LabelRow
<1>5. /\ new.phase = "open" /\ new.kind = r.kind /\ new.key = r.key /\ new.value = r.value
      /\ new.list = r.list /\ new.disturbed = r.disturbed /\ new.wrote = r.wrote
      /\ new.delete = r.delete /\ new.put = r.put \ { k }
      /\ new.at = [key |-> k, id |-> Seen(r, k).id]
  BY <1>1, <1>2 DEF LabelRequests
<1>6. new \in LabelRequests
  BY <1>1, <1>2, <1>4 DEF LabelRequests
<1>7. OnlyOwn(new)
  <2>1. Put(new) = Put(r) /\ k \in Put(r) /\ k # Empty /\ new.at.key = k
    BY <1>2, <1>5, LabelConstants DEF Put, OnlyOwn
  <2>2. ASSUME NEW x \in Keys \ r.disturbed PROVE Listed(new, x)
    <3>1. Listed(r, x) /\ Seen(new, x) = Seen(r, x)
      BY <1>2, <1>5, <2>2 DEF OnlyOwn, Seen
    <3>2. CASE x = k
      <4>1. k \notin DOMAIN r.wrote
        BY <1>2, <2>1, <3>1, <3>2 DEF Listed, Put
      <4>2. Seen(r, k) = rows[k]
        BY <4>1 DEF Seen
      <4> QED
        BY <1>5, <2>1, <3>2, <4>1, <4>2 DEF Listed, Put
    <3>3. CASE x # k
      <4>1. x # Empty
        BY LabelConstants
      <4>2. r.at # [key |-> x, id |-> rows[x].id]
        BY <1>2, <4>1
      <4> QED
        BY <1>2, <1>5, <2>1, <3>1, <3>3, <4>2 DEF Listed
    <3> QED
      BY <3>2, <3>3
  <2> QED
    BY <1>2, <1>5, <2>1, <2>2 DEF OnlyOwn
<1> QED
  BY <1>3, <1>5, <1>6, <1>7, StepKeeps

(* A row is put where GetByKey has found one, or none.                     *)
LEMMA PutKeeps ==
  ASSUME LabelInv, NEW r \in requests, r.phase = "open", NEW wrote \in LabelRows, NEW id \in Nat,
         NEW new, new = [r EXCEPT !.at = Nothing, !.wrote = wrote], Step(r, new), inserted' \in Nat,
         r.at.key # Empty,
         wrote = IF rows[r.at.key].id = r.at.id
                 THEN Wrote(r, r.at.key, [id |-> id, value |-> r.list[r.at.key]]) ELSE r.wrote
  PROVE  LabelInv'
<1>1. r \in LabelRequests /\ OnlyOwn(r) /\ UnderWay(r)
  BY DEF LabelInv, LabelTypes, UnderWay
<1>2. /\ new.phase = "open" /\ new.kind = r.kind /\ new.key = r.key /\ new.value = r.value
      /\ new.list = r.list /\ new.disturbed = r.disturbed /\ new.wrote = wrote
      /\ new.delete = r.delete /\ new.put = r.put /\ new.at = Nothing
  BY <1>1 DEF LabelRequests
<1>3. new \in LabelRequests
  BY <1>1 DEF LabelRequests, Nothing
<1>4. OnlyOwn(new)
  <2> DEFINE k == r.at.key
  <2>1. Put(new) = Put(r) /\ k \in Put(r) /\ k \in Keys /\ r.list[k] # Empty
    BY <1>1, <1>2 DEF Put, OnlyOwn
  <2>2. ASSUME NEW x \in Keys \ r.disturbed PROVE Listed(new, x)
    <3>1. Listed(r, x) /\ x # Empty
      BY <1>1, <1>2, <2>2, LabelConstants DEF OnlyOwn
    <3>2. CASE x = k
      <4>1. k \notin r.put /\ r.at = [key |-> k, id |-> rows[k].id]
        BY <1>1, <2>1, <3>1, <3>2 DEF Listed, OnlyOwn
      <4>2. wrote = Wrote(r, k, [id |-> id, value |-> r.list[k]])
        BY <4>1
      <4>3. k \in DOMAIN wrote /\ wrote[k].value = r.list[k]
        BY <4>2 DEF Wrote
      <4> QED
        BY <1>2, <2>1, <3>1, <3>2, <4>1, <4>3 DEF Listed, Nothing
    <3>3. CASE x # k
      <4>1. /\ x \in DOMAIN wrote <=> x \in DOMAIN r.wrote
            /\ x \in DOMAIN wrote => wrote[x] = r.wrote[x]
        BY <3>3 DEF Wrote
      <4>2. Seen(new, x) = Seen(r, x)
        BY <1>2, <4>1 DEF Seen
      <4>3. r.at # [key |-> x, id |-> rows[x].id]
        BY <3>3
      <4> QED
        BY <1>2, <3>1, <3>3, <4>1, <4>2, <4>3 DEF Listed, Nothing
    <3> QED
      BY <3>2, <3>3
  <2> QED
    BY <1>1, <1>2, <2>1, <2>2 DEF OnlyOwn, Nothing
<1> QED
  BY <1>1, <1>2, <1>3, <1>4, StepKeeps

LEMMA UpdateKeeps ==
  ASSUME LabelInv, NEW r \in requests, Update(r)
  PROVE  LabelInv'
<1> DEFINE k == r.at.key
<1>1. PICK wrote : wrote =
        IF rows[k].id = r.at.id THEN Wrote(r, k, [id |-> r.at.id, value |-> r.list[k]])
        ELSE r.wrote
  OBVIOUS
<1>2. PICK new : new = [r EXCEPT !.at = Nothing, !.wrote = wrote]
  OBVIOUS
<1>3. r \in LabelRequests /\ r.phase = "open" /\ OnlyOwn(r) /\ inserted' \in Nat /\ k # Empty
  BY DEF Update, LabelInv, LabelTypes
<1>4. Step(r, new)
  BY <1>1, <1>2 DEF Update
<1>5. wrote \in LabelRows
  <2>1. k \in Keys /\ r.at.id \in Nat /\ [id |-> r.at.id, value |-> r.list[k]] \in LabelRow
    BY <1>3 DEF LabelRequests, LabelRow, Labels
  <2> QED
    BY <1>1, <1>3, <2>1, WroteTypes DEF LabelRequests
<1> QED
  BY <1>1, <1>2, <1>3, <1>4, <1>5, PutKeeps DEF LabelRequests

LEMMA CreateKeeps ==
  ASSUME LabelInv, NEW r \in requests, Create(r)
  PROVE  LabelInv'
<1> DEFINE k == r.at.key
<1>1. PICK wrote : wrote = Wrote(r, k, [id |-> inserted + 1, value |-> r.list[k]])
  OBVIOUS
<1>2. PICK new : new = [r EXCEPT !.at = Nothing, !.wrote = wrote]
  OBVIOUS
<1>3. /\ r \in LabelRequests /\ r.phase = "open" /\ OnlyOwn(r) /\ inserted + 1 \in Nat /\ k # Empty
      /\ inserted' \in Nat
  BY DEF Create, LabelInv, LabelTypes
<1>4. Step(r, new)
  BY <1>1, <1>2 DEF Create
<1>5. wrote \in LabelRows
  <2>1. k \in Keys /\ [id |-> inserted + 1, value |-> r.list[k]] \in LabelRow
    BY <1>3 DEF LabelRequests, LabelRow, Labels
  <2> QED
    BY <1>1, <1>3, <2>1, WroteTypes
<1>6. rows[k].id = r.at.id
  BY DEF Create, NoRow
<1>7. PICK id \in Nat : id = inserted + 1
  BY <1>3
<1> QED
  BY <1>1, <1>2, <1>3, <1>4, <1>5, <1>6, <1>7, PutKeeps

LEMMA FailKeeps ==
  ASSUME LabelInv, NEW r \in requests, Fail(r)
  PROVE  LabelInv'
<1>1. PICK new : new = [r EXCEPT !.phase = "failed", !.wrote = << >>, !.delete = {}, !.put = {},
                                 !.at = Nothing]
  OBVIOUS
<1>2. r \in LabelRequests /\ inserted' \in Nat
  BY DEF Fail, LabelInv, LabelTypes
<1>3. Step(r, new) /\ UnderWay(r)
  BY <1>1 DEF Fail
<1>4. new \in LabelRequests
  BY <1>1, <1>2, NoRows DEF LabelRequests, Nothing
<1>5. /\ new.phase = "failed" /\ new.kind = r.kind /\ new.key = r.key /\ new.value = r.value
      /\ new.list = r.list /\ new.disturbed = r.disturbed
  BY <1>1, <1>2 DEF LabelRequests
<1> QED
  BY <1>2, <1>3, <1>4, <1>5, StepKeeps

(* What a transaction leaves when it has done all of its list.             *)
LEMMA ListStored ==
  ASSUME LabelInv, NEW r \in requests, Commit(r), NEW k \in Keys \ r.disturbed
  PROVE  Seen(r, k).value = r.list[k]
<1>1. /\ r \in LabelRequests /\ OnlyOwn(r) /\ r.delete = {} /\ r.put = {} /\ r.at.key = Empty
      /\ k # Empty
  BY LabelConstants DEF Commit, LabelInv, LabelTypes, Nothing
<1>2. Listed(r, k)
  BY <1>1 DEF OnlyOwn
<1> QED
  BY <1>1, <1>2 DEF Listed, Seen

LEMMA SeenTypes ==
  ASSUME LabelTypes, NEW r \in requests, NEW k \in Keys
  PROVE  Seen(r, k) \in LabelRow
<1>1. r \in LabelRequests
  BY DEF LabelTypes
<1>2. PICK ks \in SUBSET Keys : r.wrote \in [ks -> LabelRow]
  BY <1>1 DEF LabelRequests, LabelRows
<1> QED
  BY <1>2 DEF Seen, LabelTypes

LEMMA CommitStores ==
  ASSUME LabelInv, NEW r \in requests, Commit(r)
  PROVE  /\ \A k \in Keys : Stored'[k] = r.list[k] \/ k \in r.disturbed
         /\ clean => Stored' = wanted'
<1>1. \A k \in Keys : Stored'[k] = Seen(r, k).value
  BY DEF Commit, Stored
<1>2. r \in LabelRequests /\ UnderWay(r)
  BY DEF LabelInv, LabelTypes, Commit, UnderWay
<1>3. ASSUME clean PROVE Stored' = wanted'
  <2>1. r.list = Changed(wanted, r.kind, r.key, r.value) /\ r.disturbed = {}
    BY <1>2, <1>3 DEF LabelInv, FromPresent
  <2>2. wanted' = r.list
    BY <2>1 DEF Commit
  <2>3. \A k \in Keys : Stored'[k] = r.list[k]
    BY <1>1, <2>1, ListStored
  <2>4. r.list = [k \in Keys |-> r.list[k]] /\ Stored' = [k \in Keys |-> Stored'[k]]
    BY <1>2 DEF LabelRequests, Labels, Stored
  <2> QED
    BY <2>2, <2>3, <2>4
<1> QED
  BY <1>1, <1>3, ListStored

LEMMA CommitKeeps ==
  ASSUME LabelInv, NEW r \in requests, Commit(r)
  PROVE  LabelInv'
<1> DEFINE After(s) == IF s = r THEN [r EXCEPT !.phase = "done", !.wrote = << >>]
                      ELSE IF s.phase = "open" THEN [s EXCEPT !.disturbed = @ \cup DOMAIN r.wrote]
                      ELSE s
<1>1. /\ r \in LabelRequests /\ UnderWay(r) /\ r.phase = "open"
      /\ requests' = { After(s) : s \in requests }
  BY DEF LabelInv, LabelTypes, Commit, UnderWay
<1>2. PICK ks \in SUBSET Keys : r.wrote \in [ks -> LabelRow]
  BY <1>1 DEF LabelRequests, LabelRows
<1>3. ASSUME NEW s \in requests
      PROVE  /\ After(s) \in LabelRequests
             /\ s = r => After(s).phase = "done"
             /\ s # r /\ s.phase = "open" =>
                  /\ After(s).disturbed = s.disturbed \cup ks /\ After(s).phase = "open"
                  /\ After(s).list = s.list /\ After(s).delete = s.delete
                  /\ After(s).put = s.put /\ After(s).at = s.at /\ After(s).wrote = s.wrote
             /\ s # r /\ s.phase # "open" => After(s) = s
  <2>1. s \in LabelRequests
    BY DEF LabelInv, LabelTypes
  <2>2. CASE s = r
    BY <1>1, <2>2, NoRows DEF LabelRequests
  <2>3. CASE s # r /\ s.phase = "open"
    <3>1. After(s) = [s EXCEPT !.disturbed = @ \cup ks]
      BY <1>2, <2>3
    <3> HIDE DEF After
    <3> QED
      BY <2>1, <2>3, <3>1 DEF LabelRequests
  <2>4. CASE s # r /\ s.phase # "open"
    BY <2>1, <2>4
  <2> QED
    BY <2>2, <2>3, <2>4
<1> HIDE DEF After
<1>4. rows' \in [Keys -> LabelRow] /\ \A k \in Keys \ ks : rows'[k] = rows[k]
  <2>1. rows' = [k \in Keys |-> Seen(r, k)]
    BY DEF Commit
  <2>2. \A k \in Keys : Seen(r, k) \in LabelRow
    BY SeenTypes DEF LabelInv
  <2>3. rows' \in [Keys -> LabelRow]
    BY <2>1, <2>2
  <2>4. ASSUME NEW k \in Keys \ ks PROVE Seen(r, k) = rows[k]
    BY <1>2 DEF Seen
  <2> QED
    BY <2>1, <2>3, <2>4
<1>5. LabelTypes'
  <2>1. Changed(wanted, r.kind, r.key, r.value) \in Labels
    BY <1>1, ChangedTypes, LabelConstants DEF LabelInv, LabelTypes, LabelRequests
  <2> QED
    BY <1>1, <1>3, <1>4, <2>1 DEF LabelInv, LabelTypes, Commit
<1>6. \A s \in requests' : s.phase = "open" => OnlyOwn(s)'
  <2>1. ASSUME NEW s \in requests, NEW n, n = After(s), s # r, s.phase = "open" PROVE OnlyOwn(n)'
    <3>1. OnlyOwn(s)
      BY <2>1 DEF LabelInv
    <3>2. /\ n.disturbed = s.disturbed \cup ks /\ n.list = s.list /\ n.delete = s.delete
          /\ n.put = s.put /\ n.at = s.at /\ n.wrote = s.wrote
      BY <1>3, <2>1
    <3>3. ASSUME NEW k \in Keys \ n.disturbed PROVE Listed(n, k)'
      <4>1. Listed(s, k) /\ rows'[k] = rows[k]
        BY <1>4, <3>1, <3>2 DEF OnlyOwn
      <4> QED
        BY <3>2, <4>1 DEF Listed, Seen
    <3> QED
      BY <3>1, <3>2, <3>3 DEF OnlyOwn, Put
  <2> QED
    BY <1>1, <1>3, <2>1
<1>7. \A s \in requests' : s.phase = "sent" => NotBegun(s)
  BY <1>1, <1>3 DEF LabelInv
<1>8. clean' => wanted' = Stored'
  BY CommitStores DEF Commit
<1>9. clean' => \A s \in requests' : ~UnderWay(s)
  <2>1. ASSUME clean, NEW s \in requests, s # r PROVE s.phase \notin { "sent", "open" }
    BY <1>1, <2>1 DEF LabelInv, UnderWay
  <2> QED
    BY <1>1, <1>3, <2>1 DEF UnderWay, Commit
<1> QED
  BY <1>5, <1>6, <1>7, <1>8, <1>9 DEF LabelInv, NotBegun, Nothing

(* The steps of a page change nothing that a transaction under way is about. *)
LEMMA PageKeeps ==
  ASSUME LabelInv, LabelTypes', UNCHANGED << rows, clean, wanted >>,
         \A r \in requests' : UnderWay(r) => r \in requests
  PROVE  LabelInv'
<1>1. Stored' = Stored
  BY DEF Stored
<1>2. ASSUME NEW r PROVE FromPresent(r)' <=> FromPresent(r)
  BY <1>1 DEF FromPresent
<1>3. ASSUME NEW r PROVE OnlyOwn(r)' <=> OnlyOwn(r)
  <2>1. ASSUME NEW k PROVE Listed(r, k)' <=> Listed(r, k)
    BY DEF Listed, Seen
  <2> QED
    BY <2>1 DEF OnlyOwn, Put
<1>4. \A r \in requests' : r.phase \in { "sent", "open" } => r \in requests
  BY DEF UnderWay
<1> QED
  BY <1>1, <1>2, <1>3, <1>4 DEF LabelInv, UnderWay, NotBegun, Nothing

LEMMA SubmitKeeps ==
  ASSUME LabelInv, NEW u \in Users, NEW kind \in ChangeKinds, NEW k \in Keys,
         NEW v \in Typed \cup { Empty }, SubmitChange(u, kind, k, v),
         editing' \in [Users -> Keys \cup { Empty }],
         adding' \in [Users -> BOOLEAN]
  PROVE  LabelInv'
<1>1. PICK new : new = [user |-> u, kind |-> kind, key |-> k, value |-> v,
          list |-> Changed(copy[u], kind, k, v),
          phase |-> "sent", delete |-> {}, put |-> {}, at |-> Nothing,
          wrote |-> << >>, disturbed |-> {}, op |-> ops]
  OBVIOUS
<1>2. /\ requests' = requests \cup { new } /\ ops' = ops + 1
      /\ clean' = (clean /\ copy[u] = Stored /\ ~\E r \in requests : UnderWay(r))
      /\ UNCHANGED << rows, inserted, copy, reading, wanted >>
  BY <1>1 DEF SubmitChange
<1>3. new \in LabelRequests
  <2>1. Changed(copy[u], kind, k, v) \in Labels
    BY ChangedTypes, LabelConstants DEF LabelInv, LabelTypes
  <2>2. << >> \in LabelRows
    BY NoRows
  <2> QED
    BY <1>1, <2>1, <2>2 DEF LabelInv, LabelTypes, LabelRequests, Nothing
<1>4. LabelTypes'
  BY <1>2, <1>3 DEF LabelInv, LabelTypes
<1>5. Stored' = Stored
  BY <1>2 DEF Stored
<1>6. new.phase = "sent" /\ NotBegun(new)
  BY <1>1, NoRows DEF NotBegun
<1>7. clean' => FromPresent(new)'
  BY <1>1, <1>2, <1>5 DEF FromPresent
<1>8. ASSUME NEW r PROVE (FromPresent(r)' <=> FromPresent(r)) /\ (OnlyOwn(r)' <=> OnlyOwn(r))
  <2>1. ASSUME NEW x PROVE Listed(r, x)' <=> Listed(r, x)
    BY <1>2 DEF Listed, Seen
  <2> QED
    BY <1>5, <2>1 DEF OnlyOwn, Put, FromPresent
<1> QED
  BY <1>2, <1>4, <1>5, <1>6, <1>7, <1>8 DEF LabelInv, NotBegun, Nothing

LEMMA QueryKeeps ==
  ASSUME LabelInv, NEW u \in Users, NEW labels \in Labels, QueryEnds(u, labels)
  PROVE  LabelInv'
<1>1. PICK ended : ended = { r \in requests : r.user = u /\ r.phase = "refetching" }
  OBVIOUS
<1>2. requests' = requests \ ended /\ UNCHANGED << rows, inserted, clean, wanted, ops >>
  BY <1>1 DEF QueryEnds
<1>3. NotRead \in [state : { "no", "asked", "read" }, data : Labels]
  BY DEF NotRead, NoLabels, Labels
<1>4. LabelTypes'
  <2>1. reading' = [reading EXCEPT ![u] = NotRead] /\ copy' = [copy EXCEPT ![u] = labels]
    BY DEF QueryEnds
  <2>2. /\ reading' \in [Users -> [state : { "no", "asked", "read" }, data : Labels]]
        /\ copy' \in [Users -> Labels]
    BY <1>3, <2>1 DEF LabelInv, LabelTypes
  <2>3. editing' \in [Users -> Keys \cup { Empty }] /\ adding' \in [Users -> BOOLEAN]
    BY DEF QueryEnds, LabelInv, LabelTypes
  <2> QED
    BY <1>2, <2>2, <2>3 DEF LabelInv, LabelTypes
<1> QED
  BY <1>2, <1>4, PageKeeps

LEMMA AnswerKeeps ==
  ASSUME LabelInv, NEW r \in requests, Answer(r)
  PROVE  LabelInv'
<1>1. r \in LabelRequests
  BY DEF LabelInv, LabelTypes
<1>2. PICK new : new = [r EXCEPT !.phase = "refetching"]
  OBVIOUS
<1>3. new \in LabelRequests /\ new.phase = "refetching"
  BY <1>1, <1>2 DEF LabelRequests
<1>4. /\ requests' \subseteq requests \cup { new }
      /\ UNCHANGED << rows, inserted, copy, editing, adding, clean, wanted, ops >>
  BY <1>2 DEF Answer
<1>5. reading' \in [Users -> [state : { "no", "asked", "read" }, data : Labels]]
  BY <1>1 DEF Answer, AskLabels, LabelInv, LabelTypes, LabelRequests
<1>6. LabelTypes'
  BY <1>3, <1>4, <1>5 DEF LabelInv, LabelTypes
<1> QED
  BY <1>3, <1>4, <1>6, PageKeeps DEF UnderWay

LEMMA NextKeeps ==
  ASSUME LabelInv, [LabelNext]_labelVars
  PROVE  LabelInv'
<1>1. ASSUME NEW u \in Users, NEW k \in Keys, StartEdit(u, k) PROVE LabelInv'
  <2>1. LabelTypes'
    BY <1>1 DEF StartEdit, LabelInv, LabelTypes
  <2> QED
    BY <1>1, <2>1, PageKeeps DEF StartEdit
<1>2. ASSUME NEW u \in Users, NEW k \in Keys, handleDeleteSubmit(u, k) PROVE LabelInv'
  <2>1. /\ "delete" \in ChangeKinds
        /\ editing' \in [Users -> Keys \cup { Empty }] /\ adding' \in [Users -> BOOLEAN]
    BY <1>2 DEF ChangeKinds, handleDeleteSubmit, LabelInv, LabelTypes
  <2> QED
    BY <1>2, <2>1, SubmitKeeps DEF handleDeleteSubmit
<1>3. ASSUME NEW u \in Users, NEW k \in Keys, NEW v \in Typed, handleAddSubmit(u, k, v)
      PROVE  LabelInv'
  <2>1. "put" \in ChangeKinds /\ "add" \in ChangeKinds
    BY DEF ChangeKinds
  <2>2. editing' \in [Users -> Keys \cup { Empty }] /\ adding' \in [Users -> BOOLEAN]
    BY <1>3 DEF handleAddSubmit, LabelInv, LabelTypes
  <2> QED
    BY <1>3, <2>1, <2>2, SubmitKeeps DEF handleAddSubmit
<1>4. ASSUME NEW u \in Users, CancelEdit(u) \/ ToggleAdd(u) PROVE LabelInv'
  <2>1. LabelTypes' /\ UNCHANGED << rows, clean, wanted, requests >>
    BY <1>4 DEF CancelEdit, ToggleAdd, LabelInv, LabelTypes
  <2> QED
    BY <2>1, PageKeeps
<1>5. ASSUME NEW u \in Users, NEW v \in Typed, handleEditSubmit(u, v) PROVE LabelInv'
  <2>1. /\ "edit" \in ChangeKinds /\ editing[u] \in Keys
        /\ editing' \in [Users -> Keys \cup { Empty }] /\ adding' \in [Users -> BOOLEAN]
    BY <1>5 DEF ChangeKinds, handleEditSubmit, LabelInv, LabelTypes
  <2> QED
    BY <1>5, <2>1, SubmitKeeps DEF handleEditSubmit
<1>6. ASSUME NEW u \in Users, FocusLabels(u) \/ ServerReadsLabels(u) PROVE LabelInv'
  <2>1. LabelTypes' /\ UNCHANGED << rows, clean, wanted, requests >>
    BY <1>6, StoredTypes DEF FocusLabels, AskLabels, ServerReadsLabels, LabelInv, LabelTypes
  <2> QED
    BY <2>1, PageKeeps
<1>7. ASSUME NEW u \in Users, QueryReturns(u) \/ QueryFails(u) PROVE LabelInv'
  <2>1. reading[u].data \in Labels /\ copy[u] \in Labels
    BY DEF LabelInv, LabelTypes
  <2> QED
    BY <1>7, <2>1, QueryKeeps DEF QueryReturns, QueryFails
<1>8. ASSUME NEW r \in requests, NEW k \in Keys, GetByKey(r, k) PROVE LabelInv'
  BY <1>8, GetByKeyKeeps
<1>9. ASSUME NEW r \in requests, NEW d \in r.delete, Delete(r, d[1], d[2]) PROVE LabelInv'
  <2>1. d[1] \in Keys /\ d[2] \in Nat
    BY DEF LabelInv, LabelTypes, LabelRequests
  <2> QED
    BY <1>9, <2>1, DeleteKeeps
<1>10. ASSUME NEW r \in requests,
              List(r) \/ Update(r) \/ Create(r) \/ Fail(r) \/ Commit(r) \/ Answer(r)
       PROVE  LabelInv'
  BY <1>10, ListKeeps, UpdateKeeps, CreateKeeps, FailKeeps, CommitKeeps, AnswerKeeps
<1>11. CASE UNCHANGED labelVars
  <2>1. LabelTypes' /\ UNCHANGED << rows, clean, wanted, requests >>
    BY <1>11 DEF labelVars, LabelInv, LabelTypes
  <2> QED
    BY <2>1, PageKeeps
<1> QED
  BY <1>1, <1>2, <1>3, <1>4, <1>5, <1>6, <1>7, <1>8, <1>9, <1>10, <1>11 DEF LabelNext

(* A request leaves its list but for keys that others changed in the       *)
(* course of it, and changes made one at a time from present labels are    *)
(* all kept (LabelList, CreateOrUpdateLabelsFromLabelItemsSchema).         *)
THEOREM OwnLabelsKept == LabelSpec => LabelsKept
<1>1. LabelInv /\ [LabelNext]_labelVars => [KeepsLabels]_labelVars
  BY CommitStores DEF KeepsLabels
<1> QED
  BY InitHolds, NextKeeps, <1>1, PTL DEF LabelSpec, LabelsKept
=============================================================================
