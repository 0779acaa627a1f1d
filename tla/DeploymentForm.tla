--------------------------- MODULE DeploymentForm ---------------------------
(***************************************************************************)
(* The form that makes a deployment, or changes one by a new revision.     *)
(*                                                                         *)
(* It has its data twice: uiValues is what the form's items show, and only *)
(* what there are items for; values is what is sent, into which uiValues is*)
(* merged, so that what no item shows is kept.  A field is known here by   *)
(* its name; the fields of a runner are taken together.  What effects do   *)
(* belongs to the step that makes them due, since nothing comes between.   *)
(***************************************************************************)
EXTENDS Naturals, Sequences, FiniteSets

CONSTANTS
  Clusters,      \* names of clusters
  Bentos,        \* pairs of a repository and a version
  RunnersOf(_),  \* runners of a bento
  Edited,        \* fields of the form that are edited, besides selections
  MaxEdits,      \* bound on what the user does in the forms
  MaxOpens       \* bound on how often it is opened

VARIABLES
  mode,    \* "new" or "edit"
  phase,   \* "open", "sending" or "closed"
  ui,      \* uiValues: the fields, the runners, and whether the environment
           \*   is the very list that the cache has
  values,  \* likewise
  confs,   \* the text in the editor of the bentoml configuration
  info,    \* the clusters that have been fetched, and
  lists,   \*   the repositories whose bentos are listed
  bento,   \* the bento on display, in a set
  server,  \* the revision that the server has
  cached,  \* the revision in the query cache, and
  shared,  \*   the runners of which values has the very objects
  fresh,   \* the cache has been answered since a form was closed,
  based,   \*   and it had been when this form was opened
  origin,  \* what the form was opened with, or was given as JSON
  shown,   \* number of the revision that the form has come to
  touched, \* the user has changed something in this form
  sent,    \* what has been sent, in a set
  edits, opens

formVars == << mode, phase, ui, values, confs, info, lists, bento, server, cached,
               shared, fresh, based, origin, shown, touched, sent, edits, opens >>

NoText == ""
FieldTexts == { NoText, "x" }

(* A runner's fields that have items, and what it overrides, if anything:   *)
(* for that there is none, no more than for the target's.                  *)
Runner(own, over) == [own |-> own, over |-> over]
Hidden == "bento_deployment_overrides"

(* What f has, and from g what f does not have; fs with one more or        *)
(* another field.                                                          *)
Over(f, g) == [x \in DOMAIN f \cup DOMAIN g |-> IF x \in DOMAIN f THEN f[x] ELSE g[x]]
Having(fs, f, t) == Over([x \in { f } |-> t], fs)

Repositories == { b[1] : b \in Bentos }

(* Where a cluster puts deployments unless told otherwise.                 *)
DefaultNamespace(c) == "namespace of " \o c

-----------------------------------------------------------------------------
(* The items of the form.                                                  *)
Ifs(condition, fields) == IF condition THEN fields ELSE {}

GeneralItems(u) ==
  { "cluster_name", "name" } \cup Ifs(u.fields["cluster_name"] # NoText, { "kube_namespace" })
  \cup Ifs(mode = "new", { "description" })

BentoItems(u) ==
  { "enable_ingress", "type", "bento_repository" }
  \cup Ifs(u.fields["bento_repository"] # NoText, { "bento" })

ReplicaItems == { "min_replicas", "max_replicas" }

ResourceItems ==
  { "requests_cpu", "requests_memory", "requests_custom", "limits_cpu", "limits_memory", "limits_custom" }

Strategy   == { "deployment_strategy" }
DebugItems == { "enable_stealing_traffic_debug_mode", "enable_debug_pod_receive_production_traffic" }
EnvItems   == { "envs" }

TargetItems == ReplicaItems \cup ResourceItems \cup Strategy \cup DebugItems \cup EnvItems

Items(u) == GeneralItems(u) \cup BentoItems(u) \cup TargetItems

(* The tabs of the runners, each with the same items but the first ones.   *)
Tabs == UNION { RunnersOf(b) : b \in bento }

(* onValuesChange tells what there are items for, and nothing else; a tab  *)
(* whose runner has nothing tells that.                                    *)
Told(u) ==
  [fields  |-> [f \in Items(u) \cap DOMAIN u.fields |-> u.fields[f]],
   runners |-> [r \in Tabs |->
                 Runner(IF r \in DOMAIN u.runners THEN u.runners[r].own ELSE "blank", NoText)],
   env     |-> u.env]

-----------------------------------------------------------------------------
(* What has overrides keeps them.                                          *)
MergedRunner(old, new) ==
  Runner(IF new.own = "blank" THEN old.own ELSE new.own,
         IF old.over = NoText THEN new.over ELSE old.over)

MergedRunners(old, new) ==
  Over([r \in DOMAIN new |->
         IF r \in DOMAIN old THEN MergedRunner(old[r], new[r]) ELSE new[r]], old)

(* Mutant: a text that has been emptied does not count.                    *)
MergeFilled(v, u) ==
  [fields  |-> Over([f \in DOMAIN u.fields |->
                      IF u.fields[f] = NoText /\ f \in DOMAIN v.fields THEN v.fields[f] ELSE u.fields[f]],
                    v.fields),
   runners |-> MergedRunners(v.runners, u.runners), env |-> u.env]

(* mergeWith: what the source does not have stays, runners too, and so do  *)
(* overrides, and the values of a runner for which it has a blank.  Lists  *)
(* and maps are replaced as a whole.                                       *)
Merge(v, u) ==
  [fields  |-> Over([f \in DOMAIN u.fields |->
                      IF f = Hidden /\ f \in DOMAIN v.fields THEN v.fields[f] ELSE u.fields[f]],
                    v.fields),
   runners |-> MergedRunners(v.runners, u.runners), env |-> u.env]

(* The bento that the selector finds in its list.                          *)
FoundBento(u) ==
  { b \in Bentos : /\ b[1] \in lists' /\ b[1] = u.fields["bento_repository"]
                   /\ "bento" \in DOMAIN u.fields /\ b[2] = u.fields["bento"] }

(* Effect on the cluster's data: for another cluster its namespace.        *)
Settled(u) ==
  LET c == u.fields["cluster_name"]
      new == c \in info' /\ (c # ui.fields["cluster_name"] \/ c \notin info \/ phase = "closed")
  IN IF new THEN [u EXCEPT !.fields = Having(@, "kube_namespace", DefaultNamespace(c))] ELSE u

(* Effect on the runners of a bento that gets on display: a new deployment *)
(* starts from the defaults, and from the CPU that the bento asks for.     *)
Defaults(u, b) ==
  IF mode = "new" /\ b # bento /\ (\E x \in b : RunnersOf(x) # {})
  THEN [u EXCEPT !.runners = [r \in UNION { RunnersOf(x) : x \in b } |-> Runner("default", NoText)]] ELSE u

(* setUIValues: the effects, and the merge, which writes into the objects  *)
(* that values has, those of the cache among them.                         *)
SetUI(u, v) ==
  LET b   == FoundBento(u)
      new == Defaults(Settled(u), b)
  IN /\ ui' = new /\ bento' = b /\ values' = Merge(v, new)

WriteThrough ==
  cached' = [cached EXCEPT !.runners =
              [r \in DOMAIN cached.runners |->
                IF r \in shared THEN values'.runners[r] ELSE cached.runners[r]]]

-----------------------------------------------------------------------------
Fields(c, n, d, repo, version) ==
  [cluster_name |-> c, name |-> n, description |-> d, bento_repository |-> repo, bento |-> version]

(* Every other field has a default, an empty text here.                    *)
Others == [f \in TargetItems \cup { "enable_ingress", "type" } |-> NoText]
NoFields ==
  [fields |-> Over(Fields(NoText, NoText, NoText, NoText, NoText), Others),
   runners |-> << >>, env |-> FALSE]

(* A revision, with overrides or without.                                  *)
Revision(number, c, b, conf, over) ==
  [number |-> number, conf |-> conf,
   fields |-> Over([f \in { "kube_namespace" } \cup Ifs(over # NoText, { Hidden }) |->
                     IF f = Hidden THEN over ELSE "x"],
                   Over(Fields(c, "x", "x", b[1], b[2]), Others)),
   runners |-> [r \in RunnersOf(b) |-> Runner("x", over)]]

(* What a form starts from that comes to a revision.                       *)
FormOf(revision) ==
  [fields |-> revision.fields, runners |-> revision.runners, env |-> TRUE]

(* The effects of a form that comes on display: with a revision it starts  *)
(* from that, and has its runners as they are in the cache.                *)
StartForm(m) ==
  /\ phase' = "open" /\ touched' = FALSE /\ sent' = {} /\ based' = fresh
  /\ IF m = "new"
     THEN /\ SetUI(NoFields, NoFields) /\ origin' = NoFields
          /\ confs' = NoText /\ shown' = 0 /\ shared' = {}
     ELSE /\ SetUI(FormOf(cached), NoFields) /\ origin' = FormOf(cached)
          /\ confs' = cached.conf /\ shown' = cached.number /\ shared' = DOMAIN cached.runners

FormInit ==
  /\ mode \in { "new", "edit" } /\ phase = "closed" /\ ui = NoFields /\ values = NoFields
  /\ confs = NoText /\ info = {} /\ lists = {} /\ bento = {} /\ sent = {}
  /\ \E c \in Clusters, b \in Bentos, over \in FieldTexts :
       server = Revision(1, c, b, NoText, over)
  /\ cached = server /\ shared = {} /\ fresh = TRUE /\ based = TRUE /\ shown = 0
  /\ origin = NoFields
  /\ touched = FALSE /\ edits = 0 /\ opens = 0

OpenDeploymentForm ==
  /\ phase = "closed" /\ opens < MaxOpens /\ opens' = opens + 1
  /\ UNCHANGED << info, lists >> /\ StartForm(mode)
  /\ UNCHANGED << mode, server, cached, fresh, edits >>

-----------------------------------------------------------------------------
Edit ==
  /\ phase \in { "open", "sending" } /\ edits < MaxEdits /\ edits' = edits + 1 /\ touched' = TRUE
  /\ UNCHANGED << mode, phase, info, lists, server, fresh, based, shown, sent, opens >>

(* handleChange.                                                           *)
handleChange(u) ==
  Edit /\ SetUI(Told(u), values) /\ WriteThrough /\ UNCHANGED << confs, shared, origin >>

WriteField(f, t) ==
  f \in Items(ui)
    /\ handleChange([ui EXCEPT !.fields = Having(@, f, t), !.env = @ /\ f # "envs"])

(* Neither cluster, namespace nor name of a deployment can be changed.     *)
SelectField(f, t) ==
  /\ f \in Items(ui) /\ (f \in { "cluster_name", "kube_namespace" } => mode = "new")
  /\ handleChange([ui EXCEPT !.fields = Having(@, f, t)])

WriteRunner(r, t) ==
  r \in Tabs /\ handleChange([ui EXCEPT !.runners = Having(@, r, Runner(t, NoText))])

(* A tab of which the form has nothing.                                    *)
OpenTab(r) ==
  /\ r \in Tabs \ DOMAIN ui.runners /\ Edit
  /\ SetUI([ui EXCEPT !.runners = Having(@, r, Runner("blank", NoText))], values) /\ WriteThrough
  /\ UNCHANGED << confs, shared, origin >>

WriteConf(t) ==
  Edit /\ confs # t /\ confs' = t /\ UNCHANGED << ui, values, bento, cached, shared, origin >>

(* The JSON editor, and back: it shows values, and replaces both by a new  *)
(* object.  Here a runner is taken out.                                    *)
Json(v) ==
  Edit /\ SetUI(v, v) /\ origin' = v /\ shared' = {} /\ UNCHANGED << confs, cached >>

JsonEdit ==
  \E r \in DOMAIN values.runners :
    Json([fields |-> values.fields, env |-> FALSE,
          runners |-> [s \in DOMAIN values.runners \ { r } |-> values.runners[s]]])

-----------------------------------------------------------------------------
(* The answers to the queries.                                             *)
ClusterFetched(c) ==
  /\ phase # "closed" /\ ui.fields["cluster_name"] = c /\ c \notin info
  /\ info' = info \cup { c } /\ UNCHANGED lists /\ SetUI(ui, values) /\ WriteThrough
  /\ UNCHANGED << mode, phase, confs, server, shared, fresh, based, origin, shown, touched, sent, edits, opens >>

BentosListed(repo) ==
  /\ phase # "closed" /\ ui.fields["bento_repository"] = repo /\ repo \notin lists
  /\ lists' = lists \cup { repo } /\ UNCHANGED info /\ SetUI(ui, values) /\ WriteThrough
  /\ UNCHANGED << mode, phase, confs, server, shared, fresh, based, origin, shown, touched, sent,
                  edits, opens >>

(* A text in the selector of bentos: that is another list.                 *)
SearchBento ==
  /\ ui.fields["bento_repository"] \in lists /\ edits < MaxEdits /\ edits' = edits + 1
  /\ phase \in { "open", "sending" } /\ lists' = lists \ { ui.fields["bento_repository"] }
  /\ bento' = {} /\ UNCHANGED << mode, phase, ui, values, confs, info, server, cached, shared, fresh,
                  based, origin, shown, touched, sent, opens >>

(* The cache keeps what has not changed, so that the form still shares it; *)
(* handleFinish may have changed a runner's environment there.  A revision *)
(* that the form has not come to yet is merged into what it has.           *)
RevisionFetched ==
  /\ mode = "edit" /\ cached' = server /\ fresh' = TRUE
  /\ \E same \in SUBSET { r \in shared \cap DOMAIN server.runners :
                            cached.runners[r] = server.runners[r] } :
       IF phase # "closed" /\ server.number # shown
       THEN /\ UNCHANGED << info, lists >>
            /\ SetUI(FormOf(server), values)
            /\ shared' = same \cup (DOMAIN server.runners \ DOMAIN values.runners)
            /\ confs' = server.conf /\ shown' = server.number
       ELSE LET list == cached.conf = server.conf /\ cached.fields["envs"] = server.fields["envs"]
            IN /\ shared' = same
               /\ ui' = [ui EXCEPT !.env = @ /\ list] /\ values' = [values EXCEPT !.env = @ /\ list]
               /\ UNCHANGED << bento, confs, info, lists, shown >>
  /\ UNCHANGED << mode, phase, server, based, origin, touched, sent, edits, opens >>

(* Somebody else's revision, perhaps of another bento.                     *)
OtherRevision ==
  /\ mode = "edit" /\ server.number = 1
  /\ \E b \in Bentos, over \in { NoText, "y" } :
       server' = Revision(2, server.fields["cluster_name"], b, "x", over)
  /\ UNCHANGED << mode, phase, ui, values, confs, info, lists, bento, cached, shared,
                  fresh, based, origin, shown, touched, sent, edits, opens >>

-----------------------------------------------------------------------------
(* handleFinish: the configuration goes into the environment of the target *)
(* and of each runner, in place, and there it stays after a refusal.  That *)
(* counts for the target in the cache only, of which the next form takes   *)
(* its text: whatever is sent has the present text everywhere.  Without a  *)
(* text the environment is a new list, in values alone.                    *)
handleFinish ==
  /\ phase = "open" /\ phase' = "sending"
  /\ sent' = { [fields |-> values.fields, runners |-> values.runners, conf |-> confs] }
  /\ values' = [values EXCEPT !.env = @ /\ confs # NoText]
  /\ cached' = [cached EXCEPT !.conf = IF values'.env THEN confs ELSE @]
  /\ UNCHANGED << mode, ui, confs, info, lists, bento, server, shared,
                  fresh, based, origin, shown, touched, edits, opens >>

(* Without a cluster there is nobody to send it to.                        *)
Sent(s) ==
  /\ phase = "sending" /\ s \in sent /\ phase' = "closed" /\ fresh' = FALSE
  /\ server' = IF mode = "new" THEN server
               ELSE [number |-> server.number + 1, conf |-> s.conf, runners |-> s.runners,
                     fields |-> Over([f \in { "cluster_name", "name", "kube_namespace" } |->
                                       server.fields[f]], s.fields)]
  /\ sent' = IF mode = "new" /\ s.fields["cluster_name"] = NoText THEN {} ELSE sent
  /\ UNCHANGED << mode, ui, values, confs, info, lists, bento, cached, shared, based,
                  origin, shown, touched, edits, opens >>

Refused ==
  /\ phase = "sending" /\ phase' = "open" /\ sent' = {}
  /\ UNCHANGED << mode, ui, values, confs, info, lists, bento, server, cached, shared,
                  fresh, based, origin, shown, touched, edits, opens >>

Cancel ==
  /\ phase = "open" /\ phase' = "closed" /\ fresh' = FALSE
  /\ UNCHANGED << mode, ui, values, confs, info, lists, bento, server, cached, shared,
                  based, origin, shown, touched, sent, edits, opens >>

FormNext ==
  \/ OpenDeploymentForm \/ JsonEdit \/ SearchBento \/ RevisionFetched \/ OtherRevision
  \/ handleFinish \/ Refused \/ Cancel
  \/ \E f \in Edited, t \in FieldTexts : WriteField(f, t)
  \/ \E c \in Clusters : SelectField("cluster_name", c) \/ ClusterFetched(c)
  \/ \E repo \in Repositories : SelectField("bento_repository", repo) \/ BentosListed(repo)
  \/ \E b \in Bentos : SelectField("bento", b[2])
  \/ \E r \in Tabs : OpenTab(r) \/ \E t \in { "default", "x" } : WriteRunner(r, t)
  \/ \E t \in FieldTexts : WriteConf(t)
  \/ \E s \in sent : Sent(s)

FormSpec == FormInit /\ [][FormNext]_formVars

-----------------------------------------------------------------------------
(* The types of the state.                                                 *)
FormTypeOK ==
  /\ phase \in { "open", "sending", "closed" } /\ confs \in FieldTexts
  /\ shared \subseteq DOMAIN cached.runners /\ bento \subseteq Bentos
  /\ \A r \in DOMAIN values.runners : values.runners[r].own \in { "blank", "default", "x" }
  /\ Cardinality(bento) <= 1 /\ Cardinality(sent) <= 1 /\ edits \in 0 .. MaxEdits

(* What an open form shows is what it would send, but for a runner that it *)
(* shows nothing of, whose former values are sent: that happens when it is *)
(* edited before its bentos are listed, or another bento is selected.      *)
ShownIsSent ==
  phase = "open" =>
    /\ \A f \in DOMAIN ui.fields \ { Hidden } : values.fields[f] = ui.fields[f]
    /\ \A r \in DOMAIN ui.runners :
         values.runners[r].own = ui.runners[r].own \/ ui.runners[r].own = "blank"

(* What a form has begun with and does not show would be sent as it was    *)
(* then: the overrides, and runners of which it has no tab.                *)
HiddenIsKept ==
  phase # "closed" =>
    /\ Hidden \in DOMAIN origin.fields =>
         Hidden \in DOMAIN values.fields /\ values.fields[Hidden] = origin.fields[Hidden]
    /\ \A r \in DOMAIN origin.runners :
         /\ r \in DOMAIN values.runners
         /\ origin.runners[r].over # NoText => values.runners[r].over = origin.runners[r].over

(* A form that nobody has touched shows what the server has, and would     *)
(* send it if it was opened with it: if it has come to a later revision,   *)
(* overrides and runners of the first are sent again.  But for a form that *)
(* was opened before the answer that takes away what an earlier one has    *)
(* left in the cache, and a revision that has not been fetched.            *)
StartsFromServer ==
  (phase = "open" /\ mode = "edit" /\ ~touched /\ based /\ shown = server.number) =>
    /\ ui.runners = server.runners /\ confs = server.conf
    /\ origin = FormOf(server) => /\ values.runners = server.runners
                                  /\ \A f \in DOMAIN server.fields \ { "kube_namespace" } :
                                       values.fields[f] = server.fields[f]

(* The two copies of the form's data agree with each other and with the    *)
(* server: what is on display is sent, what no item shows is kept, and the *)
(* form starts from the server's revision (handleChange, mergeWith and the *)
(* effect on the revision in DeploymentForm).                              *)
FormAgrees == ShownIsSent /\ HiddenIsKept /\ StartsFromServer
=============================================================================
