----------------------------- MODULE LabelList -----------------------------
(***************************************************************************)
(* The labels of a bento or a model.  The page changes one of them by      *)
(* sending the whole list, made from the copy that its query has brought   *)
(* last; the server stores a list in one transaction, label by label.      *)
(* Nothing keeps a second change from starting before the first has ended, *)
(* on the same page or on another.                                         *)
(*                                                                         *)
(* The database is at its isolation level "read committed": a statement    *)
(* sees what is committed and its own transaction's writes, and waits for  *)
(* another transaction that has written the same row or key.               *)
(***************************************************************************)
EXTENDS Naturals, FiniteSets

CONSTANTS
  Users,  \* pages on display, each of somebody
  Keys,
  Values,
  Typed,  \* those of them that are typed
  MaxOps  \* bound on the changes that are submitted

VARIABLES
  rows,     \* for each key the row that is committed, or NoRow
  inserted, \* the number of rows inserted so far, the next one's id
  copy,     \* for each page, the labels it displays
  reading,  \* for each page, its query: "no", "asked" or what it has read
  editing,  \* for each page, the key being edited, or Empty
  adding,   \* for each page, whether the inputs of a new label are shown
  requests, \* the changes under way
  clean,    \* none was submitted from a copy out of date, or beside another
  wanted,   \* the labels that the changes ask for, one after the other
  ops

labelVars == << rows, inserted, copy, reading, editing, adding, requests, clean, wanted, ops >>

(* The text of an input without any, and of a label that is not there.     *)
Empty       == ""
NoRow       == [id |-> 0, value |-> Empty]
Stored      == [k \in Keys |-> rows[k].value]
NoLabels    == [k \in Keys |-> Empty]
Labels      == [Keys -> Values \cup { Empty }]
NotRead     == [state |-> "no", data |-> NoLabels]
Nothing     == [key |-> Empty, id |-> 0]
UnderWay(r) == r.phase \in { "sent", "open" }

(* No key is the empty text, and what is typed are values.                 *)
ASSUME LabelConstants == Empty \notin Keys /\ Typed \subseteq Values

LabelInit ==
  /\ \E l \in [Keys -> (Values \ Typed) \cup { Empty }] :
       rows = [k \in Keys |-> IF l[k] = Empty THEN NoRow ELSE [id |-> 1, value |-> l[k]]]
  /\ inserted = 1 /\ copy = [u \in Users |-> Stored]
  /\ reading = [u \in Users |-> NotRead] /\ editing = [u \in Users |-> Empty]
  /\ adding = [u \in Users |-> FALSE] /\ requests = {} /\ clean = TRUE /\ wanted = Stored /\ ops = 0

-----------------------------------------------------------------------------
(* What is sent of a list in which one label is put or taken away.         *)
Changed(labels, kind, key, v) ==
  CASE kind = "edit"   -> IF labels[key] = Empty THEN labels ELSE [labels EXCEPT ![key] = v]
    [] kind = "delete" -> [labels EXCEPT ![key] = Empty]
    [] OTHER           -> [labels EXCEPT ![key] = v]

Loading(u, kind) == \E r \in requests : r.user = u /\ r.kind = kind

(* onChange.                                                               *)
SubmitChange(u, kind, key, v) ==
  /\ ops < MaxOps /\ ops' = ops + 1 /\ (kind = "put" \/ ~Loading(u, kind))
  /\ requests' = requests \cup
       { [user |-> u, kind |-> kind, key |-> key, value |-> v, list |-> Changed(copy[u], kind, key, v),
          phase |-> "sent", delete |-> {}, put |-> {}, at |-> Nothing,
          wrote |-> << >>, disturbed |-> {}, op |-> ops] }
  /\ clean' = (clean /\ copy[u] = Stored /\ ~\E r \in requests : UnderWay(r))
  /\ UNCHANGED << rows, inserted, copy, reading, wanted >>

(* Another key can be chosen while the last edit is stored.                *)
StartEdit(u, key) ==
  /\ copy[u][key] # Empty /\ editing[u] # key /\ editing' = [editing EXCEPT ![u] = key]
  /\ UNCHANGED << rows, inserted, copy, reading, adding, requests, clean, wanted, ops >>

CancelEdit(u) ==
  /\ editing[u] # Empty /\ ~Loading(u, "edit") /\ editing' = [editing EXCEPT ![u] = Empty]
  /\ UNCHANGED << rows, inserted, copy, reading, adding, requests, clean, wanted, ops >>

(* The inputs keep what was typed into them.                               *)
ToggleAdd(u) ==
  /\ ~Loading(u, "add") /\ adding' = [adding EXCEPT ![u] = ~@]
  /\ UNCHANGED << rows, inserted, copy, reading, editing, requests, clean, wanted, ops >>

(* The label whose editor is open is on display.                           *)
handleEditSubmit(u, v) ==
  /\ editing[u] # Empty /\ copy[u][editing[u]] # Empty
  /\ SubmitChange(u, "edit", editing[u], v) /\ UNCHANGED << editing, adding >>

handleDeleteSubmit(u, key) ==
  /\ copy[u][key] # Empty /\ SubmitChange(u, "delete", key, Empty) /\ UNCHANGED << editing, adding >>

(* A key that is there already is not waited for.                          *)
handleAddSubmit(u, key, v) ==
  /\ adding[u] /\ ~Loading(u, "add") /\ UNCHANGED editing
  /\ IF copy[u][key] # Empty THEN SubmitChange(u, "put", key, v) /\ adding' = [adding EXCEPT ![u] = FALSE]
     ELSE SubmitChange(u, "add", key, v) /\ UNCHANGED adding

-----------------------------------------------------------------------------
Step(r, new) ==
  /\ requests' = (requests \ { r }) \cup { new }
  /\ UNCHANGED << rows, copy, reading, editing, adding, clean, wanted, ops >>

(* What a statement of r sees; for what it waits; what it has written.     *)
Seen(r, k)  == IF k \in DOMAIN r.wrote THEN r.wrote[k] ELSE rows[k]
Waits(r, k) == \E s \in requests \ { r } : s.phase = "open" /\ k \in DOMAIN s.wrote
Wrote(r, k, row) == [x \in DOMAIN r.wrote \cup { k } |-> IF x = k THEN row ELSE r.wrote[x]]
Put(r)      == { k \in Keys : r.list[k] # Empty }

(* Mutant: labels that the list does not have stay.                        *)
ListAndKeep(r) ==
  /\ r.phase = "sent" /\ UNCHANGED inserted
  /\ Step(r, [r EXCEPT !.phase = "open", !.put = Put(r)])

(* CreateOrUpdateLabelsFromLabelItemsSchema: those that the list does not  *)
(* have go; then each of the list is put, in whatever order they are.      *)
List(r) ==
  /\ r.phase = "sent" /\ UNCHANGED inserted
  /\ Step(r, [r EXCEPT !.phase = "open", !.put = Put(r),
                       !.delete = { << k, rows[k].id >> : k \in { x \in Keys \ Put(r) : rows[x] # NoRow } }])

(* Delete and Update go by the id: of a row that is gone they change       *)
(* nothing, and say nothing.                                               *)
Delete(r, k, id) ==
  /\ r.phase = "open" /\ << k, id >> \in r.delete /\ ~Waits(r, k) /\ UNCHANGED inserted
  /\ Step(r, [r EXCEPT !.delete = @ \ { << k, id >> },
                       !.wrote = IF rows[k].id = id THEN Wrote(r, k, NoRow) ELSE @])

GetByKey(r, k) ==
  /\ r.phase = "open" /\ r.delete = {} /\ r.at.key = Empty /\ k \in r.put /\ UNCHANGED inserted
  /\ Step(r, [r EXCEPT !.put = @ \ { k }, !.at = [key |-> k, id |-> Seen(r, k).id]])

Update(r) ==
  LET k == r.at.key
  IN /\ r.phase = "open" /\ k # Empty /\ r.at.id # 0 /\ ~Waits(r, k) /\ UNCHANGED inserted
     /\ Step(r, [r EXCEPT !.at = Nothing,
                          !.wrote = IF rows[k].id = r.at.id
                                    THEN Wrote(r, k, [id |-> r.at.id, value |-> r.list[k]]) ELSE @])

(* The unique index refuses a key that somebody else has inserted, which   *)
(* fails the transaction.                                                  *)
Create(r) ==
  LET k == r.at.key
  IN /\ r.phase = "open" /\ k # Empty /\ r.at.id = 0 /\ ~Waits(r, k) /\ rows[k] = NoRow
     /\ inserted' = inserted + 1
     /\ Step(r, [r EXCEPT !.at = Nothing,
                          !.wrote = Wrote(r, k, [id |-> inserted + 1, value |-> r.list[k]])])

(* Any error, such as that or a deadlock: the database undoes everything,  *)
(* though bento.Update and model.Update commit, since they look at another *)
(* variable err.                                                           *)
Fail(r) ==
  /\ UnderWay(r) /\ UNCHANGED inserted
  /\ Step(r, [r EXCEPT !.phase = "failed", !.wrote = << >>, !.delete = {}, !.put = {}, !.at = Nothing])

Commit(r) ==
  /\ r.phase = "open" /\ r.delete = {} /\ r.put = {} /\ r.at = Nothing
  /\ rows' = [k \in Keys |-> Seen(r, k)] /\ wanted' = Changed(wanted, r.kind, r.key, r.value)
  /\ requests' = { IF s = r THEN [r EXCEPT !.phase = "done", !.wrote = << >>]
                   ELSE IF s.phase = "open" THEN [s EXCEPT !.disturbed = @ \cup DOMAIN r.wrote]
                   ELSE s : s \in requests }
  /\ UNCHANGED << inserted, copy, reading, editing, adding, clean, ops >>

-----------------------------------------------------------------------------
AskLabels(u) == reading' = IF reading[u].state = "no" THEN [reading EXCEPT ![u].state = "asked"] ELSE reading

(* The page asks anew, unless it is asking already, and waits for that.    *)
Answer(r) ==
  /\ \/ r.phase = "failed" /\ requests' = requests \ { r } /\ UNCHANGED reading
     \/ /\ r.phase = "done" /\ AskLabels(r.user)
        /\ requests' = (requests \ { r }) \cup { [r EXCEPT !.phase = "refetching"] }
  /\ UNCHANGED << rows, inserted, copy, editing, adding, clean, wanted, ops >>

(* The page gets the focus.                                                *)
FocusLabels(u) ==
  /\ reading[u].state = "no" /\ AskLabels(u)
  /\ UNCHANGED << rows, inserted, copy, editing, adding, requests, clean, wanted, ops >>

ServerReadsLabels(u) ==
  /\ reading[u].state = "asked" /\ reading' = [reading EXCEPT ![u] = [state |-> "read", data |-> Stored]]
  /\ UNCHANGED << rows, inserted, copy, editing, adding, requests, clean, wanted, ops >>

(* An answer, or an error; those who wait for it close what they are in.   *)
QueryEnds(u, labels) ==
  LET ended == { r \in requests : r.user = u /\ r.phase = "refetching" }
  IN /\ reading' = [reading EXCEPT ![u] = NotRead] /\ copy' = [copy EXCEPT ![u] = labels]
     /\ requests' = requests \ ended
     /\ editing' = [editing EXCEPT ![u] = IF \E r \in ended : r.kind = "edit" THEN Empty ELSE @]
     /\ adding' = [adding EXCEPT ![u] = @ /\ ~\E r \in ended : r.kind = "add"]
     /\ UNCHANGED << rows, inserted, clean, wanted, ops >>

QueryReturns(u) == reading[u].state = "read" /\ QueryEnds(u, reading[u].data)
QueryFails(u)   == reading[u].state # "no" /\ QueryEnds(u, copy[u])

LabelNext ==
  \/ \E u \in Users, k \in Keys :
       \/ StartEdit(u, k) \/ handleDeleteSubmit(u, k)
       \/ \E v \in Typed : handleAddSubmit(u, k, v)
  \/ \E u \in Users :
       \/ CancelEdit(u) \/ ToggleAdd(u) \/ \E v \in Typed : handleEditSubmit(u, v)
       \/ FocusLabels(u) \/ ServerReadsLabels(u) \/ QueryReturns(u) \/ QueryFails(u)
  \/ \E r \in requests :
       \/ List(r) \/ Update(r) \/ Create(r) \/ Fail(r) \/ Commit(r) \/ Answer(r)
       \/ \E k \in Keys : GetByKey(r, k)
       \/ \E d \in r.delete : Delete(r, d[1], d[2])

LabelSpec == LabelInit /\ [][LabelNext]_labelVars

-----------------------------------------------------------------------------
(* The types of the state: of changes that are waited for, one of a kind   *)
(* for a page.                                                             *)
LabelTypeOK ==
  /\ { copy[u] : u \in Users } \cup { wanted, Stored } \subseteq Labels
  /\ \A k \in Keys : rows[k].id <= inserted /\ (rows[k].id = 0 <=> rows[k].value = Empty)
  /\ \A r, s \in requests : r.user = s.user /\ r.kind = s.kind /\ r.kind # "put" => r = s
  /\ \A u \in Users : editing[u] \in Keys \cup { Empty } /\ adding[u] \in BOOLEAN

(* A request leaves exactly its list, but for keys that others changed in  *)
(* the course of it.  As long as every change is made from the present     *)
(* labels and none meets another, the labels are what the changes asked    *)
(* for one after the other; otherwise one can take another's back          *)
(* (LabelList, and CreateOrUpdateLabelsFromLabelItemsSchema).              *)
KeepsLabels ==
  \A r \in requests : Commit(r) =>
    /\ \A k \in Keys : Stored'[k] = r.list[k] \/ k \in r.disturbed
    /\ clean => Stored' = wanted'

LabelsKept == [][KeepsLabels]_labelVars
=============================================================================
