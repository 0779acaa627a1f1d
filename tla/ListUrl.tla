------------------------------ MODULE ListUrl ------------------------------
(***************************************************************************)
(* A list of the dashboard and its address: the words, filters and order   *)
(* of the list (q) and its page are kept in the query string, which several*)
(* components of the page write, each from a copy of its own.              *)
(*                                                                         *)
(* A text is the sequence of its items, what blanks separate; an item is   *)
(* the sequence of its parts, what colons separate.                        *)
(***************************************************************************)
EXTENDS Naturals, FiniteSets, SequencesExt

CONSTANTS
  Texts,     \* what may be typed or be in an address
  Preset,    \* the text of the filter beside the input
  Multiple,  \* keys of the filters with several values
  Single,    \* keys of the filters with one
  Options,   \* the options of a filter
  Ranges,    \* what may be chosen in the date picker of the list of events
  Total,     \* items of the list
  Count,     \* items of a page
  MaxActs    \* bound on what the user does

Filters == Multiple \cup Single

(* Each has its own useQueryArgs.                                          *)
Writers == { "card", "input", "bar", "table" }

VARIABLES
  trail,  \* the addresses visited, and
  at,     \*   where in the history the browser is
  refs,   \* queryRef of each writer
  value,  \* the text in FilterInput, and whether it ends in a blank
  due,    \* effects of FilterInput that are due
  keyDown,\* isKeyDownRef
  typed,  \* the text is the user's, and not looked for
  by,     \* who has moved last
  range,  \* what the date picker has, if there is one
  open,   \* the filters whose options are on display, and
  self,   \*   selfClickRef of each
  acts    \* what the user has done so far

listVars == << trail, at, refs, value, due, keyDown, typed, by, range, open, self, acts >>

Url == trail[at]

(* What a component that writes finds.                                     *)
Here == [trail |-> trail, at |-> at, refs |-> refs, by |-> by]

(* A picker that is as it began, without dates, and one that was cleared   *)
(* or has the first date only.                                             *)
Untouched == "untouched"
Emptied   == "emptied"
NoPicker  == "no picker"

-----------------------------------------------------------------------------
(* A query in the order of its keys: to be set, to be unset, or a list.    *)
HasKey(q, key) == \E i \in DOMAIN q : q[i].key = key
ValuesOf(q, key) ==
  IF \E i \in DOMAIN q : q[i].key = key /\ q[i].kind = "list"
  THEN q[CHOOSE i \in DOMAIN q : q[i].key = key].list ELSE << >>

(* An object keeps the place of a key that it has already.                 *)
With(q, entry) ==
  IF HasKey(q, entry.key)
  THEN [q EXCEPT ![CHOOSE i \in DOMAIN q : q[i].key = entry.key] = entry]
  ELSE Append(q, entry)

Entry(key, kind, list) == [key |-> key, kind |-> kind, list |-> list]

ParseItem(q, item) ==
  LET key == IF Len(item) = 1 THEN "__keywords" ELSE item[1]
      val == IF Len(item) = 1 THEN item[1] ELSE item[2]
  IN IF key = "" \/ val = "" THEN q
     ELSE IF key = "is" THEN With(q, Entry(val, "set", << >>))
     ELSE IF key = "not" THEN With(q, Entry(val, "unset", << >>))
     ELSE With(q, Entry(key, "list", Append(ValuesOf(q, key), val)))

parseQ(text) ==
  LET parse[i \in 0 .. Len(text)] == IF i = 0 THEN << >> ELSE ParseItem(parse[i - 1], text[i])
  IN parse[Len(text)]

Written(entry) ==
  CASE entry.kind = "set"   -> << << "is", entry.key >> >>
    [] entry.kind = "unset" -> << << "not", entry.key >> >>
    [] OTHER -> [i \in DOMAIN entry.list |->
                  IF entry.key = "__keywords" THEN << entry.list[i] >>
                  ELSE << entry.key, entry.list[i] >>]

qToString(q) == FlattenSeq([i \in DOMAIN q |-> Written(q[i])])

-----------------------------------------------------------------------------
(* What every component reads from the address; a page that is missing or  *)
(* no number is 0 here, and counts as the first.                           *)
Q        == parseQ(Url.q)
PageNum  == IF Url.page = 0 THEN 1 ELSE Url.page
Start    == (PageNum - 1) * Count

(* The numbers that the pagination offers, and what a page has.            *)
NumPages   == Total \div Count + 1
ItemsOf(n) == { i \in 1 .. Total : (n - 1) * Count < i /\ i <= n * Count }

(* The text that FilterInput makes of it.                                  *)
InputText == LET text == qToString(Q) IN [text |-> text, blank |-> text # << >>]

(* Mutant: what is written is added to the present address.                *)
UpdateQueryFresh(s, writer, new) ==
  LET all == IF writer = "table" THEN new ELSE [new EXCEPT !.page = s.trail[s.at].page]
  IN [trail |-> Append(SubSeq(s.trail, 1, s.at), all), at |-> s.at + 1,
      refs |-> [s.refs EXCEPT ![writer] = all], by |-> writer]

(* useQueryArgs: what is written is added to the own copy, which is the    *)
(* address of when the component came on display, and what it has written  *)
(* since; the result is pushed.                                            *)
UpdateQuery(s, writer, new) ==
  [trail |-> Append(SubSeq(s.trail, 1, s.at), new), at |-> s.at + 1,
   refs |-> [s.refs EXCEPT ![writer] = new], by |-> writer]

(* replaceQ and updateQ, clearQ, and setPage with all of the address.      *)
WriteQ(s, writer, q) == UpdateQuery(s, writer, [s.refs[writer] EXCEPT !.q = qToString(q)])
ClearQ(s, writer)    == UpdateQuery(s, writer, [s.refs[writer] EXCEPT !.q = << >>])
SetPage(n)           == UpdateQuery(Here, "table", [q |-> Url.q, page |-> n])

Becomes(s) == trail' = s.trail /\ at' = s.at /\ refs' = s.refs /\ by' = s.by

(* The two dates of a range are one item here.                             *)
DatesOf(q) == ValuesOf(q, "dates")

Dated(q) ==
  IF range \in Ranges THEN With(q, Entry("dates", "list", << range >>))
  ELSE SelectSeq(q, LAMBDA entry : entry.key # "dates")

Picking(r) == r \in Ranges \cup { Emptied }

ListInit ==
  /\ trail \in { << [q |-> t, page |-> n] >> : t \in Texts, n \in 0 .. NumPages }
  /\ at = 1 /\ refs = [w \in Writers |-> trail[1]]
  /\ range \in { NoPicker, IF DatesOf(Q) = << >> THEN Untouched ELSE DatesOf(Q)[1] }
  /\ value = InputText /\ due = { "value" } \cup (IF Picking(range) THEN { "dates" } ELSE {})
  /\ keyDown = FALSE /\ typed = FALSE
  /\ by = "user" /\ open = {} /\ self = [f \in Filters |-> FALSE] /\ acts = 0

(* Effects come before anything the user does.                             *)
Act == due = {} /\ acts < MaxActs /\ acts' = acts + 1

(* The effects that another address makes due: the input's, when the text  *)
(* made of it changes, and the picker's.                                   *)
DueAfter ==
  IF Url'.q = Url.q THEN {}
  ELSE (IF InputText' # InputText THEN { "q" } ELSE {})
       \cup (IF Picking(range) THEN { "dates" } ELSE {})

-----------------------------------------------------------------------------
(* The effects that are due, all with what the last rendering had: those   *)
(* of FilterInput, one of which takes the address's text and the other     *)
(* writes the text unless a key is down, and then the picker's.  What they *)
(* set and push makes one rendering.                                       *)
RunEffects ==
  /\ due # {}
  /\ LET writes == "value" \in due /\ ~keyDown
         input  == IF writes THEN WriteQ(Here, "input", parseQ(value.text)) ELSE Here
     IN /\ Becomes(IF "dates" \in due THEN WriteQ(input, "card", Dated(Q)) ELSE input)
        /\ value' = IF "q" \in due THEN InputText ELSE value
        /\ typed' = (typed /\ ~writes /\ "q" \notin due)
        /\ due' = DueAfter \cup (IF value' # value THEN { "value" } ELSE {})
  /\ UNCHANGED << keyDown, range, open, self, acts >>

(* A key in the input, or text put in or cleared with the mouse.           *)
Change(t, b, key) ==
  /\ Act /\ value' = [text |-> t, blank |-> b] /\ value' # value
  /\ keyDown' = (keyDown \/ key) /\ due' = { "value" } /\ typed' = TRUE
  /\ UNCHANGED << trail, at, refs, by, range, open, self >>

(* The key may be released somewhere else.                                 *)
KeyUp ==
  /\ due = {} /\ keyDown /\ keyDown' = FALSE
  /\ UNCHANGED << trail, at, refs, value, due, typed, by, range, open, self, acts >>

(* Enter, or the button beside the input.                                  *)
Search(key) ==
  /\ Act /\ Becomes(WriteQ(Here, "input", parseQ(value.text))) /\ due' = DueAfter
  /\ keyDown' = (keyDown \/ key) /\ typed' = FALSE
  /\ UNCHANGED << value, range, open, self >>

(* The filter beside the input: once more for what is there clears it.     *)
SelectPreset ==
  /\ Act /\ Becomes(WriteQ(Here, "input", IF qToString(Q) = Preset THEN << >> ELSE parseQ(Preset)))
  /\ due' = DueAfter /\ UNCHANGED << value, keyDown, typed, range, open, self >>

-----------------------------------------------------------------------------
(* A click on the label of a filter, which React handles before the        *)
(* listeners of the document; a click elsewhere is for these alone, and    *)
(* one among the options is for nobody else.                               *)
ClickLabel(f) ==
  /\ Act /\ self' = [self EXCEPT ![f] = FALSE]
  /\ LET clicked == [self EXCEPT ![f] = TRUE]
     IN open' = { g \in Filters : IF g = f THEN g \notin open ELSE g \in open /\ clicked[g] }
  /\ UNCHANGED << trail, at, refs, value, due, keyDown, typed, by, range >>

ClickElsewhere ==
  /\ Act /\ open' = { f \in open : self[f] } /\ self' = [f \in Filters |-> FALSE]
  /\ UNCHANGED << trail, at, refs, value, due, keyDown, typed, by, range >>

(* An option: once more takes it away; the field above only narrows what   *)
(* is on offer.                                                            *)
Selected(f, v) ==
  LET old == ValuesOf(Q, f)
  IN IF f \in Multiple
     THEN IF Contains(old, v) THEN SelectSeq(old, LAMBDA w : w # v) ELSE Append(old, v)
     ELSE IF Contains(old, v) THEN << >> ELSE << v >>

Select(f, v) ==
  /\ Act /\ f \in open
  /\ Becomes(WriteQ(Here, "card", With(Q, Entry(f, "list", Selected(f, v)))))
  /\ due' = DueAfter /\ UNCHANGED << value, keyDown, typed, range, open, self >>

(* FilterBar's button, which is there while anything is set.               *)
Clear ==
  /\ Act /\ Q # << >> /\ Becomes(ClearQ(Here, "bar")) /\ due' = DueAfter
  /\ UNCHANGED << value, keyDown, typed, range, open, self >>

(* The date picker of the list of events.                                  *)
Pick(r) ==
  /\ Act /\ range # NoPicker /\ range' = r /\ due' = { "dates" }
  /\ UNCHANGED << trail, at, refs, value, keyDown, typed, by, open, self >>

(* The pagination of Table, List and Grid.                                 *)
TurnTo(n) ==
  /\ Act /\ n \in 1 .. NumPages /\ Becomes(SetPage(n)) /\ due' = DueAfter
  /\ UNCHANGED << value, keyDown, typed, range, open, self >>

(* Back and forward.                                                       *)
Go(i) ==
  /\ Act /\ i \in DOMAIN trail /\ at' = i /\ by' = "history"
  /\ UNCHANGED << trail, range >> /\ due' = DueAfter
  /\ UNCHANGED << refs, value, keyDown, typed, open, self >>

(* For its filters a card takes lists only: with one that is set or unset  *)
(* instead it does not get on display, and with it the whole dashboard.    *)
Crashed ==
  LET q == Q IN \E i \in DOMAIN q : q[i].key \in Filters /\ q[i].kind # "list"

ListNext ==
  /\ ~Crashed
  /\ \/ RunEffects \/ KeyUp \/ SelectPreset \/ ClickElsewhere \/ Clear
     \/ \E t \in Texts, b, key \in BOOLEAN : Change(t, b, key)
     \/ \E key \in BOOLEAN : Search(key)
     \/ \E f \in Filters : ClickLabel(f) \/ \E v \in Options : Select(f, v)
     \/ \E n \in 1 .. NumPages : TurnTo(n)
     \/ \E r \in Ranges \cup { Emptied } : Pick(r)
     \/ Go(at - 1) \/ Go(at + 1)

ListSpec == ListInit /\ [][ListNext]_listVars

-----------------------------------------------------------------------------
(* The types of the state.                                                 *)
ListTypeOK ==
  /\ at \in DOMAIN trail /\ DOMAIN refs = Writers
  /\ \A i \in DOMAIN trail : trail[i].page \in 0 .. NumPages
  /\ due \subseteq { "q", "value", "dates" }
  /\ range \in Ranges \cup { Untouched, Emptied, NoPicker } /\ { keyDown, typed } \subseteq BOOLEAN
  /\ by \in Writers \cup { "user", "history" }
  /\ open \subseteq Filters /\ self \in [Filters -> BOOLEAN] /\ acts \in 0 .. MaxActs

(* Between two things the user does, the input asks for what the list is   *)
(* asked for, but for what is typed and not looked for yet.                *)
InputMeansUrl == (due = {} /\ ~typed) => parseQ(value.text) = Q

(* Another page than that of the address that was opened is on display     *)
(* only because it was turned to: words and filters go back to the one     *)
(* that was opened, since every writer has its own copy of it.             *)
PageTurned == Url.page # trail[1].page => by \in { "table", "history" }

(* The options of one filter at a time.                                    *)
OneOpen == Cardinality(open) <= 1

(* The dates in the picker are those that the list is asked for, whatever  *)
(* else is cleared, typed or gone back to.                                 *)
DatesMeanUrl ==
  (due = {} /\ Picking(range)) =>
    DatesOf(Q) = IF range = Emptied THEN << >> ELSE << range >>

(* FilterInput, the picker and the address come to an agreement: what the  *)
(* user does leaves two more entries in the history at the most, and five  *)
(* with a picker.                                                          *)
Settles ==
  IF range = NoPicker THEN at <= 2 + 2 * acts ELSE at <= 3 + 5 * acts

(* No item of the list is out of reach of the pagination.                  *)
AllOffered == 1 .. Total \subseteq UNION { ItemsOf(n) : n \in 1 .. NumPages }

(* The list, its input, its filters and its pagination follow the address. *)
FollowsUrl == InputMeansUrl /\ DatesMeanUrl /\ PageTurned /\ OneOpen /\ Settles /\ AllOffered
=============================================================================
