------------------------------ MODULE AdminLists ------------------------------
(***************************************************************************)
(* The user management page: the list of users and the allowlist, each a   *)
(* tab with a search, pages and the requests an administrator makes from   *)
(* its rows, while others change the same tables.                          *)
(*                                                                         *)
(* The page does not wait for one request before it makes the next, and    *)
(* every answer takes effect when it arrives.  Which of the matching rows  *)
(* are on a page is left open, page stands for the number and the size.  A *)
(* request to change roles is left out: its body names the roles "roles",  *)
(* the schema of the API asks for "roleNames", so it is always refused.    *)
(***************************************************************************)
EXTENDS Integers

CONSTANTS
    Members,        \* users
    Administrator,  \* the user who looks at the page
    Emails,         \* e-mails for the allowlist
    Searches, All,  \* search texts, and the empty one
    Pages,
    Slots,          \* requests of the page in flight
    MaxChanges      \* bound: changes of a row

ASSUME RowsAssumption == Members \cap Emails = {}
ASSUME SearchAssumption == All \in Searches /\ 1 \in Pages
ASSUME ChangesAssumption == MaxChanges \in Nat

VARIABLES
    stored,         \* the rows of users and allowed_emails
    shownTab,       \* the tab that is open
    query,          \* the search and the page its controls show
    list,           \* the rows it shows
    listed,         \* the query they answer
    loading,        \* a spinner hides them
    menu,           \* the user whose menu is open, and the status it offers
    dialog,         \* of a new e-mail
    sent,           \* the requests in flight
    told            \* history: the newest version of each row it was told of

listsVars == <<stored, shownTab, query, list, listed, loading, menu, dialog, sent, told>>

Listables  == Members \cup Emails
RowsOf(t)  == IF t = "users" THEN Members ELSE Emails
Statuses   == {"active", "inactive", "pending", "claimed", "none"}

\* ver counts the changes of a row; id tells an entry from one that was removed.
Listable   == [ver: 0..MaxChanges, id: 0..MaxChanges, status: Statuses]
Unlisted   == [ver |-> 0, id |-> 0, status |-> "none"]
Nothing    == [x \in Listables |-> Unlisted]
Query      == [search: Searches, page: Pages]
FirstPage  == [search |-> All, page |-> 1]
NoMenu     == [about |-> {}, want |-> "none"]

\* A request: what it is about and asks for, the query of the list it reads or is
\* followed by, and the answer.  crossed: another request of the page ended since it
\* was sent.  closes: the dialog waits for it.
ListCall == [op: {"none", "list", "activate", "add", "remove"},
             at: {"sent", "found", "answered"},
             about: SUBSET Listables, want: Statuses, id: 0..MaxChanges,
             query: Query, rows: [Listables -> Listable],
             crossed: BOOLEAN, closes: BOOLEAN]
NoCall   == [op |-> "none", at |-> "sent", about |-> {}, want |-> "none", id |-> 0,
             query |-> FirstPage, rows |-> Nothing, crossed |-> FALSE, closes |-> FALSE]

Listing(t, q) == [NoCall EXCEPT !.op = "list", !.about = RowsOf(t), !.query = q]

\* The page is opened on the first tab.
ListsInit ==
    /\ stored \in [Listables -> {[Unlisted EXCEPT !.status = s] : s \in Statuses}]
    /\ \A u \in Members : stored[u].status \in {"active", "inactive"}
    /\ \A e \in Emails : stored[e].status \in {"none", "pending"}
    /\ shownTab = "users" /\ query = FirstPage
    /\ list = Nothing /\ listed = [query |-> FirstPage, clean |-> FALSE]
    /\ loading = TRUE /\ menu = NoMenu /\ dialog = "closed"
    /\ \E r \in Slots :
          sent = [s \in Slots |-> IF s = r THEN Listing("users", FirstPage) ELSE NoCall]
    /\ told = [x \in Listables |-> 0]

-----------------------------------------------------------------------------
(* Helpers *)

pageState == <<shownTab, query, list, listed, loading, menu, dialog, told>>

Is(r, op, at) == sent[r].op = op /\ sent[r].at = at
Send(r, call) == sent[r] = NoCall /\ sent' = [sent EXCEPT ![r] = call]

InFlight(ops) == {r \in Slots : sent[r].op \in ops}

\* r ends or goes on as next; the others know that they were overtaken.
Ends(r, next) ==
    sent' = [s \in Slots |->
                IF s = r THEN next
                ELSE IF sent[s] = NoCall THEN NoCall ELSE [sent[s] EXCEPT !.crossed = TRUE]]

Heard(rows) ==
    told' = [x \in Listables |-> IF rows[x].ver > told[x] THEN rows[x].ver ELSE told[x]]

\* Menus and dialogs are in front of the page.
Uncovered == menu = NoMenu /\ dialog = "closed"
Displayed == ~loading /\ list # Nothing /\ Uncovered

-----------------------------------------------------------------------------
(* The controls *)

\* A tab is opened, or the page loaded again: what was in flight is no longer heard;
\* what it still does at the server is a change made elsewhere.
OpenList(t) ==
    /\ Uncovered
    /\ shownTab' = t /\ query' = FirstPage
    /\ list' = Nothing /\ listed' = [query |-> FirstPage, clean |-> FALSE] /\ loading' = TRUE
    /\ \E r \in Slots :
          sent' = [s \in Slots |-> IF s = r THEN Listing(t, FirstPage) ELSE NoCall]
    /\ told' = [x \in Listables |-> 0]
    /\ UNCHANGED <<stored, menu, dialog>>

\* The effect that depends on the controls.
Fetch(q) ==
    /\ query' = q /\ loading' = TRUE
    /\ \E r \in Slots : Send(r, Listing(shownTab, q))
    /\ UNCHANGED <<stored, shownTab, list, listed, menu, dialog, told>>

\* Mutant of HandleSearchChange: the effect does not depend on the search.
HandleSearchChangeUnseen(s) ==
    /\ Uncovered /\ s # query.search
    /\ query' = [search |-> s, page |-> 1]
    /\ UNCHANGED <<stored, shownTab, list, listed, loading, menu, dialog, sent, told>>

HandleSearchChange(s) ==
    /\ Uncovered /\ s # query.search
    /\ Fetch([search |-> s, page |-> 1])

HandleChangePage(p) ==
    /\ Displayed /\ p # query.page
    /\ Fetch([query EXCEPT !.page = p])

HandleMenuOpen(u) ==
    /\ Displayed /\ list[u].status # "none"
    /\ menu' = [about |-> {u},
                want |-> IF list[u].status = "active" THEN "inactive" ELSE "active"]
    /\ UNCHANGED <<stored, shownTab, query, list, listed, loading, dialog, sent, told>>

HandleMenuClose ==
    /\ menu # NoMenu
    /\ menu' = NoMenu
    /\ UNCHANGED <<stored, shownTab, query, list, listed, loading, dialog, sent, told>>

\* The menu stays until the answer is there, and offers what it did when it opened.
HandleToggleActive(r) ==
    /\ menu # NoMenu
    /\ Send(r, [NoCall EXCEPT !.op = "activate", !.about = menu.about, !.want = menu.want])
    /\ UNCHANGED <<stored, pageState>>

\* The list is read again after a change of the allowlist, without the search and
\* with the page of the last answer there was when it was asked for.
Change(op, e) ==
    [NoCall EXCEPT !.op = op, !.about = {e}, !.id = list[e].id,
                   !.want = IF op = "add" THEN "pending" ELSE "none",
                   !.query = [search |-> All, page |-> listed.query.page],
                   !.crossed = ~listed.clean \/ InFlight({"list"}) # {}]

\* The button is there for entries that are shown as pending.
HandleRemove(r, e) ==
    /\ Displayed /\ list[e].status = "pending"
    /\ Send(r, Change("remove", e))
    /\ UNCHANGED <<stored, pageState>>

AddDialog ==
    /\ shownTab = "allowlist"
    /\ \/ dialog = "closed" /\ dialog' = "open"
       \/ dialog = "open" /\ dialog' = "closed"
    /\ UNCHANGED <<stored, shownTab, query, list, listed, loading, menu, sent, told>>

HandleAddEmail(r, e) ==
    /\ dialog = "open" /\ dialog' = "submitting"
    /\ Send(r, Change("add", e))
    /\ UNCHANGED <<stored, shownTab, query, list, listed, loading, menu, told>>

-----------------------------------------------------------------------------
(* The API *)

ListPage(r) ==
    /\ Is(r, "list", "sent")
    /\ \E found \in SUBSET {x \in sent[r].about : stored[x].status # "none"} :
          sent' = [sent EXCEPT
                      ![r].at = "answered",
                      ![r].rows = [x \in Listables |-> IF x \in found THEN stored[x] ELSE Unlisted]]
    /\ UNCHANGED <<stored, pageState>>

\* A change of x's row; an entry that is added gets a new id.
Anew(x, status) ==
    [ver |-> stored[x].ver + 1, status |-> status,
     id |-> IF stored[x].status = "none" THEN stored[x].ver + 1 ELSE stored[x].id]

Changed(x, status) ==
    /\ stored[x].ver < MaxChanges
    /\ stored' = [stored EXCEPT ![x] = Anew(x, status)]

StoreRow(r, x) ==
    /\ x \in sent[r].about
    /\ Changed(x, sent[r].want)
    /\ sent' = [sent EXCEPT ![r].at = "answered",
                            ![r].rows = [Nothing EXCEPT ![x] = Anew(x, sent[r].want)]]
    /\ UNCHANGED pageState

\* Administrators cannot deactivate themselves.
UpdateMember(r, u) ==
    /\ Is(r, "activate", "sent")
    /\ u # Administrator \/ sent[r].want = "active"
    /\ StoreRow(r, u)

AddEntry(r, e) ==
    /\ Is(r, "add", "sent") /\ stored[e].status = "none"
    /\ StoreRow(r, e)

\* removeEmail looks for the entry, and deletes it by its id, claimed since or not.
SameEntry(r, e) ==
    e \in sent[r].about /\ stored[e].id = sent[r].id /\ stored[e].status # "none"

FindToRemove(r, e) ==
    /\ Is(r, "remove", "sent")
    /\ SameEntry(r, e) /\ stored[e].status = "pending"
    /\ sent' = [sent EXCEPT ![r].at = "found"]
    /\ UNCHANGED <<stored, pageState>>

DeleteEntry(r, e) ==
    /\ Is(r, "remove", "found") /\ SameEntry(r, e)
    /\ StoreRow(r, e)

\* Logins, other administrators, the user itself.
ElsewhereChanged ==
    /\ \/ \E u \in Members, s \in {"active", "inactive"} : Changed(u, s)
       \/ \E e \in Emails, s \in {"none", "pending", "claimed"} :
             s # stored[e].status /\ Changed(e, s)
    /\ UNCHANGED <<sent, pageState>>

-----------------------------------------------------------------------------
(* The answers *)

HearList(r) ==
    /\ Is(r, "list", "answered")
    /\ list' = sent[r].rows /\ loading' = FALSE
    /\ listed' = [query |-> sent[r].query, clean |-> ~sent[r].crossed]
    /\ dialog' = IF sent[r].closes THEN "closed" ELSE dialog
    /\ Heard(sent[r].rows)
    /\ Ends(r, NoCall)
    /\ UNCHANGED <<stored, shownTab, query, menu>>

\* The row of the answer takes the place of the user's, and any menu closes.
HearUpdate(r) ==
    /\ Is(r, "activate", "answered")
    /\ list' = [x \in Listables |->
                   IF x \in sent[r].about /\ list[x].status # "none"
                   THEN sent[r].rows[x] ELSE list[x]]
    /\ listed' = [listed EXCEPT !.clean = @ /\ ~sent[r].crossed]
    /\ menu' = NoMenu
    /\ Heard(sent[r].rows)
    /\ Ends(r, NoCall)
    /\ UNCHANGED <<stored, shownTab, query, loading, dialog>>

\* Mutant of HearChange: the list is not read again.
HearChangeOnly(r) ==
    /\ sent[r].op \in {"add", "remove"} /\ sent[r].at = "answered"
    /\ dialog' = IF sent[r].op = "add" THEN "closed" ELSE dialog
    /\ Heard(sent[r].rows)
    /\ Ends(r, NoCall)
    /\ UNCHANGED <<stored, shownTab, query, list, listed, loading, menu>>

HearChange(r) ==
    /\ sent[r].op \in {"add", "remove"} /\ sent[r].at = "answered"
    /\ loading' = TRUE
    /\ Heard(sent[r].rows)
    /\ Ends(r, [Listing(shownTab, sent[r].query) EXCEPT
                   !.crossed = sent[r].crossed, !.closes = (sent[r].op = "add")])
    /\ UNCHANGED <<stored, shownTab, query, list, listed, menu, dialog>>

\* The request is refused, or lost on its way there or back.  A list that cannot be
\* read is shown as empty.
AnswerFails(r) ==
    /\ sent[r] # NoCall
    /\ \/ /\ sent[r].op = "list"
          /\ list' = Nothing /\ loading' = FALSE
          /\ listed' = [listed EXCEPT !.clean = FALSE]
          /\ dialog' = IF sent[r].closes THEN "closed" ELSE dialog
       \/ /\ sent[r].op # "list"
          /\ dialog' = IF sent[r].op = "add" THEN "open" ELSE dialog
          /\ UNCHANGED <<list, loading, listed>>
    /\ Ends(r, NoCall)
    /\ UNCHANGED <<stored, shownTab, query, menu, told>>

-----------------------------------------------------------------------------

Controls ==
    \/ \E t \in {"users", "allowlist"} : OpenList(t)
    \/ \E s \in Searches : HandleSearchChange(s)
    \/ \E p \in Pages : HandleChangePage(p)
    \/ \E u \in Members : HandleMenuOpen(u)
    \/ HandleMenuClose
    \/ AddDialog
    \/ \E r \in Slots :
          \/ HandleToggleActive(r)
          \/ \E e \in Emails : HandleRemove(r, e) \/ HandleAddEmail(r, e)

ListsApi(r) ==
    \/ ListPage(r)
    \/ \E u \in Members : UpdateMember(r, u)
    \/ \E e \in Emails : AddEntry(r, e) \/ FindToRemove(r, e) \/ DeleteEntry(r, e)

Hear(r) == HearList(r) \/ HearUpdate(r) \/ HearChange(r) \/ AnswerFails(r)

ListsNext ==
    \/ Controls
    \/ \E r \in Slots : ListsApi(r) \/ Hear(r)
    \/ ElsewhereChanged

ListsSpec == ListsInit /\ [][ListsNext]_listsVars

-----------------------------------------------------------------------------
(* Properties *)

\* Every variable stays within its type; the page shows rows of its own table, none
\* newer than the table, and waits for requests its tab makes.
ListsTypeOK ==
    /\ stored \in [Listables -> Listable]
    /\ shownTab \in {"users", "allowlist"} /\ query \in Query
    /\ list \in [Listables -> Listable]
    /\ listed \in [query: Query, clean: BOOLEAN]
    /\ loading \in BOOLEAN /\ dialog \in {"closed", "open", "submitting"}
    /\ menu \in [about: SUBSET Members, want: Statuses]
    /\ sent \in [Slots -> ListCall]
    /\ told \in [Listables -> 0..MaxChanges]
    /\ menu.about \subseteq RowsOf(shownTab)
    /\ dialog # "closed" => shownTab = "allowlist"
    /\ \A x \in Listables :
          /\ list[x].ver <= stored[x].ver
          /\ list[x].status # "none" => x \in RowsOf(shownTab)
    /\ \A r \in Slots :
          /\ sent[r].about \subseteq RowsOf(shownTab)
          /\ sent[r].op \in {"add", "remove"} => shownTab = "allowlist" /\ sent[r].query.search = All
          /\ \A x \in Listables :
                /\ sent[r].rows[x].ver <= stored[x].ver
                /\ x \notin sent[r].about => sent[r].rows[x] = Unlisted

\* No row is shown that is older than what the administrator was told of it before, a
\* removal included, as long as no other request of the page ended while the one
\* whose answer is shown was under way.
ShownIsFresh ==
    listed.clean /\ ~loading =>
       \A x \in Listables : list[x].status # "none" => list[x].ver >= told[x]

\* Once the page has stopped reading, its rows are those of the page and the search
\* its controls show, with the same exception.  A change of the allowlist reads the
\* list again without the search, which its field still shows.
Matches(q) ==
    /\ q.page = query.page
    /\ q.search = query.search \/ (shownTab = "allowlist" /\ q.search = All)

ListedIsAsked == listed.clean /\ InFlight({"list"}) = {} => Matches(listed.query)

\* What makes them inductive.  An answer that was not overtaken is as new as all that
\* was told before ...
AnswersAreFresh ==
    /\ \A x \in Listables : told[x] <= stored[x].ver
    /\ \A r \in Slots, x \in Listables :
          sent[r].at = "answered" /\ ~sent[r].crossed /\ sent[r].rows[x].status # "none" =>
             sent[r].rows[x].ver >= told[x]

\* ... and what was read, or will be, is what the controls show, or that is being read.
Expected(q) == Matches(q) \/ \E s \in InFlight({"list"}) : sent[s].query = query

QueriesAreExpected ==
    /\ listed.clean => Expected(listed.query)
    /\ \A r \in InFlight({"list", "add", "remove"}) :
          ~sent[r].crossed => Expected(sent[r].query)

ListsInv ==
    ListsTypeOK /\ ShownIsFresh /\ ListedIsAsked /\ AnswersAreFresh /\ QueriesAreExpected
=============================================================================
