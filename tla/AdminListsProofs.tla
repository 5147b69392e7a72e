--------------------------- MODULE AdminListsProofs ---------------------------
(***************************************************************************)
(* Proofs about the user management page: type correctness, and that what  *)
(* it shows is fresh and is what was asked for unless requests of the page *)
(* overtook each other.                                                    *)
(***************************************************************************)
EXTENDS AdminLists, TLAPS

\* What the type invariant says of a request in flight.
CallTyped(c, t, table) ==
    /\ c \in ListCall
    /\ c.about \subseteq RowsOf(t)
    /\ c.op \in {"add", "remove"} => t = "allowlist" /\ c.query.search = All
    /\ \A x \in Listables :
          /\ c.rows[x].ver <= table[x].ver
          /\ x \notin c.about => c.rows[x] = Unlisted

Tables == [Listables -> Listable]

LEMMA CallsTyped ==
    ListsTypeOK => /\ stored \in Tables
                   /\ \A r \in Slots : CallTyped(sent[r], shownTab, stored)
  BY DEF ListsTypeOK, CallTyped, Tables

LEMMA NothingTyped ==
    Unlisted \in Listable /\ Nothing \in Tables /\ FirstPage \in Query
  BY ChangesAssumption, SearchAssumption
  DEF Unlisted, Listable, Nothing, Tables, FirstPage, Query, Statuses

LEMMA NoCallTyped ==
    ASSUME NEW table \in Tables, NEW t \in {"users", "allowlist"}
    PROVE  CallTyped(NoCall, t, table)
  <1>1. NoCall \in ListCall
    BY NothingTyped, ChangesAssumption DEF NoCall, ListCall, Statuses, Tables
  <1>2. \A x \in Listables : table[x].ver \in Nat
    BY ChangesAssumption DEF Tables, Listable
  <1> QED
    BY <1>1, <1>2 DEF CallTyped, NoCall, Nothing, Unlisted

LEMMA ListingTyped ==
    ASSUME NEW table \in Tables, NEW t \in {"users", "allowlist"}, NEW q \in Query,
           NEW crossed \in BOOLEAN, NEW closes \in BOOLEAN
    PROVE  /\ CallTyped(Listing(t, q), t, table)
           /\ CallTyped([Listing(t, q) EXCEPT !.crossed = crossed, !.closes = closes], t, table)
  <1>1. CallTyped(NoCall, t, table)
    BY NoCallTyped
  <1>2. RowsOf(t) \subseteq Listables
    BY DEF RowsOf, Listables
  <1> QED
    BY <1>1, <1>2 DEF CallTyped, Listing, NoCall, ListCall, Nothing

\* Versions only grow.
LEMMA NewerTyped ==
    ASSUME NEW c, NEW t, NEW table \in Tables, NEW newer \in Tables,
           \A x \in Listables : table[x].ver <= newer[x].ver,
           CallTyped(c, t, table)
    PROVE  CallTyped(c, t, newer)
  <1>1. \A x \in Listables :
           c.rows[x].ver \in Int /\ table[x].ver \in Int /\ newer[x].ver \in Int
    BY ChangesAssumption DEF CallTyped, ListCall, Tables, Listable
  <1> QED
    BY <1>1 DEF CallTyped

-----------------------------------------------------------------------------
(* Steps *)

LEMMA ChangedStep ==
    ASSUME ListsTypeOK, NEW x \in Listables, NEW status \in Statuses, Changed(x, status)
    PROVE  /\ stored' \in Tables
           /\ \A y \in Listables : stored[y].ver <= stored'[y].ver
           /\ stored'[x] = Anew(x, status) /\ stored'[x].ver = stored[x].ver + 1
           /\ Anew(x, status).status = status
  <1>1. stored \in Tables /\ stored[x] \in Listable
    BY DEF ListsTypeOK, Tables
  <1>2. stored[x].ver + 1 \in 0..MaxChanges
    BY <1>1, ChangesAssumption DEF Changed, Listable
  <1>3. Anew(x, status) \in Listable
    BY <1>1, <1>2 DEF Anew, Listable
  <1>4. \A y \in Listables : stored[y].ver \in Int
    BY <1>1, ChangesAssumption DEF Tables, Listable
  <1> QED
    BY <1>1, <1>3, <1>4 DEF Changed, Anew, Tables

LEMMA EndsStep ==
    ASSUME ListsTypeOK, NEW r \in Slots, NEW next, Ends(r, next)
    PROVE  /\ DOMAIN sent' = Slots /\ sent'[r] = next
           /\ \A s \in Slots \ {r} :
                 \/ sent'[s] = NoCall /\ sent[s] = NoCall
                 \/ sent[s] # NoCall /\ sent'[s] = [sent[s] EXCEPT !.crossed = TRUE]
  BY DEF Ends

LEMMA EndsTyped ==
    ASSUME ListsTypeOK, NEW r \in Slots, NEW next, CallTyped(next, shownTab, stored),
           Ends(r, next)
    PROVE  /\ sent' \in [Slots -> ListCall]
           /\ \A s \in Slots : CallTyped(sent'[s], shownTab, stored)
  <1>1. ASSUME NEW s \in Slots PROVE CallTyped(sent'[s], shownTab, stored)
    <2>1. CallTyped(sent[s], shownTab, stored)
      BY CallsTyped
    <2>2. CallTyped([sent[s] EXCEPT !.crossed = TRUE], shownTab, stored)
      BY <2>1 DEF CallTyped, ListCall
    <2> QED
      BY <2>1, <2>2, EndsStep
  <1>2. sent' = [s \in Slots |-> sent'[s]]
    BY DEF Ends
  <1> QED
    BY <1>1, <1>2 DEF CallTyped

LEMMA SendTyped ==
    ASSUME ListsTypeOK, NEW r \in Slots, NEW c, CallTyped(c, shownTab, stored), Send(r, c)
    PROVE  /\ sent' \in [Slots -> ListCall]
           /\ \A s \in Slots : CallTyped(sent'[s], shownTab, stored)
  <1>1. \A s \in Slots : CallTyped(sent[s], shownTab, stored)
    BY CallsTyped
  <1> QED
    BY <1>1 DEF Send, ListsTypeOK, CallTyped

LEMMA HeardStep ==
    ASSUME ListsTypeOK, NEW rows \in Tables, Heard(rows)
    PROVE  /\ told' \in [Listables -> 0..MaxChanges]
           /\ \A x \in Listables :
                 /\ told'[x] \in {told[x], rows[x].ver}
                 /\ told'[x] >= told[x] /\ told'[x] >= rows[x].ver
  <1>1. ASSUME NEW x \in Listables
        PROVE  told[x] \in 0..MaxChanges /\ rows[x].ver \in 0..MaxChanges
    BY DEF ListsTypeOK, Tables, Listable
  <1> QED
    BY <1>1, ChangesAssumption DEF Heard

-----------------------------------------------------------------------------
(* Type correctness *)

\* The type invariant, its requests put together.
LEMMA Together ==
    ASSUME stored \in Tables,
           shownTab \in {"users", "allowlist"} /\ query \in Query,
           list \in Tables, listed \in [query: Query, clean: BOOLEAN],
           loading \in BOOLEAN /\ dialog \in {"closed", "open", "submitting"},
           menu \in [about: SUBSET Members, want: Statuses],
           told \in [Listables -> 0..MaxChanges],
           menu.about \subseteq RowsOf(shownTab),
           dialog # "closed" => shownTab = "allowlist",
           \A x \in Listables :
              /\ list[x].ver <= stored[x].ver
              /\ list[x].status # "none" => x \in RowsOf(shownTab),
           sent \in [Slots -> ListCall],
           \A r \in Slots : CallTyped(sent[r], shownTab, stored)
    PROVE  ListsTypeOK
  BY DEF ListsTypeOK, CallTyped, Tables

LEMMA TypeInit == ListsInit => ListsTypeOK
  <1> SUFFICES ASSUME ListsInit PROVE ListsTypeOK
    OBVIOUS
  <1>1. stored \in Tables /\ told \in [Listables -> 0..MaxChanges]
    <2>1. \A s \in Statuses : [Unlisted EXCEPT !.status = s] \in Listable
      BY NothingTyped DEF Unlisted, Listable
    <2> QED
      BY <2>1, ChangesAssumption DEF ListsInit, Tables
  <1>2. \A r \in Slots : CallTyped(sent[r], shownTab, stored)
    BY <1>1, NothingTyped, NoCallTyped, ListingTyped DEF ListsInit
  <1>3. sent \in [Slots -> ListCall]
    BY <1>2 DEF ListsInit, CallTyped
  <1>4. \A x \in Listables : list[x] = Unlisted /\ stored[x].ver \in Nat
    BY <1>1, ChangesAssumption DEF ListsInit, Nothing, Tables, Listable
  <1>5. /\ menu \in [about: SUBSET Members, want: Statuses]
        /\ listed \in [query: Query, clean: BOOLEAN]
        /\ shownTab \in {"users", "allowlist"} /\ query \in Query /\ list \in Tables
        /\ loading \in BOOLEAN /\ dialog \in {"closed", "open", "submitting"}
        /\ menu.about \subseteq RowsOf(shownTab) /\ dialog = "closed"
    BY NothingTyped DEF ListsInit, NoMenu, Statuses
  <1>6. \A x \in Listables :
           /\ list[x].ver <= stored[x].ver
           /\ list[x].status # "none" => x \in RowsOf(shownTab)
    BY <1>4 DEF Unlisted
  <1> QED
    BY <1>1, <1>2, <1>3, <1>5, <1>6, Together

\* What the controls do to the type invariant: a fetch, and a request for a change.
LEMMA FetchTyped ==
    ASSUME ListsTypeOK, NEW q \in Query, Fetch(q)
    PROVE  ListsTypeOK'
  <1>1. CallTyped(Listing(shownTab, q), shownTab, stored)
    BY CallsTyped, ListingTyped DEF ListsTypeOK
  <1>2. /\ sent' \in [Slots -> ListCall]
        /\ \A s \in Slots : CallTyped(sent'[s], shownTab, stored)
    BY <1>1, SendTyped DEF Fetch
  <1> QED
    BY <1>2 DEF Fetch, ListsTypeOK, CallTyped

LEMMA ChangeTyped ==
    ASSUME ListsTypeOK, shownTab = "allowlist", NEW e \in Emails, NEW op \in {"add", "remove"}
    PROVE  CallTyped(Change(op, e), shownTab, stored)
  <1>1. CallTyped(NoCall, shownTab, stored)
    BY CallsTyped, NoCallTyped DEF ListsTypeOK
  <1>2. list[e].id \in 0..MaxChanges /\ e \in RowsOf(shownTab) /\ e \in Listables
    BY DEF ListsTypeOK, Listables, Listable, RowsOf
  <1>3. [search |-> All, page |-> listed.query.page] \in Query
    BY SearchAssumption DEF ListsTypeOK, Query
  <1> QED
    BY <1>1, <1>2, <1>3 DEF CallTyped, Change, NoCall, ListCall, Nothing, Statuses

LEMMA ControlsTyped ==
    ASSUME ListsTypeOK, Controls
    PROVE  ListsTypeOK'
  <1>0. stored \in Tables /\ shownTab \in {"users", "allowlist"}
    BY CallsTyped DEF ListsTypeOK
  <1>1. ASSUME NEW t \in {"users", "allowlist"}, OpenList(t) PROVE ListsTypeOK'
    <2>1. \A s \in Slots : CallTyped(sent'[s], t, stored)
      BY <1>0, <1>1, NothingTyped, NoCallTyped, ListingTyped DEF OpenList
    <2>2. sent' \in [Slots -> ListCall]
      BY <1>1, <2>1 DEF OpenList, CallTyped
    <2>3. \A x \in Listables : list'[x] = Unlisted /\ stored[x].ver \in Nat
      BY <1>0, <1>1, ChangesAssumption DEF OpenList, Nothing, Tables, Listable
    <2>4. \A x \in Listables :
             /\ list'[x].ver <= stored[x].ver
             /\ list'[x].status # "none" => x \in RowsOf(t)
      BY <2>3 DEF Unlisted
    <2>5. /\ list' \in Tables /\ query' \in Query /\ listed' \in [query: Query, clean: BOOLEAN]
          /\ told' \in [Listables -> 0..MaxChanges] /\ loading' \in BOOLEAN
      BY <1>1, NothingTyped, ChangesAssumption DEF OpenList
    <2>6. menu' \in [about: SUBSET Members, want: Statuses] /\ menu'.about = {}
      BY <1>1 DEF OpenList, Uncovered, NoMenu, Statuses
    <2> QED
      BY <1>0, <1>1, <2>1, <2>2, <2>4, <2>5, <2>6
      DEF OpenList, Uncovered, ListsTypeOK, Tables, CallTyped
  <1>2. ASSUME NEW s \in Searches, HandleSearchChange(s) PROVE ListsTypeOK'
    <2>1. [search |-> s, page |-> 1] \in Query
      BY SearchAssumption DEF Query
    <2> QED
      BY <1>2, <2>1, FetchTyped DEF HandleSearchChange
  <1>3. ASSUME NEW p \in Pages, HandleChangePage(p) PROVE ListsTypeOK'
    <2>1. [query EXCEPT !.page = p] \in Query
      BY DEF ListsTypeOK, Query
    <2> QED
      BY <1>3, <2>1, FetchTyped DEF HandleChangePage
  <1>4. ASSUME NEW u \in Members, HandleMenuOpen(u) PROVE ListsTypeOK'
    <2>1. u \in RowsOf(shownTab)
      BY <1>4 DEF HandleMenuOpen, ListsTypeOK, Listables
    <2> QED
      BY <1>4, <2>1 DEF HandleMenuOpen, ListsTypeOK, Statuses
  <1>5. CASE HandleMenuClose
    BY <1>5 DEF HandleMenuClose, ListsTypeOK, NoMenu, Statuses
  <1>6. CASE AddDialog
    BY <1>6 DEF AddDialog, ListsTypeOK
  <1>7. ASSUME NEW r \in Slots, NEW c, CallTyped(c, shownTab, stored), Send(r, c),
               UNCHANGED <<stored, shownTab, query, list, listed, loading, menu, told>>,
               dialog' \in {"closed", "open", "submitting"},
               dialog' # "closed" => shownTab = "allowlist"
        PROVE  ListsTypeOK'
    <2>1. /\ sent' \in [Slots -> ListCall]
          /\ \A s \in Slots : CallTyped(sent'[s], shownTab, stored)
      BY <1>7, SendTyped
    <2> QED
      BY <1>7, <2>1 DEF ListsTypeOK, CallTyped
  <1>8. ASSUME NEW r \in Slots, HandleToggleActive(r) PROVE ListsTypeOK'
    <2>1. CallTyped(NoCall, shownTab, stored)
      BY <1>0, NoCallTyped
    <2>2. menu.about \subseteq RowsOf(shownTab) /\ menu.about \subseteq Listables
          /\ menu.want \in Statuses
      BY DEF ListsTypeOK, RowsOf, Listables
    <2>3. CallTyped([NoCall EXCEPT !.op = "activate", !.about = menu.about,
                                   !.want = menu.want], shownTab, stored)
      BY <2>1, <2>2 DEF CallTyped, NoCall, ListCall, Nothing
    <2> QED
      BY <1>7, <1>8, <2>3 DEF HandleToggleActive, pageState, ListsTypeOK
  <1>9. ASSUME NEW r \in Slots, NEW e \in Emails, HandleRemove(r, e) PROVE ListsTypeOK'
    <2>1. shownTab = "allowlist"
      BY <1>9, RowsAssumption DEF HandleRemove, ListsTypeOK, RowsOf, Listables
    <2> QED
      BY <1>7, <1>9, <2>1, ChangeTyped DEF HandleRemove, pageState, ListsTypeOK
  <1>10. ASSUME NEW r \in Slots, NEW e \in Emails, HandleAddEmail(r, e) PROVE ListsTypeOK'
    <2>1. shownTab = "allowlist"
      BY <1>10 DEF HandleAddEmail, ListsTypeOK
    <2> QED
      BY <1>7, <1>10, <2>1, ChangeTyped DEF HandleAddEmail
  <1> QED
    BY <1>1, <1>2, <1>3, <1>4, <1>5, <1>6, <1>8, <1>9, <1>10 DEF Controls

\* What a change of a row leaves of the type invariant, whatever became of the
\* requests.
LEMMA NewRowTyped ==
    ASSUME ListsTypeOK, NEW x \in Listables, NEW status \in Statuses, Changed(x, status),
           UNCHANGED pageState,
           sent' \in [Slots -> ListCall],
           \A r \in Slots : CallTyped(sent'[r], shownTab, stored')
    PROVE  ListsTypeOK'
  <1>1. stored' \in Tables /\ \A y \in Listables : stored[y].ver <= stored'[y].ver
    BY ChangedStep
  <1>2. \A y \in Listables : list'[y].ver <= stored'[y].ver
    <2>1. \A y \in Listables :
             list[y].ver \in Int /\ stored[y].ver \in Int /\ stored'[y].ver \in Int
      BY <1>1, ChangesAssumption DEF ListsTypeOK, Listable, Tables
    <2> QED
      BY <1>1, <2>1 DEF ListsTypeOK, pageState
  <1> QED
    BY <1>1, <1>2 DEF ListsTypeOK, pageState, Tables, CallTyped

LEMMA StoreRowTyped ==
    ASSUME ListsTypeOK, NEW r \in Slots, NEW x \in Listables, StoreRow(r, x)
    PROVE  /\ ListsTypeOK'
           /\ sent'[r] = [sent[r] EXCEPT !.at = "answered",
                                         !.rows = [Nothing EXCEPT ![x] = stored'[x]]]
  <1>1. \A s \in Slots : CallTyped(sent[s], shownTab, stored)
    BY CallsTyped
  <1>2. sent[r].want \in Statuses /\ stored \in Tables
    BY CallsTyped DEF ListsTypeOK, ListCall
  <1>3. /\ stored' \in Tables
        /\ \A y \in Listables : stored[y].ver <= stored'[y].ver
        /\ stored'[x] = Anew(x, sent[r].want)
    BY <1>2, ChangedStep DEF StoreRow
  <1>4. \A s \in Slots : CallTyped(sent[s], shownTab, stored')
    BY <1>1, <1>2, <1>3, NewerTyped
  <1>5. sent' = [sent EXCEPT ![r].at = "answered", ![r].rows = [Nothing EXCEPT ![x] = stored'[x]]]
    BY <1>3 DEF StoreRow
  <1>6. sent'[r] = [sent[r] EXCEPT !.at = "answered",
                                   !.rows = [Nothing EXCEPT ![x] = stored'[x]]]
    BY <1>5 DEF ListsTypeOK
  <1>7. CallTyped(sent'[r], shownTab, stored')
    <2> DEFINE rows == [Nothing EXCEPT ![x] = stored'[x]]
    <2>1. rows \in Tables
      BY <1>3, NothingTyped DEF Tables
    <2>2. \A y \in Listables : stored'[y].ver \in Nat
      BY <1>3, ChangesAssumption DEF Tables, Listable
    <2>3. \A y \in Listables :
             /\ rows[y].ver <= stored'[y].ver
             /\ y \notin sent[r].about => rows[y] = Unlisted
      <3>1. x \in sent[r].about
        BY DEF StoreRow
      <3>2. rows[x] = stored'[x] /\ \A y \in Listables \ {x} : rows[y] = Unlisted
        BY DEF Nothing
      <3> QED
        BY <2>2, <3>1, <3>2 DEF Unlisted
    <2> HIDE DEF rows
    <2>4. [sent[r] EXCEPT !.at = "answered", !.rows = rows] \in ListCall
      BY <1>4, <2>1 DEF CallTyped, ListCall, Tables
    <2> QED
      BY <1>4, <1>6, <2>3, <2>4 DEF CallTyped, ListCall, rows
  <1>8. sent' \in [Slots -> ListCall]
    BY <1>5, <1>6, <1>7 DEF ListsTypeOK, CallTyped
  <1>9. \A s \in Slots : CallTyped(sent'[s], shownTab, stored')
    BY <1>4, <1>5, <1>7 DEF ListsTypeOK
  <1>10. Changed(x, sent[r].want) /\ UNCHANGED pageState
    BY DEF StoreRow
  <1>11. ListsTypeOK'
    BY <1>2, <1>8, <1>9, <1>10, NewRowTyped
  <1> QED
    BY <1>6, <1>11

LEMMA ApiTyped ==
    ASSUME ListsTypeOK, NEW r \in Slots, ListsApi(r)
    PROVE  ListsTypeOK'
  <1>0. \A s \in Slots : CallTyped(sent[s], shownTab, stored)
    BY CallsTyped
  <1>1. ASSUME NEW c, CallTyped(c, shownTab, stored), sent' = [sent EXCEPT ![r] = c],
               UNCHANGED <<stored, pageState>>
        PROVE  ListsTypeOK'
    BY <1>1 DEF ListsTypeOK, pageState, CallTyped
  <1>2. CASE ListPage(r)
    <2>1. PICK found \in SUBSET {x \in sent[r].about : stored[x].status # "none"} :
             sent' = [sent EXCEPT
                         ![r].at = "answered",
                         ![r].rows = [x \in Listables |->
                                         IF x \in found THEN stored[x] ELSE Unlisted]]
      BY <1>2 DEF ListPage
    <2> DEFINE rows == [x \in Listables |-> IF x \in found THEN stored[x] ELSE Unlisted]
               c == [sent[r] EXCEPT !.at = "answered", !.rows = rows]
    <2>2. rows \in [Listables -> Listable] /\ \A x \in Listables : stored[x].ver \in Nat
      BY NothingTyped, ChangesAssumption DEF ListsTypeOK, Listable
    <2>3. \A x \in Listables :
             rows[x].ver <= stored[x].ver /\ (x \notin sent[r].about => rows[x] = Unlisted)
      BY <2>2 DEF Unlisted
    <2> HIDE DEF rows
    <2>4. c \in ListCall
      BY <1>0, <2>2 DEF CallTyped, ListCall
    <2>5. CallTyped(c, shownTab, stored)
      BY <1>0, <2>3, <2>4 DEF CallTyped, ListCall
    <2>6. sent' = [sent EXCEPT ![r] = c]
      BY <2>1 DEF ListsTypeOK, rows
    <2> QED
      BY <1>1, <1>2, <2>5, <2>6 DEF ListPage
  <1>3. ASSUME NEW u \in Members, UpdateMember(r, u) PROVE ListsTypeOK'
    BY <1>3, StoreRowTyped DEF UpdateMember, Listables
  <1>4. ASSUME NEW e \in Emails, AddEntry(r, e) \/ DeleteEntry(r, e) PROVE ListsTypeOK'
    BY <1>4, StoreRowTyped DEF AddEntry, DeleteEntry, Listables
  <1>5. ASSUME NEW e \in Emails, FindToRemove(r, e) PROVE ListsTypeOK'
    <2>1. CallTyped([sent[r] EXCEPT !.at = "found"], shownTab, stored)
      BY <1>0 DEF CallTyped, ListCall
    <2>2. sent' = [sent EXCEPT ![r] = [sent[r] EXCEPT !.at = "found"]]
      BY <1>5 DEF FindToRemove, ListsTypeOK
    <2> QED
      BY <1>1, <1>5, <2>1, <2>2 DEF FindToRemove
  <1> QED
    BY <1>2, <1>3, <1>4, <1>5 DEF ListsApi

LEMMA ElsewhereTyped ==
    ASSUME ListsTypeOK, ElsewhereChanged
    PROVE  /\ ListsTypeOK'
           /\ \A x \in Listables : stored[x].ver <= stored'[x].ver
  <1>1. PICK x \in Listables, s \in Statuses : Changed(x, s)
    BY DEF ElsewhereChanged, Listables, Statuses
  <1>2. stored' \in Tables /\ \A y \in Listables : stored[y].ver <= stored'[y].ver
    BY <1>1, ChangedStep
  <1>3. \A r \in Slots : CallTyped(sent'[r], shownTab, stored')
    BY <1>2, CallsTyped, NewerTyped DEF ElsewhereChanged
  <1>4. sent' \in [Slots -> ListCall] /\ UNCHANGED pageState
    BY DEF ElsewhereChanged, ListsTypeOK
  <1> QED
    BY <1>1, <1>2, <1>3, <1>4, NewRowTyped

LEMMA HearTyped ==
    ASSUME ListsTypeOK, NEW r \in Slots, Hear(r)
    PROVE  ListsTypeOK'
  <1>0. CallTyped(sent[r], shownTab, stored) /\ CallTyped(NoCall, shownTab, stored)
    BY CallsTyped, NoCallTyped DEF ListsTypeOK
  <1>1. sent[r].rows \in Tables /\ sent[r].query \in Query /\ sent[r].crossed \in BOOLEAN
    BY <1>0 DEF CallTyped, ListCall, Tables
  <1>2. \A x \in Listables : sent[r].rows[x].status # "none" => x \in RowsOf(shownTab)
    BY <1>0 DEF CallTyped, Unlisted
  <1>3. CASE HearList(r)
    <2>1. /\ sent' \in [Slots -> ListCall]
          /\ \A s \in Slots : CallTyped(sent'[s], shownTab, stored)
      BY <1>0, <1>3, EndsTyped DEF HearList
    <2>2. told' \in [Listables -> 0..MaxChanges]
      BY <1>1, <1>3, HeardStep DEF HearList
    <2> QED
      BY <1>0, <1>1, <1>2, <1>3, <2>1, <2>2 DEF HearList, ListsTypeOK, CallTyped, Tables
  <1>4. CASE HearUpdate(r)
    <2>1. /\ sent' \in [Slots -> ListCall]
          /\ \A s \in Slots : CallTyped(sent'[s], shownTab, stored)
      BY <1>0, <1>4, EndsTyped DEF HearUpdate
    <2>2. told' \in [Listables -> 0..MaxChanges]
      BY <1>1, <1>4, HeardStep DEF HearUpdate
    <2>3. /\ list' \in Tables
          /\ \A x \in Listables :
                /\ list'[x].ver <= stored[x].ver
                /\ list'[x].status # "none" => x \in RowsOf(shownTab)
      BY <1>0, <1>1, <1>2, <1>4 DEF HearUpdate, ListsTypeOK, CallTyped, Tables
    <2>4. listed' \in [query: Query, clean: BOOLEAN]
      BY <1>1, <1>4 DEF HearUpdate, ListsTypeOK
    <2>5. menu' \in [about: SUBSET Members, want: Statuses] /\ menu'.about = {}
      BY <1>4 DEF HearUpdate, NoMenu, Statuses
    <2> QED
      BY <1>4, <2>1, <2>2, <2>3, <2>4, <2>5 DEF HearUpdate, ListsTypeOK, CallTyped, Tables
  <1>5. CASE HearChange(r)
    <2>1. /\ stored \in Tables /\ shownTab \in {"users", "allowlist"}
          /\ (sent[r].op = "add") \in BOOLEAN
      BY CallsTyped DEF ListsTypeOK
    <2>2. CallTyped([Listing(shownTab, sent[r].query) EXCEPT
                        !.crossed = sent[r].crossed, !.closes = (sent[r].op = "add")],
                    shownTab, stored)
      BY <1>1, <2>1, ListingTyped
    <2>3. /\ sent' \in [Slots -> ListCall]
          /\ \A s \in Slots : CallTyped(sent'[s], shownTab, stored)
      BY <1>5, <2>2, EndsTyped DEF HearChange
    <2>4. told' \in [Listables -> 0..MaxChanges]
      BY <1>1, <1>5, HeardStep DEF HearChange
    <2> QED
      BY <1>5, <2>3, <2>4 DEF HearChange, ListsTypeOK, CallTyped
  <1>6. CASE AnswerFails(r)
    <2>1. /\ sent' \in [Slots -> ListCall]
          /\ \A s \in Slots : CallTyped(sent'[s], shownTab, stored)
      BY <1>0, <1>6, EndsTyped DEF AnswerFails
    <2>2. \A x \in Listables : Nothing[x] = Unlisted /\ stored[x].ver \in Nat
      BY CallsTyped, ChangesAssumption DEF Nothing, Tables, Listable
    <2>3. /\ list' \in Tables
          /\ \A x \in Listables :
                /\ list'[x].ver <= stored[x].ver
                /\ list'[x].status # "none" => x \in RowsOf(shownTab)
      BY <1>6, <2>2, NothingTyped DEF AnswerFails, ListsTypeOK, Tables, Unlisted
    <2>4. listed' \in [query: Query, clean: BOOLEAN] /\ loading' \in BOOLEAN
      BY <1>6 DEF AnswerFails, ListsTypeOK
    <2>5. /\ dialog' \in {"closed", "open", "submitting"}
          /\ dialog' # "closed" => shownTab = "allowlist"
      BY <1>0, <1>6 DEF AnswerFails, ListsTypeOK, CallTyped
    <2> QED
      BY <1>6, <2>1, <2>3, <2>4, <2>5 DEF AnswerFails, ListsTypeOK, CallTyped, Tables
  <1> QED
    BY <1>3, <1>4, <1>5, <1>6 DEF Hear

LEMMA TypeStep == ListsTypeOK /\ [ListsNext]_listsVars => ListsTypeOK'
  <1> SUFFICES ASSUME ListsTypeOK, [ListsNext]_listsVars PROVE ListsTypeOK'
    OBVIOUS
  <1>1. CASE UNCHANGED listsVars
    BY <1>1 DEF listsVars, ListsTypeOK
  <1> QED
    BY <1>1, ControlsTyped, ApiTyped, HearTyped, ElsewhereTyped DEF ListsNext

\* Type correctness of the user management page, for any rows, searches, pages and
\* requests in flight.
THEOREM TypeCorrect == ListsSpec => []ListsTypeOK
  <1>1. ListsInit => ListsTypeOK
    BY TypeInit
  <1>2. ListsTypeOK /\ [ListsNext]_listsVars => ListsTypeOK'
    BY TypeStep
  <1> QED
    BY <1>1, <1>2, PTL DEF ListsSpec

-----------------------------------------------------------------------------
(* What is shown is fresh *)

\* A row of an answer that was not overtaken is as new as all that was told.
FreshCall(c, known) ==
    c.at = "answered" /\ ~c.crossed =>
       \A x \in Listables : c.rows[x].status # "none" => c.rows[x].ver >= known[x]

\* What AnswersAreFresh says, request by request.
AllFresh(known) == \A r \in Slots : FreshCall(sent[r], known)

LEMMA AllFreshMeans ==
    AnswersAreFresh <=> (\A x \in Listables : told[x] <= stored[x].ver) /\ AllFresh(told)
  BY DEF AnswersAreFresh, FreshCall, AllFresh

\* A request that was just sent has no answer yet, and one that ends marks the others.
LEMMA FreshSend ==
    ASSUME ListsTypeOK, AllFresh(told), NEW r \in Slots, NEW c, c.at = "sent", Send(r, c)
    PROVE  \A s \in Slots : FreshCall(sent'[s], told)
  BY DEF AllFresh, FreshCall, Send, ListsTypeOK

LEMMA FreshEnds ==
    ASSUME ListsTypeOK, NEW r \in Slots, NEW next, Ends(r, next), next.at = "sent"
    PROVE  \A s \in Slots : FreshCall(sent'[s], told')
  <1>1. ASSUME NEW s \in Slots PROVE sent'[s].at = "sent" \/ sent'[s].crossed = TRUE
    <2>1. [sent[s] EXCEPT !.crossed = TRUE].crossed = TRUE
      BY DEF ListsTypeOK, ListCall
    <2>2. NoCall.at = "sent"
      BY DEF NoCall
    <2> QED
      BY <2>1, <2>2, EndsStep
  <1> QED
    BY <1>1 DEF FreshCall

LEMMA FreshInit == ListsInit => ShownIsFresh /\ AnswersAreFresh
  <1> SUFFICES ASSUME ListsInit PROVE ShownIsFresh /\ AnswersAreFresh
    OBVIOUS
  <1>1. \A r \in Slots : sent[r].at = "sent"
    BY DEF ListsInit, Listing, NoCall
  <1>2. \A x \in Listables : told[x] = 0 /\ stored[x].ver \in Nat
    BY TypeInit, ChangesAssumption DEF ListsInit, ListsTypeOK, Listable
  <1> QED
    BY <1>1, <1>2 DEF ListsInit, ShownIsFresh, AnswersAreFresh

LEMMA ControlsFresh ==
    ASSUME ListsTypeOK, ShownIsFresh, AnswersAreFresh, Controls
    PROVE  ShownIsFresh' /\ AnswersAreFresh'
  <1>0. AllFresh(told) /\ \A x \in Listables : told[x] <= stored[x].ver
    BY AllFreshMeans
  <1>1. ASSUME NEW t \in {"users", "allowlist"}, OpenList(t)
        PROVE  ShownIsFresh' /\ AnswersAreFresh'
    <2>1. \A r \in Slots : sent'[r].at = "sent"
      BY <1>1 DEF OpenList, Listing, NoCall
    <2>2. \A x \in Listables : told'[x] = 0 /\ stored[x].ver \in Nat
      BY <1>1, ChangesAssumption DEF OpenList, ListsTypeOK, Listable
    <2> QED
      BY <1>1, <2>1, <2>2 DEF OpenList, ShownIsFresh, AnswersAreFresh
  <1>2. ASSUME NEW r \in Slots, NEW c, c.at = "sent", Send(r, c),
               UNCHANGED <<stored, told, list, listed>>,
               loading' = TRUE \/ UNCHANGED loading
        PROVE  ShownIsFresh' /\ AnswersAreFresh'
    <2>1. \A s \in Slots : FreshCall(sent'[s], told)
      BY <1>0, <1>2, FreshSend
    <2> QED
      BY <1>0, <1>2, <2>1 DEF ShownIsFresh, AnswersAreFresh, FreshCall
  <1>3. ASSUME NEW q, Fetch(q) PROVE ShownIsFresh' /\ AnswersAreFresh'
    BY <1>2, <1>3 DEF Fetch, Listing, NoCall
  <1>5. ASSUME NEW r \in Slots, NEW e \in Emails, HandleRemove(r, e) \/ HandleAddEmail(r, e)
        PROVE  ShownIsFresh' /\ AnswersAreFresh'
    BY <1>2, <1>5
    DEF HandleRemove, HandleAddEmail, Change, NoCall, pageState
  <1>6. CASE UNCHANGED <<stored, list, listed, loading, sent, told>>
    BY <1>6 DEF ShownIsFresh, AnswersAreFresh
  <1>7. ASSUME NEW r \in Slots, HandleToggleActive(r) PROVE ShownIsFresh' /\ AnswersAreFresh'
    BY <1>2, <1>7 DEF HandleToggleActive, NoCall, pageState
  <1>8. ASSUME NEW s \in Searches, HandleSearchChange(s) PROVE ShownIsFresh' /\ AnswersAreFresh'
    BY <1>3, <1>8 DEF HandleSearchChange
  <1>9. ASSUME NEW p \in Pages, HandleChangePage(p) PROVE ShownIsFresh' /\ AnswersAreFresh'
    BY <1>3, <1>9 DEF HandleChangePage
  <1> QED
    BY <1>1, <1>5, <1>6, <1>7, <1>8, <1>9
    DEF Controls, HandleMenuOpen, HandleMenuClose, AddDialog

\* A row that is written is newer than all that was told of it.
LEMMA StoreRowFresh ==
    ASSUME ListsTypeOK, AnswersAreFresh, ListsTypeOK', NEW r \in Slots, NEW x \in Listables,
           StoreRow(r, x)
    PROVE  AnswersAreFresh'
  <1>0. AllFresh(told) /\ \A y \in Listables : told[y] <= stored[y].ver
    BY AllFreshMeans
  <1>1. sent[r].want \in Statuses /\ stored \in Tables
    BY CallsTyped DEF ListsTypeOK, ListCall
  <1>2. \A y \in Listables : stored[y].ver <= stored'[y].ver
    BY <1>1, ChangedStep DEF StoreRow
  <1>3. \A y \in Listables :
           told[y] \in Int /\ stored[y].ver \in Int /\ stored'[y].ver \in Int
    BY ChangesAssumption DEF ListsTypeOK, Listable
  <1>4. told' = told /\ \A y \in Listables : told[y] <= stored'[y].ver
    BY <1>0, <1>2, <1>3 DEF StoreRow, pageState
  <1>5. sent'[r] = [sent[r] EXCEPT !.at = "answered",
                                   !.rows = [Nothing EXCEPT ![x] = stored'[x]]]
    BY StoreRowTyped
  <1>6. sent'[r].rows = [Nothing EXCEPT ![x] = stored'[x]]
    BY <1>5 DEF ListsTypeOK, ListCall
  <1>7. FreshCall(sent'[r], told)
    BY <1>4, <1>6 DEF FreshCall, Nothing, Unlisted
  <1>8. \A s \in Slots \ {r} : sent'[s] = sent[s]
    BY DEF StoreRow, ListsTypeOK
  <1> QED
    BY <1>0, <1>4, <1>7, <1>8 DEF AllFresh, AnswersAreFresh, FreshCall

LEMMA ApiFresh ==
    ASSUME ListsTypeOK, AnswersAreFresh, ListsTypeOK', NEW r \in Slots, ListsApi(r)
    PROVE  AnswersAreFresh'
  <1>0. AllFresh(told) /\ \A x \in Listables : told[x] <= stored[x].ver
    BY AllFreshMeans
  <1>1. CASE ListPage(r)
    <2>1. \A x \in Listables : sent'[r].rows[x] = stored[x] \/ sent'[r].rows[x] = Unlisted
      <3>1. PICK found :
               sent' = [sent EXCEPT
                           ![r].at = "answered",
                           ![r].rows = [x \in Listables |->
                                           IF x \in found THEN stored[x] ELSE Unlisted]]
        BY <1>1 DEF ListPage
      <3> DEFINE rows == [x \in Listables |-> IF x \in found THEN stored[x] ELSE Unlisted]
      <3>2. sent' = [sent EXCEPT ![r].at = "answered", ![r].rows = rows]
        BY <3>1
      <3>3. \A x \in Listables : rows[x] = stored[x] \/ rows[x] = Unlisted
        OBVIOUS
      <3> HIDE DEF rows
      <3>4. sent'[r].rows = rows
        BY <3>2 DEF ListsTypeOK, ListCall
      <3> QED
        BY <3>3, <3>4
    <2>2. FreshCall(sent'[r], told)
      BY <1>0, <2>1 DEF FreshCall, Unlisted
    <2>3. \A s \in Slots \ {r} : sent'[s] = sent[s]
      BY <1>1 DEF ListPage, ListsTypeOK
    <2>4. UNCHANGED <<stored, told>>
      BY <1>1 DEF ListPage, pageState
    <2> QED
      BY <1>0, <2>2, <2>3, <2>4 DEF AllFresh, AnswersAreFresh, FreshCall
  <1>2. ASSUME NEW u \in Members, UpdateMember(r, u) PROVE AnswersAreFresh'
    BY <1>2, StoreRowFresh DEF UpdateMember, Listables
  <1>3. ASSUME NEW e \in Emails, AddEntry(r, e) \/ DeleteEntry(r, e) PROVE AnswersAreFresh'
    BY <1>3, StoreRowFresh DEF AddEntry, DeleteEntry, Listables
  <1>4. ASSUME NEW e \in Emails, FindToRemove(r, e) PROVE AnswersAreFresh'
    <2>1. FreshCall(sent'[r], told)
      <3>1. sent'[r].at = "found"
        BY <1>4 DEF FindToRemove, ListsTypeOK, ListCall
      <3> QED
        BY <3>1 DEF FreshCall
    <2>2. \A s \in Slots \ {r} : sent'[s] = sent[s]
      BY <1>4 DEF FindToRemove, ListsTypeOK
    <2>3. UNCHANGED <<stored, told>>
      BY <1>4 DEF FindToRemove, pageState
    <2> QED
      BY <1>0, <2>1, <2>2, <2>3 DEF AllFresh, AnswersAreFresh, FreshCall
  <1> QED
    BY <1>1, <1>2, <1>3, <1>4 DEF ListsApi

LEMMA HearFresh ==
    ASSUME ListsTypeOK, ShownIsFresh, AnswersAreFresh, NEW r \in Slots, Hear(r)
    PROVE  ShownIsFresh' /\ AnswersAreFresh'
  <1> DEFINE rows == sent[r].rows
  <1>0. /\ rows \in Tables /\ CallTyped(sent[r], shownTab, stored)
        /\ FreshCall(sent[r], told) /\ \A x \in Listables : told[x] <= stored[x].ver
    BY CallsTyped, AllFreshMeans DEF AllFresh, CallTyped, ListCall, Tables
  <1>1. \A x \in Listables :
           /\ told[x] \in Int /\ rows[x].ver \in Int /\ stored[x].ver \in Int
           /\ rows[x].ver <= stored[x].ver /\ list[x].ver \in Int
    BY <1>0, ChangesAssumption DEF ListsTypeOK, Tables, Listable, CallTyped
  <1>2. ASSUME Heard(rows)
        PROVE  \A x \in Listables :
                  /\ told'[x] <= stored[x].ver
                  /\ rows[x].ver >= told[x] => told'[x] = rows[x].ver
                  /\ rows[x] = Unlisted => told'[x] = told[x]
    <2>1. \A x \in Listables : told[x] >= 0
      BY DEF ListsTypeOK
    <2> QED
      BY <1>0, <1>1, <1>2, <2>1 DEF Heard, Unlisted
  <1>3. ASSUME NEW next, next.at = "sent", Ends(r, next), stored' = stored,
               Heard(rows) \/ told' = told
        PROVE  AnswersAreFresh'
    <2>1. \A s \in Slots : FreshCall(sent'[s], told')
      BY <1>3, FreshEnds
    <2>2. \A x \in Listables : told'[x] <= stored'[x].ver
      BY <1>0, <1>2, <1>3
    <2> QED
      BY <2>1, <2>2 DEF AnswersAreFresh, FreshCall
  <1>4. NoCall.at = "sent"
    BY DEF NoCall
  <1>5. CASE HearList(r)
    <2>1. AnswersAreFresh'
      BY <1>3, <1>4, <1>5 DEF HearList
    <2>2. ASSUME listed'.clean, NEW x \in Listables, list'[x].status # "none"
          PROVE  list'[x].ver >= told'[x]
      <3>1. ~sent[r].crossed /\ sent[r].at = "answered" /\ list' = rows /\ Heard(rows)
        BY <1>5, <2>2 DEF HearList, Is
      <3>2. rows[x].ver >= told[x]
        BY <1>0, <2>2, <3>1 DEF FreshCall
      <3> QED
        BY <1>1, <1>2, <3>1, <3>2
    <2> QED
      BY <2>1, <2>2 DEF ShownIsFresh
  <1>6. CASE HearUpdate(r)
    <2>1. AnswersAreFresh'
      BY <1>3, <1>4, <1>6 DEF HearUpdate
    <2>2. ASSUME listed'.clean, ~loading', NEW x \in Listables, list'[x].status # "none"
          PROVE  list'[x].ver >= told'[x]
      <3>1. listed.clean /\ ~sent[r].crossed /\ ~loading
        BY <1>6, <2>2 DEF HearUpdate, ListsTypeOK
      <3>2. CASE x \in sent[r].about /\ list[x].status # "none"
        BY <1>0, <1>1, <1>2, <1>6, <2>2, <3>1, <3>2 DEF HearUpdate, Is, FreshCall
      <3>3. CASE ~(x \in sent[r].about /\ list[x].status # "none")
        <4>1. list'[x] = list[x] /\ x \notin sent[r].about
          BY <1>6, <2>2, <3>3 DEF HearUpdate
        <4>2. told'[x] = told[x]
          BY <1>0, <1>2, <1>6, <4>1 DEF HearUpdate, CallTyped
        <4> QED
          BY <2>2, <3>1, <4>1, <4>2 DEF ShownIsFresh
      <3> QED
        BY <3>2, <3>3
    <2> QED
      BY <2>1, <2>2 DEF ShownIsFresh
  <1>7. CASE HearChange(r)
    <2>1. [Listing(shownTab, sent[r].query) EXCEPT
              !.crossed = sent[r].crossed, !.closes = (sent[r].op = "add")].at = "sent"
      BY DEF Listing, NoCall
    <2>2. AnswersAreFresh'
      BY <1>3, <1>7, <2>1 DEF HearChange
    <2> QED
      BY <1>7, <2>2 DEF HearChange, ShownIsFresh
  <1>8. CASE AnswerFails(r)
    <2>1. AnswersAreFresh'
      BY <1>3, <1>4, <1>8 DEF AnswerFails
    <2>2. ShownIsFresh'
      BY <1>8 DEF AnswerFails, ShownIsFresh, ListsTypeOK
    <2> QED
      BY <2>1, <2>2
  <1> QED
    BY <1>5, <1>6, <1>7, <1>8 DEF Hear

LEMMA FreshStep ==
    ListsTypeOK /\ ShownIsFresh /\ AnswersAreFresh /\ [ListsNext]_listsVars
       => ShownIsFresh' /\ AnswersAreFresh'
  <1> SUFFICES ASSUME ListsTypeOK, ShownIsFresh, AnswersAreFresh, [ListsNext]_listsVars
               PROVE  ShownIsFresh' /\ AnswersAreFresh'
    OBVIOUS
  <1>0. ListsTypeOK'
    BY TypeStep
  <1>1. CASE UNCHANGED listsVars
    BY <1>1 DEF listsVars, ShownIsFresh, AnswersAreFresh
  <1>2. ASSUME NEW r \in Slots, ListsApi(r) PROVE ShownIsFresh' /\ AnswersAreFresh'
    <2>1. UNCHANGED <<list, listed, loading, told>>
      BY <1>2 DEF ListsApi, ListPage, UpdateMember, AddEntry, FindToRemove, DeleteEntry,
         StoreRow, pageState
    <2> QED
      BY <1>0, <1>2, <2>1, ApiFresh DEF ShownIsFresh
  <1>3. CASE ElsewhereChanged
    <2>1. \A x \in Listables :
             /\ told[x] <= stored[x].ver /\ stored[x].ver <= stored'[x].ver
             /\ told[x] \in Int /\ stored[x].ver \in Int /\ stored'[x].ver \in Int
      BY <1>0, <1>3, ElsewhereTyped, ChangesAssumption DEF AnswersAreFresh, ListsTypeOK, Listable
    <2>2. UNCHANGED <<list, listed, loading, told, sent>>
      BY <1>3 DEF ElsewhereChanged, pageState
    <2>3. \A x \in Listables : told'[x] <= stored'[x].ver
      BY <2>1, <2>2
    <2> QED
      BY <2>2, <2>3 DEF ShownIsFresh, AnswersAreFresh
  <1> QED
    BY <1>1, <1>2, <1>3, ControlsFresh, HearFresh DEF ListsNext

\* The page shows no row that is older than what the administrator was told of it, as
\* long as no other request of the page ended while the one it shows was under way.
THEOREM ShownRowsAreFresh == ListsSpec => []ShownIsFresh
  <1> DEFINE Inv == ListsTypeOK /\ ShownIsFresh /\ AnswersAreFresh
  <1>1. ListsInit => Inv
    BY TypeInit, FreshInit
  <1>2. Inv /\ [ListsNext]_listsVars => Inv'
    BY TypeStep, FreshStep
  <1>3. Inv => ShownIsFresh
    OBVIOUS
  <1> QED
    BY <1>1, <1>2, <1>3, PTL DEF ListsSpec

-----------------------------------------------------------------------------
(* What is shown is what was asked for *)

Queried == {"list", "add", "remove"}

\* Matches and Expected, for controls that show q0 on tab t, and some requests.
MatchesOn(q, t, q0) ==
    q.page = q0.page /\ (q.search = q0.search \/ (t = "allowlist" /\ q.search = All))

ExpectedOf(q, t, q0, calls) ==
    MatchesOn(q, t, q0) \/ \E s \in Slots : calls[s].op = "list" /\ calls[s].query = q0

AllExpected(shown, t, q0, calls) ==
    /\ shown.clean => ExpectedOf(shown.query, t, q0, calls)
    /\ \A r \in Slots :
          calls[r].op \in Queried /\ ~calls[r].crossed => ExpectedOf(calls[r].query, t, q0, calls)

LEMMA AllExpectedMeans ==
    /\ QueriesAreExpected <=> AllExpected(listed, shownTab, query, sent)
    /\ QueriesAreExpected' <=> AllExpected(listed', shownTab', query', sent')
  BY DEF QueriesAreExpected, AllExpected, Expected, ExpectedOf, Matches, MatchesOn,
     InFlight, Queried

\* A request that was sent, besides the others: they expect what they did, and the
\* request itself is crossed or asks for what is expected.
LEMMA ExpectedSend ==
    ASSUME ListsTypeOK, AllExpected(listed, shownTab, query, sent),
           NEW r \in Slots, NEW c, Send(r, c),
           c.op \in Queried /\ ~c.crossed => ExpectedOf(c.query, shownTab, query, sent)
    PROVE  AllExpected(listed, shownTab, query, sent')
  <1>1. sent'[r] = c /\ sent[r].op = "none" /\ \A s \in Slots \ {r} : sent'[s] = sent[s]
    BY DEF Send, ListsTypeOK, NoCall
  <1>2. ASSUME NEW q, ExpectedOf(q, shownTab, query, sent)
        PROVE  ExpectedOf(q, shownTab, query, sent')
    BY <1>1, <1>2 DEF ExpectedOf
  <1> QED
    BY <1>1, <1>2 DEF AllExpected

\* A fetch asks for what the controls show, so that everything is expected.
LEMMA ExpectedFetch ==
    ASSUME ListsTypeOK, NEW q, Fetch(q)
    PROVE  AllExpected(listed', shownTab', query', sent')
  <1>1. PICK r \in Slots : Send(r, Listing(shownTab, q))
    BY DEF Fetch
  <1>2. sent'[r] = Listing(shownTab, q)
    BY <1>1 DEF Send, ListsTypeOK
  <1>3. sent'[r].op = "list" /\ sent'[r].query = query'
    BY <1>2 DEF Listing, NoCall, Fetch
  <1> QED
    BY <1>3 DEF AllExpected, ExpectedOf

\* A request that ends, or goes on to read the list, marks the others.
LEMMA ExpectedEnds ==
    ASSUME ListsTypeOK, AllExpected(listed, shownTab, query, sent),
           NEW r \in Slots, NEW next, Ends(r, next), NEW shown,
           \/ next = NoCall
           \/ /\ sent[r].op \in {"add", "remove"}
              /\ next.op = "list" /\ next.query = sent[r].query
              /\ next.crossed = sent[r].crossed,
           shown.clean =>
              \/ listed.clean /\ shown.query = listed.query /\ sent[r].op # "list"
              \/ sent[r].op = "list" /\ shown.query = sent[r].query /\ ~sent[r].crossed
    PROVE  AllExpected(shown, shownTab, query, sent')
  <1>1. sent'[r] = next
    BY EndsStep
  <1>2. ASSUME NEW s \in Slots \ {r}
        PROVE  /\ sent'[s].op = sent[s].op /\ sent'[s].query = sent[s].query
               /\ sent'[s].op # "none" => sent'[s].crossed
    <2>1. CASE sent'[s] = NoCall /\ sent[s] = NoCall
      BY <2>1 DEF NoCall
    <2>2. CASE sent'[s] = [sent[s] EXCEPT !.crossed = TRUE]
      BY <2>2 DEF ListsTypeOK, ListCall
    <2> QED
      BY <2>1, <2>2, EndsStep
  <1>3. ASSUME NEW q, ExpectedOf(q, shownTab, query, sent),
               sent[r].op # "list" \/ q = sent[r].query
        PROVE  ExpectedOf(q, shownTab, query, sent')
    <2>1. CASE MatchesOn(q, shownTab, query)
      BY <2>1 DEF ExpectedOf
    <2>2. ASSUME NEW s \in Slots, sent[s].op = "list", sent[s].query = query
          PROVE  ExpectedOf(q, shownTab, query, sent')
      <3>1. CASE s # r
        BY <1>2, <2>2, <3>1 DEF ExpectedOf
      <3>2. CASE s = r
        BY <1>3, <2>2, <3>2 DEF ExpectedOf, MatchesOn
      <3> QED
        BY <3>1, <3>2
    <2> QED
      BY <1>3, <2>1, <2>2 DEF ExpectedOf
  <1>4. ASSUME shown.clean PROVE ExpectedOf(shown.query, shownTab, query, sent')
    <2>1. CASE listed.clean /\ shown.query = listed.query /\ sent[r].op # "list"
      BY <1>3, <2>1 DEF AllExpected
    <2>2. CASE sent[r].op = "list" /\ shown.query = sent[r].query /\ ~sent[r].crossed
      BY <1>3, <2>2 DEF AllExpected, Queried
    <2> QED
      BY <1>4, <2>1, <2>2
  <1>5. ASSUME NEW s \in Slots, sent'[s].op \in Queried, ~sent'[s].crossed
        PROVE  ExpectedOf(sent'[s].query, shownTab, query, sent')
    <2>1. s = r /\ next # NoCall
      <3>1. sent'[s].op # "none" /\ NoCall.op = "none"
        BY <1>5 DEF Queried, NoCall
      <3> QED
        BY <1>1, <1>2, <1>5, <3>1
    <2>2. /\ sent[r].op \in {"add", "remove"} /\ ~sent[r].crossed
          /\ sent'[s].query = sent[r].query
      BY <1>1, <1>5, <2>1
    <2>3. ExpectedOf(sent[r].query, shownTab, query, sent)
      BY <2>2 DEF AllExpected, Queried
    <2> QED
      BY <1>3, <2>2, <2>3
  <1> QED
    BY <1>4, <1>5 DEF AllExpected
LEMMA ExpectedInit == ListsInit => QueriesAreExpected
  <1> SUFFICES ASSUME ListsInit PROVE QueriesAreExpected
    OBVIOUS
  <1>1. \A r \in Slots : sent[r] = Listing("users", FirstPage) \/ sent[r] = NoCall
    BY DEF ListsInit
  <1>2. /\ Listing("users", FirstPage).query = FirstPage
        /\ NoCall.op = "none"
    BY DEF Listing, NoCall
  <1>3. ~listed.clean /\ query = FirstPage
    BY DEF ListsInit
  <1> QED
    BY <1>1, <1>2, <1>3 DEF QueriesAreExpected, Expected, Matches, InFlight

\* The list is read again for the page of the last answer, which is the one of the
\* controls unless another list is awaited.
LEMMA ChangeExpected ==
    ASSUME ListsTypeOK, AllExpected(listed, shownTab, query, sent), shownTab = "allowlist",
           NEW op \in {"add", "remove"}, NEW e \in Emails, ~Change(op, e).crossed
    PROVE  ExpectedOf(Change(op, e).query, shownTab, query, sent)
  <1>1. /\ Change(op, e).query = [search |-> All, page |-> listed.query.page]
        /\ Change(op, e).crossed = (~listed.clean \/ InFlight({"list"}) # {})
    BY DEF Change, NoCall
  <1>2. listed.clean /\ \A s \in Slots : sent[s].op # "list"
    BY <1>1 DEF InFlight
  <1>3. MatchesOn(listed.query, shownTab, query)
    BY <1>2 DEF AllExpected, ExpectedOf
  <1> QED
    BY <1>1, <1>3 DEF ExpectedOf, MatchesOn

LEMMA ControlsExpected ==
    ASSUME ListsTypeOK, AllExpected(listed, shownTab, query, sent), Controls
    PROVE  AllExpected(listed', shownTab', query', sent')
  <1>1. ASSUME NEW t \in {"users", "allowlist"}, OpenList(t)
        PROVE  AllExpected(listed', shownTab', query', sent')
    <2>1. \A r \in Slots : sent'[r] = Listing(t, FirstPage) \/ sent'[r] = NoCall
      BY <1>1 DEF OpenList
    <2>2. Listing(t, FirstPage).query = FirstPage /\ NoCall.op = "none"
      BY DEF Listing, NoCall
    <2>3. ~listed'.clean /\ query' = FirstPage
      BY <1>1 DEF OpenList
    <2> QED
      BY <2>1, <2>2, <2>3 DEF AllExpected, ExpectedOf, MatchesOn, Queried
  <1>2. ASSUME NEW s \in Searches, HandleSearchChange(s)
        PROVE  AllExpected(listed', shownTab', query', sent')
    BY <1>2, ExpectedFetch DEF HandleSearchChange
  <1>3. ASSUME NEW p \in Pages, HandleChangePage(p)
        PROVE  AllExpected(listed', shownTab', query', sent')
    BY <1>3, ExpectedFetch DEF HandleChangePage
  <1>4. CASE UNCHANGED <<listed, shownTab, query, sent>>
    BY <1>4
  <1>5. ASSUME NEW r \in Slots, NEW c, Send(r, c), UNCHANGED <<listed, shownTab, query>>,
               c.op \in Queried /\ ~c.crossed => ExpectedOf(c.query, shownTab, query, sent)
        PROVE  AllExpected(listed', shownTab', query', sent')
    <2>1. AllExpected(listed, shownTab, query, sent')
      BY <1>5, ExpectedSend
    <2> QED
      BY <1>5, <2>1
  <1>6. ASSUME NEW r \in Slots, HandleToggleActive(r)
        PROVE  AllExpected(listed', shownTab', query', sent')
    <2>1. [NoCall EXCEPT !.op = "activate", !.about = menu.about, !.want = menu.want].op
             \notin Queried
      BY DEF NoCall, Queried
    <2> QED
      BY <1>5, <1>6, <2>1 DEF HandleToggleActive, pageState
  <1>7. ASSUME NEW r \in Slots, NEW e \in Emails, HandleRemove(r, e)
        PROVE  AllExpected(listed', shownTab', query', sent')
    <2>1. shownTab = "allowlist"
      BY <1>7, RowsAssumption DEF HandleRemove, ListsTypeOK, RowsOf, Listables
    <2> QED
      BY <1>5, <1>7, <2>1, ChangeExpected DEF HandleRemove, pageState
  <1>8. ASSUME NEW r \in Slots, NEW e \in Emails, HandleAddEmail(r, e)
        PROVE  AllExpected(listed', shownTab', query', sent')
    <2>1. shownTab = "allowlist"
      BY <1>8 DEF HandleAddEmail, ListsTypeOK
    <2> QED
      BY <1>5, <1>8, <2>1, ChangeExpected DEF HandleAddEmail
  <1> QED
    BY <1>1, <1>2, <1>3, <1>4, <1>6, <1>7, <1>8
    DEF Controls, HandleMenuOpen, HandleMenuClose, AddDialog

\* The API gives a request its answer and leaves what it asks for.
LEMMA ApiExpected ==
    ASSUME ListsTypeOK, AllExpected(listed, shownTab, query, sent), NEW r \in Slots, ListsApi(r)
    PROVE  AllExpected(listed', shownTab', query', sent')
  <1>1. UNCHANGED <<listed, shownTab, query>>
    BY DEF ListsApi, ListPage, UpdateMember, AddEntry, FindToRemove, DeleteEntry, StoreRow,
       pageState
  <1>2. \A s \in Slots \ {r} : sent'[s] = sent[s]
    BY DEF ListsApi, ListPage, UpdateMember, AddEntry, FindToRemove, DeleteEntry, StoreRow,
       ListsTypeOK
  <1>3. /\ sent'[r].op = sent[r].op /\ sent'[r].query = sent[r].query
        /\ sent'[r].crossed = sent[r].crossed
    <2>1. CASE ListPage(r)
      <3>1. PICK found :
               sent' = [sent EXCEPT
                           ![r].at = "answered",
                           ![r].rows = [x \in Listables |->
                                           IF x \in found THEN stored[x] ELSE Unlisted]]
        BY <2>1 DEF ListPage
      <3> DEFINE rows == [x \in Listables |-> IF x \in found THEN stored[x] ELSE Unlisted]
      <3>2. sent' = [sent EXCEPT ![r].at = "answered", ![r].rows = rows]
        BY <3>1
      <3> HIDE DEF rows
      <3> QED
        BY <3>2 DEF ListsTypeOK, ListCall
    <2>2. ASSUME NEW x \in Listables, StoreRow(r, x)
          PROVE  /\ sent'[r].op = sent[r].op /\ sent'[r].query = sent[r].query
                 /\ sent'[r].crossed = sent[r].crossed
      <3>1. sent'[r] = [sent[r] EXCEPT !.at = "answered",
                                       !.rows = [Nothing EXCEPT ![x] = stored'[x]]]
        BY <2>2, StoreRowTyped
      <3> QED
        BY <3>1 DEF ListsTypeOK, ListCall
    <2>3. ASSUME NEW e \in Emails, FindToRemove(r, e)
          PROVE  /\ sent'[r].op = sent[r].op /\ sent'[r].query = sent[r].query
                 /\ sent'[r].crossed = sent[r].crossed
      BY <2>3 DEF FindToRemove, ListsTypeOK, ListCall
    <2> QED
      BY <2>1, <2>2, <2>3 DEF ListsApi, UpdateMember, AddEntry, DeleteEntry, Listables
  <1>4. \A s \in Slots :
           /\ sent'[s].op = sent[s].op /\ sent'[s].query = sent[s].query
           /\ sent'[s].crossed = sent[s].crossed
    BY <1>2, <1>3
  <1> QED
    BY <1>1, <1>4 DEF AllExpected, ExpectedOf

LEMMA HearExpected ==
    ASSUME ListsTypeOK, AllExpected(listed, shownTab, query, sent), NEW r \in Slots, Hear(r)
    PROVE  AllExpected(listed', shownTab', query', sent')
  <1>1. UNCHANGED <<shownTab, query>>
    BY DEF Hear, HearList, HearUpdate, HearChange, AnswerFails
  <1>2. CASE HearList(r)
    <2>1. listed' = [query |-> sent[r].query, clean |-> ~sent[r].crossed]
          /\ sent[r].op = "list" /\ Ends(r, NoCall)
      BY <1>2 DEF HearList, Is
    <2>2. AllExpected(listed', shownTab, query, sent')
      BY <2>1, ExpectedEnds
    <2> QED
      BY <1>1, <2>2
  <1>3. CASE HearUpdate(r)
    <2>1. listed'.clean => listed.clean
      BY <1>3 DEF HearUpdate, ListsTypeOK
    <2>2. listed'.query = listed.query /\ sent[r].op # "list" /\ Ends(r, NoCall)
      BY <1>3 DEF HearUpdate, ListsTypeOK, Is
    <2>3. AllExpected(listed', shownTab, query, sent')
      BY <2>1, <2>2, ExpectedEnds
    <2> QED
      BY <1>1, <2>3
  <1>4. CASE HearChange(r)
    <2> DEFINE next == [Listing(shownTab, sent[r].query) EXCEPT
                           !.crossed = sent[r].crossed, !.closes = (sent[r].op = "add")]
    <2>1. next.op = "list" /\ next.query = sent[r].query /\ next.crossed = sent[r].crossed
      BY DEF Listing, NoCall
    <2>2. Ends(r, next) /\ listed' = listed /\ sent[r].op \in {"add", "remove"}
      BY <1>4 DEF HearChange
    <2> HIDE DEF next
    <2>3. AllExpected(listed, shownTab, query, sent')
      BY <2>1, <2>2, ExpectedEnds
    <2> QED
      BY <1>1, <2>2, <2>3
  <1>5. CASE AnswerFails(r)
    <2>1. listed'.clean => listed.clean /\ listed'.query = listed.query /\ sent[r].op # "list"
      BY <1>5 DEF AnswerFails, ListsTypeOK
    <2>2. Ends(r, NoCall)
      BY <1>5 DEF AnswerFails
    <2>3. AllExpected(listed', shownTab, query, sent')
      BY <2>1, <2>2, ExpectedEnds
    <2> QED
      BY <1>1, <2>3
  <1> QED
    BY <1>2, <1>3, <1>4, <1>5 DEF Hear

LEMMA ExpectedStep ==
    ListsTypeOK /\ QueriesAreExpected /\ [ListsNext]_listsVars => QueriesAreExpected'
  <1> SUFFICES ASSUME ListsTypeOK, QueriesAreExpected, [ListsNext]_listsVars
               PROVE  AllExpected(listed', shownTab', query', sent')
    BY AllExpectedMeans
  <1>1. AllExpected(listed, shownTab, query, sent)
    BY AllExpectedMeans
  <1>2. CASE UNCHANGED <<listed, shownTab, query, sent>>
    BY <1>1, <1>2
  <1> QED
    BY <1>1, <1>2, ControlsExpected, ApiExpected, HearExpected
    DEF ListsNext, listsVars, ElsewhereChanged, pageState

\* Once the page has stopped reading, it shows the page and the search its controls
\* show, with the same exception.
THEOREM ListedRowsWereAsked == ListsSpec => []ListedIsAsked
  <1>1. ListsInit => ListsTypeOK /\ QueriesAreExpected
    BY TypeInit, ExpectedInit
  <1>2. ListsTypeOK /\ QueriesAreExpected /\ [ListsNext]_listsVars
           => (ListsTypeOK /\ QueriesAreExpected)'
    BY TypeStep, ExpectedStep
  <1>3. QueriesAreExpected => ListedIsAsked
    BY DEF QueriesAreExpected, ListedIsAsked, Expected
  <1> QED
    BY <1>1, <1>2, <1>3, PTL DEF ListsSpec

=============================================================================
