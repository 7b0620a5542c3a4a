------------------------ MODULE ConversationListProofs ------------------------
(***************************************************************************)
(* Proofs about ConversationList: for any conversations, folders, tags,    *)
(* page size and number of moves, what the tab loaded is what the server   *)
(* has, no conversation of the view is lost between the pages, what is     *)
(* selected is shown, and "loading" has a request.                         *)
(*                                                                         *)
(* The first part is about the reducer: each of its operators takes a      *)
(* good list to a good one.  Then come the types of requests, answers and  *)
(* dialogs, which tie the loading flags to the requests under way, and on  *)
(* them the argument about copies: a copy differs from its row only as     *)
(* long as a request about that conversation is under way, whose answer    *)
(* replaces the copy and drops the pages that may hold an older one.       *)
(*                                                                         *)
(* The last part is about the counters: the rows that pages brought are    *)
(* the first of the server's view, and not fewer than are counted.         *)
(***************************************************************************)
EXTENDS ConversationList, FiniteSetTheorems, TLAPS

-----------------------------------------------------------------------------
(* The reducer.                                                            *)

Lists ==
  [loaded : SUBSET Copy, shown : SUBSET Copy, total : Nat, count : Nat,
   search : BOOLEAN, archived : BOOLEAN, folder : Places \cup {Anywhere},
   tags : SUBSET Tags, selecting : BOOLEAN, selected : SUBSET Conversations,
   loading : BOOLEAN, more : BOOLEAN]

Distinct(cs) == \A c, d \in cs : c.id = d.id => c = d

GoodList(s) ==
  /\ s \in Lists /\ Distinct(s.loaded) /\ Ids(s.shown) \subseteq Ids(s.loaded)
  /\ s.selected \subseteq Ids(s.shown) /\ (~s.selecting => s.selected = {})
  /\ ~s.search => s.shown = Visible(s)

(* t is a good list again, and waits for the same requests as s.           *)
Reduces(t, s) == GoodList(t) /\ t.loading = s.loading /\ t.more = s.more

(* What is shown depends on what is loaded and on the filters.             *)
LEMMA VisibleIs ==
  ASSUME NEW s \in Lists, NEW t \in Lists, t.loaded = s.loaded, t.archived = s.archived,
         t.search = s.search, t.folder = s.folder, t.tags = s.tags
  PROVE  /\ Visible(t) = Visible(s) /\ Visible(s) \subseteq s.loaded
         /\ Visible(s) \in SUBSET Copy /\ Ids(Visible(s)) \subseteq Ids(s.loaded)
  BY DEF Visible, Lists, Ids

(* The selection is cut down to what is shown.                             *)
LEMMA PruneIs ==
  ASSUME NEW s \in Lists, Distinct(s.loaded), Ids(s.shown) \subseteq Ids(s.loaded),
         ~s.selecting => s.selected = {}, ~s.search => s.shown = Visible(s)
  PROVE  Reduces(Prune(s), s) /\ Prune(s).loaded = s.loaded
<1>1. Prune(s) = [s EXCEPT !.selected = s.selected \cap Ids(s.shown)]
  BY DEF Prune
<1>2. /\ Prune(s) \in Lists /\ Prune(s).selected = s.selected \cap Ids(s.shown)
      /\ Prune(s).loaded = s.loaded /\ Prune(s).shown = s.shown
      /\ Prune(s).search = s.search /\ Prune(s).archived = s.archived
      /\ Prune(s).folder = s.folder /\ Prune(s).tags = s.tags
      /\ Prune(s).selecting = s.selecting /\ Prune(s).loading = s.loading
      /\ Prune(s).more = s.more
  BY <1>1 DEF Lists
<1>3. Visible(Prune(s)) = Visible(s)
  BY <1>2, VisibleIs
<1> QED
  BY <1>2, <1>3 DEF Reduces, GoodList

(* What is shown is computed again.                                        *)
LEMMA DeriveIs ==
  ASSUME NEW s \in Lists, Distinct(s.loaded), ~s.selecting => s.selected = {}
  PROVE  Reduces(Derive(s), s) /\ Derive(s).loaded = s.loaded
<1> DEFINE t == [s EXCEPT !.shown = Visible(s)]
<1>1. Visible(s) \in SUBSET Copy /\ Ids(Visible(s)) \subseteq Ids(s.loaded)
  BY VisibleIs
<1>2. /\ t \in Lists /\ t.shown = Visible(s) /\ t.loaded = s.loaded /\ t.search = s.search
      /\ t.archived = s.archived /\ t.folder = s.folder /\ t.tags = s.tags
      /\ t.selecting = s.selecting /\ t.selected = s.selected
      /\ t.loading = s.loading /\ t.more = s.more
  BY <1>1 DEF Lists
<1>3. Derive(s) = Prune(t)
  BY DEF Derive
<1> HIDE DEF t
<1>4. Visible(t) = Visible(s)
  BY <1>2, VisibleIs
<1>5. Reduces(Prune(t), t) /\ Prune(t).loaded = t.loaded
  BY <1>1, <1>2, <1>4, PruneIs
<1> QED
  BY <1>2, <1>3, <1>5 DEF Reduces

(* Tags that are no longer there are taken off the filter.                 *)
LEMMA KeepTagsIs ==
  ASSUME NEW s \in Lists
  PROVE  LET t == KeepTags(s) IN
         /\ t \in Lists /\ t.loaded = s.loaded /\ t.selecting = s.selecting
         /\ t.selected = s.selected /\ t.loading = s.loading /\ t.more = s.more
         /\ KeptFolder(s) \in Places \cup {Anywhere}
<1>1. KeepTags(s) = [s EXCEPT !.tags = s.tags \cap AvailableTags(s, KeptFolder(s))]
  BY DEF KeepTags
<1>2. KeptFolder(s) \in Places \cup {Anywhere}
  BY DEF KeptFolder, Lists
<1> QED
  BY <1>1, <1>2 DEF Lists

(* The filters.                                                            *)
LEMMA FiltersAre ==
  ASSUME NEW s, GoodList(s)
  PROVE  /\ \A v \in BOOLEAN :
              /\ Reduces(SetSearch(s, v), s) /\ SetSearch(s, v).loaded = s.loaded
              /\ Reduces(SetShowArchived(s, v), s) /\ SetShowArchived(s, v).loaded = s.loaded
         /\ \A f \in Places \cup {Anywhere} :
              Reduces(SetSelectedFolder(s, f), s) /\ SetSelectedFolder(s, f).loaded = s.loaded
         /\ \A t \in Tags :
              Reduces(ToggleSelectedTag(s, t), s) /\ ToggleSelectedTag(s, t).loaded = s.loaded
<1>1. s \in Lists /\ Distinct(s.loaded) /\ (~s.selecting => s.selected = {})
  BY DEF GoodList
<1> DEFINE Alike(t) == /\ t \in Lists /\ t.loaded = s.loaded /\ t.selecting = s.selecting
                       /\ t.selected = s.selected /\ t.loading = s.loading /\ t.more = s.more
<1>2. ASSUME NEW t, Alike(t) PROVE Reduces(Derive(t), s) /\ Derive(t).loaded = s.loaded
  BY <1>1, <1>2, DeriveIs DEF Reduces
<1>3. ASSUME NEW t, Alike(t) PROVE Alike(KeepTags(t))
  BY <1>3, KeepTagsIs
<1>4. ASSUME NEW v \in BOOLEAN
      PROVE  /\ Alike([s EXCEPT !.search = v]) /\ Alike([s EXCEPT !.archived = v])
  BY <1>1 DEF Lists
<1>5. ASSUME NEW f \in Places \cup {Anywhere} PROVE Alike([s EXCEPT !.folder = f])
  BY <1>1 DEF Lists
<1>6. ASSUME NEW g \in SUBSET Tags PROVE Alike([s EXCEPT !.tags = g])
  BY <1>1 DEF Lists
<1>7. \A t \in Tags : ToggleSelectedTag(s, t) =
        Derive([s EXCEPT !.tags = IF t \in s.tags THEN s.tags \ {t} ELSE s.tags \cup {t}])
  BY DEF ToggleSelectedTag
<1>8. \A t \in Tags : (IF t \in s.tags THEN s.tags \ {t} ELSE s.tags \cup {t}) \in SUBSET Tags
  BY <1>1 DEF Lists
<1> HIDE DEF Alike
<1>9. \A v \in BOOLEAN : Reduces(SetSearch(s, v), s) /\ SetSearch(s, v).loaded = s.loaded
  BY <1>2, <1>4 DEF SetSearch
<1>10. \A v \in BOOLEAN :
         Reduces(SetShowArchived(s, v), s) /\ SetShowArchived(s, v).loaded = s.loaded
  BY <1>2, <1>3, <1>4 DEF SetShowArchived
<1>11. \A f \in Places \cup {Anywhere} :
         Reduces(SetSelectedFolder(s, f), s) /\ SetSelectedFolder(s, f).loaded = s.loaded
  BY <1>2, <1>3, <1>5 DEF SetSelectedFolder
<1>12. \A t \in Tags :
         Reduces(ToggleSelectedTag(s, t), s) /\ ToggleSelectedTag(s, t).loaded = s.loaded
  <2> SUFFICES ASSUME NEW t \in Tags
               PROVE  /\ Reduces(ToggleSelectedTag(s, t), s)
                      /\ ToggleSelectedTag(s, t).loaded = s.loaded
    OBVIOUS
  <2>1. PICK g \in SUBSET Tags : ToggleSelectedTag(s, t) = Derive([s EXCEPT !.tags = g])
    BY <1>7, <1>8
  <2> QED
    BY <1>2, <1>6, <2>1
<1> QED
  BY <1>9, <1>10, <1>11, <1>12

(* The selection.                                                          *)
LEMMA SelectionIs ==
  ASSUME NEW s, GoodList(s)
  PROVE  /\ \A v \in BOOLEAN :
              Reduces(SetSelectionMode(s, v), s) /\ SetSelectionMode(s, v).loaded = s.loaded
         /\ s.selecting => \A c \in s.shown :
              Reduces(ToggleSelection(s, c.id), s) /\ ToggleSelection(s, c.id).loaded = s.loaded
         /\ LET t == [s EXCEPT !.selected = {}]
            IN  Reduces(t, s) /\ t.loaded = s.loaded
<1> DEFINE Alike(t) == /\ t.loaded = s.loaded /\ t.shown = s.shown /\ t.search = s.search
                       /\ t.archived = s.archived /\ t.folder = s.folder /\ t.tags = s.tags
                       /\ t.loading = s.loading /\ t.more = s.more
<1>1. s \in Lists /\ \A c \in s.shown : c.id \in Conversations /\ c.id \in Ids(s.shown)
  BY DEF GoodList, Lists, Copy, Ids
<1>2. ASSUME NEW t \in Lists, Alike(t), t.selected \subseteq Ids(s.shown),
             ~t.selecting => t.selected = {}
      PROVE  Reduces(t, s) /\ t.loaded = s.loaded
  <2>1. Visible(t) = Visible(s)
    BY <1>1, <1>2, VisibleIs
  <2> QED
    BY <1>2, <2>1 DEF Reduces, GoodList
<1>3. ASSUME NEW v \in BOOLEAN, NEW S \in SUBSET Conversations
      PROVE  LET t == [s EXCEPT !.selecting = v, !.selected = S]
             IN  t \in Lists /\ Alike(t) /\ t.selecting = v /\ t.selected = S
  BY <1>1 DEF Lists
<1>4. ASSUME NEW S \in SUBSET Conversations
      PROVE  LET t == [s EXCEPT !.selected = S]
             IN  t \in Lists /\ Alike(t) /\ t.selecting = s.selecting /\ t.selected = S
  BY <1>1 DEF Lists
<1>5. s.selected \in SUBSET Conversations /\ s.selected \subseteq Ids(s.shown)
      /\ (~s.selecting => s.selected = {})
  BY <1>1 DEF GoodList, Lists
<1> HIDE DEF Alike
<1>6. ASSUME NEW v \in BOOLEAN
      PROVE  Reduces(SetSelectionMode(s, v), s) /\ SetSelectionMode(s, v).loaded = s.loaded
  <2>1. SetSelectionMode(s, v) =
          [s EXCEPT !.selecting = v, !.selected = IF v THEN s.selected ELSE {}]
    BY DEF SetSelectionMode
  <2>2. PICK S \in SUBSET Conversations :
          /\ SetSelectionMode(s, v) = [s EXCEPT !.selecting = v, !.selected = S]
          /\ S \subseteq Ids(s.shown) /\ (~v => S = {})
    BY <1>5, <2>1
  <2>3. PICK t : t = [s EXCEPT !.selecting = v, !.selected = S]
    OBVIOUS
  <2>4. t \in Lists /\ Alike(t) /\ t.selecting = v /\ t.selected = S
    BY <1>3, <2>3
  <2>5. Reduces(t, s) /\ t.loaded = s.loaded
    BY <1>2, <2>2, <2>4
  <2> QED
    BY <2>2, <2>3, <2>5
<1>7. ASSUME s.selecting, NEW c \in s.shown
      PROVE  Reduces(ToggleSelection(s, c.id), s) /\ ToggleSelection(s, c.id).loaded = s.loaded
  <2> DEFINE S == IF c.id \in s.selected THEN s.selected \ {c.id} ELSE s.selected \cup {c.id}
  <2>1. ToggleSelection(s, c.id) = [s EXCEPT !.selected = S]
    BY DEF ToggleSelection
  <2>2. S \in SUBSET Conversations /\ S \subseteq Ids(s.shown)
    BY <1>1, <1>5
  <2> HIDE DEF S
  <2> QED
    BY <1>2, <1>4, <1>7, <2>1, <2>2
<1>8. LET t == [s EXCEPT !.selected = {}] IN Reduces(t, s) /\ t.loaded = s.loaded
  <2>1. {} \in SUBSET Conversations /\ {} \subseteq Ids(s.shown)
    OBVIOUS
  <2> QED
    BY <1>2, <1>4, <2>1
<1> QED
  BY <1>6, <1>7, <1>8

Answers == [rows : SUBSET Copy, total : Nat]

(* A page of the answer of a request.                                      *)
LEMMA AppendPageIs ==
  ASSUME NEW s, GoodList(s), NEW p \in Answers, Distinct(p.rows), NEW count \in Nat
  PROVE  /\ Reduces(AppendPage(s, p, count), s)
         /\ AppendPage(s, p, count).loaded \subseteq s.loaded \cup p.rows
<1> DEFINE new == {c \in s.loaded : c.id \notin Ids(p.rows)} \cup p.rows
           t == [s EXCEPT !.loaded = new, !.total = p.total, !.count = count]
<1>1. s \in Lists /\ Distinct(s.loaded) /\ (~s.selecting => s.selected = {})
  BY DEF GoodList
<1>2. new \in SUBSET Copy /\ Distinct(new) /\ new \subseteq s.loaded \cup p.rows
  BY <1>1 DEF Distinct, Ids, Lists, Answers
<1>3. p.total \in Nat
  BY DEF Answers
<1>4. AppendPage(s, p, count) = Derive(t)
  BY DEF AppendPage
<1> HIDE DEF new
<1>5. /\ t \in Lists /\ t.loaded = new /\ t.selecting = s.selecting /\ t.selected = s.selected
      /\ t.loading = s.loading /\ t.more = s.more
  BY <1>1, <1>2, <1>3 DEF Lists
<1> HIDE DEF t
<1>6. Reduces(Derive(t), t) /\ Derive(t).loaded = t.loaded
  BY <1>1, <1>2, <1>5, DeriveIs
<1> QED
  BY <1>2, <1>4, <1>5, <1>6 DEF Reduces

(* The first page, and the open conversation that is kept beside it.       *)
LEMMA FirstPageIs ==
  ASSUME NEW s, GoodList(s), NEW p \in Answers, Distinct(p.rows), IsFiniteSet(p.rows),
         NEW open, NEW search
  PROVE  /\ Reduces(FirstPage(s, p, open, search), s)
         /\ FirstPage(s, p, open, search).loaded \subseteq s.loaded \cup p.rows
<1> DEFINE new == p.rows \cup Kept(s, p, open, search)
           n == [s EXCEPT !.loaded = new]
           k == KeepTags(n)
           t == [k EXCEPT !.folder = KeptFolder(n), !.total = p.total,
                          !.count = Cardinality(p.rows)]
<1>1. s \in Lists /\ Distinct(s.loaded) /\ (~s.selecting => s.selected = {})
  BY DEF GoodList
<1>2. new \in SUBSET Copy /\ Distinct(new) /\ new \subseteq s.loaded \cup p.rows
  BY <1>1 DEF Distinct, Ids, Lists, Answers, Kept
<1>3. p.total \in Nat /\ Cardinality(p.rows) \in Nat
  BY FS_CardinalityType DEF Answers
<1>4. FirstPage(s, p, open, search) = Derive(t)
  BY DEF FirstPage
<1> HIDE DEF new
<1>5. /\ n \in Lists /\ n.loaded = new /\ n.selecting = s.selecting
      /\ n.selected = s.selected /\ n.loading = s.loading /\ n.more = s.more
  BY <1>1, <1>2 DEF Lists
<1> HIDE DEF n
<1>6. /\ k \in Lists /\ k.loaded = new /\ k.selecting = s.selecting
      /\ k.selected = s.selected /\ k.loading = s.loading /\ k.more = s.more
      /\ KeptFolder(n) \in Places \cup {Anywhere}
  BY <1>5, KeepTagsIs
<1> HIDE DEF k
<1>7. /\ t \in Lists /\ t.loaded = new /\ t.selecting = s.selecting
      /\ t.selected = s.selected /\ t.loading = s.loading /\ t.more = s.more
  BY <1>3, <1>6 DEF Lists
<1> HIDE DEF t
<1>8. Reduces(Derive(t), t) /\ Derive(t).loaded = t.loaded
  BY <1>1, <1>2, <1>7, DeriveIs
<1> QED
  BY <1>2, <1>4, <1>7, <1>8 DEF Reduces

(* Mutations of what is loaded.                                            *)
LEMMA MergedIs ==
  ASSUME NEW s, GoodList(s), NEW loaded \in SUBSET Copy, Distinct(loaded),
         NEW shown \in SUBSET Copy, Ids(shown) \subseteq Ids(loaded),
         NEW total \in Int, NEW count \in Int,
         ~s.search => shown = Visible([s EXCEPT !.loaded = loaded])
  PROVE  LET t == Merged(s, loaded, shown, total, count)
         IN  Reduces(t, s) /\ t.loaded = loaded
<1> DEFINE n == [s EXCEPT !.loaded = loaded]
           t == [s EXCEPT !.loaded = loaded, !.shown = shown,
                          !.total = Later(s.total + total), !.count = Later(s.count + count)]
<1>1. s \in Lists /\ (~s.selecting => s.selected = {})
  BY DEF GoodList
<1>2. Later(s.total + total) \in Nat /\ Later(s.count + count) \in Nat
  BY <1>1 DEF Later, Lists
<1>3. Merged(s, loaded, shown, total, count) = Prune(t)
  BY DEF Merged
<1>4. /\ n \in Lists /\ n.loaded = loaded /\ n.archived = s.archived /\ n.search = s.search
      /\ n.folder = s.folder /\ n.tags = s.tags
  BY <1>1 DEF Lists
<1>5. /\ t \in Lists /\ t.loaded = loaded /\ t.shown = shown /\ t.selecting = s.selecting
      /\ t.selected = s.selected /\ t.loading = s.loading /\ t.more = s.more
      /\ t.archived = s.archived /\ t.search = s.search /\ t.folder = s.folder
      /\ t.tags = s.tags
  BY <1>1, <1>2 DEF Lists
<1>6. ~s.search => shown = Visible(n)
  OBVIOUS
<1> HIDE DEF n, t
<1>7. Visible(t) = Visible(n)
  BY <1>4, <1>5, VisibleIs
<1>8. Reduces(Prune(t), t) /\ Prune(t).loaded = t.loaded
  BY <1>1, <1>5, <1>6, <1>7, PruneIs
<1> QED
  BY <1>3, <1>5, <1>8 DEF Reduces

(* The copies of an answer take the place of those there were.             *)
LEMMA WithIs ==
  ASSUME NEW s, GoodList(s), NEW c \in Copy, NEW search
  PROVE  /\ With(s, c, search) \in SUBSET Copy /\ Distinct(With(s, c, search))
         /\ \A d \in With(s, c, search) : d = c \/ (d \in s.loaded /\ d.id # c.id)
         /\ Without(s.loaded, c.id) \in SUBSET Copy /\ Distinct(Without(s.loaded, c.id))
<1>1. s.loaded \in SUBSET Copy /\ Distinct(s.loaded)
  BY DEF GoodList, Lists
<1>2. /\ Without(s.loaded, c.id) \in SUBSET Copy /\ Distinct(Without(s.loaded, c.id))
      /\ \A d \in Without(s.loaded, c.id) : d \in s.loaded /\ d.id # c.id
  BY <1>1 DEF Without, Distinct
<1>3. \A d \in With(s, c, search) : d = c \/ d \in Without(s.loaded, c.id)
  BY DEF With
<1> HIDE DEF Distinct
<1>4. Distinct(With(s, c, search))
  BY <1>2, <1>3 DEF Distinct
<1> QED
  BY <1>2, <1>3, <1>4

(* How much a total or a count changes.                                    *)
LEMMA ChangesAre ==
  ASSUME NEW s, NEW c, NEW search, NEW counting
  PROVE  /\ TotalChange(s, c, search, counting) \in Int
         /\ CountChange(s, c, search, counting) \in Int
         /\ Left(s, c, search) \in Int
  BY DEF TotalChange, CountChange, Left

(* A filter of what would be loaded.                                       *)
LEMMA VisibleOf ==
  ASSUME NEW s, GoodList(s), NEW loaded \in SUBSET Copy
  PROVE  LET v == Visible([s EXCEPT !.loaded = loaded])
         IN  v \in SUBSET Copy /\ Ids(v) \subseteq Ids(loaded)
<1>1. s \in Lists
  BY DEF GoodList
<1>2. PICK n : n = [s EXCEPT !.loaded = loaded]
  OBVIOUS
<1>3. n \in Lists /\ n.loaded = loaded
  BY <1>1, <1>2 DEF Lists
<1> QED
  BY <1>2, <1>3, VisibleIs

(* An answer about a conversation is merged,                               *)
LEMMA SyncIs ==
  ASSUME NEW s, GoodList(s), NEW c \in Copy, NEW search, NEW counting
  PROVE  /\ Reduces(Sync(s, c, search, counting), s)
         /\ \A d \in Sync(s, c, search, counting).loaded :
              d = c \/ (d \in s.loaded /\ d.id # c.id)
<1> DEFINE loaded == With(s, c, search)
           shown == ShownAfter(s, c, loaded)
<1>1. loaded \in SUBSET Copy /\ Distinct(loaded)
      /\ \A d \in loaded : d = c \/ (d \in s.loaded /\ d.id # c.id)
  BY WithIs
<1> HIDE DEF loaded
<1>2. PICK v : v = Visible([s EXCEPT !.loaded = loaded])
  OBVIOUS
<1>3. v \in SUBSET Copy /\ Ids(v) \subseteq Ids(loaded)
  BY <1>1, <1>2, VisibleOf
<1>4. shown = v \cup {d \in s.shown : /\ s.search /\ d.id = c.id
                                      /\ c.id \in Ids(loaded) \ Ids(v)
                                      /\ Matches(d, s.archived, FALSE, s.folder, s.tags)}
  BY <1>2 DEF ShownAfter
<1>5. s.shown \in SUBSET Copy
  BY DEF GoodList, Lists
<1>6. shown \in SUBSET Copy /\ Ids(shown) \subseteq Ids(loaded) /\ (~s.search => shown = v)
  BY <1>3, <1>4, <1>5 DEF Ids
<1> HIDE DEF shown
<1>7. PICK total \in Int, count \in Int :
        Sync(s, c, search, counting) = Merged(s, loaded, shown, total, count)
  BY ChangesAre DEF Sync, loaded, shown
<1>8. Reduces(Merged(s, loaded, shown, total, count), s)
      /\ Merged(s, loaded, shown, total, count).loaded = loaded
  BY <1>1, <1>2, <1>6, MergedIs
<1> QED
  BY <1>1, <1>7, <1>8

(* so is a new conversation,                                               *)
LEMMA InsertedIs ==
  ASSUME GoodList(list), NEW c \in Copy, NEW search
  PROVE  /\ Reduces(Inserted(c, search), list)
         /\ \A d \in Inserted(c, search).loaded :
              d = c \/ (d \in list.loaded /\ d.id # c.id)
<1> DEFINE loaded == With(list, c, search)
<1>1. loaded \in SUBSET Copy /\ Distinct(loaded)
      /\ \A d \in loaded : d = c \/ (d \in list.loaded /\ d.id # c.id)
  BY WithIs
<1> HIDE DEF loaded
<1>2. PICK v : v = Visible([list EXCEPT !.loaded = loaded])
  OBVIOUS
<1>3. v \in SUBSET Copy /\ Ids(v) \subseteq Ids(loaded)
  BY <1>1, <1>2, VisibleOf
<1>4. PICK total \in Int, count \in Int :
        Inserted(c, search) = Merged(list, loaded, v, total, count)
  <2>1. Inserted(c, search) =
          Merged(list, loaded, v, IF Entered(list, c, search) THEN 1 ELSE Left(list, c, search),
                 Left(list, c, search))
    BY <1>2 DEF Inserted, loaded
  <2>2. Left(list, c, search) \in Int
    BY ChangesAre
  <2> QED
    BY <2>1, <2>2
<1>5. Reduces(Merged(list, loaded, v, total, count), list)
      /\ Merged(list, loaded, v, total, count).loaded = loaded
  BY <1>1, <1>2, <1>3, MergedIs
<1> QED
  BY <1>1, <1>4, <1>5

(* and one that is gone is taken out.                                      *)
LEMMA RemovedIs ==
  ASSUME GoodList(list), NEW i, RemoveConversationFromList(i)
  PROVE  Reduces(list', list) /\ list'.loaded = Without(list.loaded, i)
<1> DEFINE loaded == Without(list.loaded, i)
<1>1. loaded \in SUBSET Copy /\ Distinct(loaded)
  BY DEF GoodList, Lists, Distinct, Without
<1>2. PICK v : v = Visible([list EXCEPT !.loaded = loaded])
  OBVIOUS
<1>3. v \in SUBSET Copy /\ Ids(v) \subseteq Ids(loaded)
  BY <1>1, <1>2, VisibleOf
<1>4. PICK total \in Int, count \in Int : list' = Merged(list, loaded, v, total, count)
  BY <1>2 DEF RemoveConversationFromList
<1> HIDE DEF loaded
<1>5. Reduces(Merged(list, loaded, v, total, count), list)
      /\ Merged(list, loaded, v, total, count).loaded = loaded
  BY <1>1, <1>2, <1>3, MergedIs
<1> QED
  BY <1>4, <1>5 DEF loaded

-----------------------------------------------------------------------------
(* The types of the state.                                                 *)

Operations == {"patch", "ask", "delete", "clean", "look", "settle"}
Patches ==
  [pinned : BOOLEAN] \cup [archived : BOOLEAN] \cup [hit : BOOLEAN]
    \cup [folder : Places] \cup [tags : SUBSET Tags]
CallSet ==
  [op : Operations, id : Conversations, patch : Patches \cup {<<>>}, search : BOOLEAN,
   home : BOOLEAN, answer : Copy \cup {None}]
PageSet ==
  [kind : {"effect", "append", "reload"}, archived : BOOLEAN, key : BOOLEAN,
   search : BOOLEAN, from : Nat, answer : Answers \cup {None}]
DialogSet ==
  [op : Single, left : SUBSET Copy, many : BOOLEAN, search : BOOLEAN,
   open : Conversations \cup {None}]
BatchSet ==
  [op : Single, left : SUBSET Copy, many : BOOLEAN, search : BOOLEAN,
   open : Conversations \cup {None}, value : Places \cup Tags \cup {None}]

ServerTypes ==
  /\ DOMAIN rows \subseteq used /\ used \subseteq Conversations /\ IsFiniteSet(DOMAIN rows)
  /\ \A i \in DOMAIN rows : rows[i] \in Copy /\ rows[i].id = i
  /\ clock \in Nat

TabTypes ==
  /\ deferred \in BOOLEAN /\ latest \in {"effect", "append", "reload", None}
  /\ localOnly \subseteq Conversations /\ active \in Conversations \cup {None}
  /\ moves \in Nat /\ failed \in BOOLEAN /\ whole \in BOOLEAN /\ unsure \subseteq Conversations

(* Requests for pages: one of a kind.  The flags of the list, and the flow *)
(* that waits for a reload, know which of them are under way.              *)
GoodPage(r) ==
  /\ r \in PageSet
  /\ r.answer # None => IsFiniteSet(r.answer.rows) /\ Distinct(r.answer.rows)
Reloading == flow # None /\ flow.phase = "reload"
PageTypes ==
  /\ \A r \in pages : GoodPage(r)
  /\ \A q, r \in pages : q.kind = r.kind => q = r
  /\ list.more <=> \E r \in pages : r.kind = "append"
  /\ Reloading <=> \E r \in pages : r.kind = "reload"
  /\ list.loading => pages # {}

(* Requests about one conversation; the flow waits for those it made.      *)
Waits(f, k) ==
  /\ k.op = "settle" =>
       f # None /\ f.phase \in {"settle", "refused", "failed"} /\ k.id = f.id
  /\ k.op = "clean" => f # None /\ f.phase = "clean" /\ k.id = f.id
OfFlow == {"settle", "clean"}
GoodCall(k) ==
  /\ k \in CallSet
  /\ k.op \in {"patch", "ask"} => k.patch \in Patches
  /\ k.answer # None => k.answer.id = k.id
CallTypes ==
  /\ \A k \in calls : GoodCall(k) /\ Waits(flow, k)
  /\ \A j, k \in calls : j.op \in OfFlow /\ k.op \in OfFlow => j = k

GoodFlow(f) ==
  /\ f \in Flows
  /\ f.phase # "create" => f.id \in Conversations
  /\ f.phase = "made" => f.row \in Copy /\ f.row.id = f.id
FlowTypes == flow = None \/ GoodFlow(flow)

GoodBatch(b) ==
  /\ b \in BatchSet
  /\ b.op = "folder" => b.value \in Places
  /\ b.op \in {"addTag", "dropTag"} => b.value \in Tags
DialogTypes ==
  /\ dialog = None \/ dialog \in DialogSet
  /\ \A b \in batches : GoodBatch(b)

(* Nothing the tab knows of was never given out.                           *)
KnownIds ==
  /\ Ids(list.loaded) \subseteq used
  /\ \A r \in pages : r.answer # None => Ids(r.answer.rows) \subseteq used
  /\ \A k \in calls : k.id \in used
  /\ flow # None => flow.id \in used \cup {None}
  /\ active \in used \cup {None}
  /\ dialog # None => Ids(dialog.left) \subseteq used
  /\ \A b \in batches : Ids(b.left) \subseteq used

Types ==
  /\ GoodList(list) /\ ServerTypes /\ TabTypes /\ PageTypes /\ CallTypes
  /\ FlowTypes /\ DialogTypes /\ KnownIds

-----------------------------------------------------------------------------
(* The server.                                                             *)

(* A page consists of rows.                                                *)
LEMMA PageOfIs ==
  ASSUME ServerTypes, NEW r \in PageSet
  PROVE  /\ PageOf(r) \in Answers /\ IsFiniteSet(PageOf(r).rows) /\ Distinct(PageOf(r).rows)
         /\ \A c \in PageOf(r).rows : c.id \in DOMAIN rows /\ rows[c.id] = c
<1> DEFINE all == {rows[i] : i \in DOMAIN rows}
           found == Found(r.archived, r.search)
<1>1. IsFiniteSet(all)
  <2> DEFINE f == [i \in DOMAIN rows |-> rows[i]]
  <2>1. f \in Surjection(DOMAIN rows, all)
    BY DEF Surjection
  <2> QED
    BY <2>1, FS_Surjection DEF ServerTypes
<1>2. all \in SUBSET Copy /\ \A c \in all : c.id \in DOMAIN rows /\ rows[c.id] = c
  BY DEF ServerTypes
<1>3. found \subseteq all
  BY DEF Found
<1> HIDE DEF all, found
<1>4. IsFiniteSet(found) /\ Cardinality(found) \in Nat
  BY <1>1, <1>3, FS_Subset, FS_CardinalityType
<1>5. PICK page \in SUBSET found : PageOf(r) = [rows |-> page, total |-> Cardinality(found)]
  BY DEF PageOf, found
<1>6. IsFiniteSet(page)
  BY <1>4, <1>5, FS_Subset
<1>7. PageOf(r).rows = page /\ PageOf(r) \in Answers
  BY <1>2, <1>3, <1>4, <1>5 DEF Answers
<1> QED
  BY <1>2, <1>3, <1>6, <1>7 DEF Distinct

(* An update changes the fields it is given.                               *)
LEMMA PatchedIs ==
  ASSUME ServerTypes, NEW row \in Copy, NEW patch \in Patches
  PROVE  Patched(row, patch) \in Copy /\ Patched(row, patch).id = row.id
<1>1. clock \in Int
  BY DEF ServerTypes
<1>2. CASE patch \in [pinned : BOOLEAN]
  BY <1>1, <1>2 DEF Patched, Copy
<1>3. CASE patch \in [archived : BOOLEAN]
  BY <1>1, <1>3 DEF Patched, Copy
<1>4. CASE patch \in [hit : BOOLEAN]
  BY <1>1, <1>4 DEF Patched, Copy
<1>5. CASE patch \in [folder : Places]
  BY <1>1, <1>5 DEF Patched, Copy
<1>6. CASE patch \in [tags : SUBSET Tags]
  BY <1>1, <1>6 DEF Patched, Copy
<1> QED
  BY <1>2, <1>3, <1>4, <1>5, <1>6 DEF Patches

-----------------------------------------------------------------------------
(* Types are kept.                                                         *)

(* The flags that say what is loading are nobody else's concern.           *)
LEMMA FlagsAre ==
  ASSUME NEW s, GoodList(s), NEW v \in BOOLEAN, NEW w \in BOOLEAN
  PROVE  /\ \A t : t = [s EXCEPT !.loading = v] =>
              GoodList(t) /\ t.loaded = s.loaded /\ t.loading = v /\ t.more = s.more
         /\ \A t : t = [s EXCEPT !.more = w] =>
              GoodList(t) /\ t.loaded = s.loaded /\ t.loading = s.loading /\ t.more = w
<1> DEFINE Alike(t) ==
             /\ t \in Lists /\ t.loaded = s.loaded /\ t.shown = s.shown
             /\ t.search = s.search /\ t.archived = s.archived /\ t.folder = s.folder
             /\ t.tags = s.tags /\ t.selecting = s.selecting /\ t.selected = s.selected
<1>1. s \in Lists
  BY DEF GoodList
<1>2. ASSUME NEW t, Alike(t) PROVE GoodList(t)
  <2>1. Visible(t) = Visible(s)
    BY <1>1, <1>2, VisibleIs
  <2> QED
    BY <1>2, <2>1 DEF GoodList
<1>3. ASSUME NEW t, t = [s EXCEPT !.loading = v]
      PROVE  Alike(t) /\ t.loading = v /\ t.more = s.more
  BY <1>1, <1>3 DEF Lists
<1>4. ASSUME NEW t, t = [s EXCEPT !.more = w]
      PROVE  Alike(t) /\ t.loading = s.loading /\ t.more = w
  BY <1>1, <1>4 DEF Lists
<1>5. \A t : Alike(t) => t.loaded = s.loaded /\ GoodList(t)
  BY <1>2
<1> HIDE DEF Alike
<1> QED
  BY <1>3, <1>4, <1>5

(* No id appears that was not given out.                                   *)
LEMMA KnownStep ==
  ASSUME KnownIds, used \subseteq used',
         \A c \in list'.loaded : c \in list.loaded \/ c.id \in used',
         \A r \in pages' : r \in pages \/ r.answer = None \/ Ids(r.answer.rows) \subseteq used',
         \A k \in calls' : k \in calls \/ k.id \in used',
         flow' = flow \/ flow' = None \/ flow'.id \in used' \cup {None},
         active' = active \/ active' \in used' \cup {None},
         dialog' = dialog \/ dialog' = None \/ Ids(dialog'.left) \subseteq used',
         \A b \in batches' : b \in batches \/ Ids(b.left) \subseteq used'
  PROVE  KnownIds'
<1>1. Ids(list'.loaded) \subseteq used'
  BY DEF KnownIds, Ids
<1>2. \A r \in pages' : r.answer # None => Ids(r.answer.rows) \subseteq used'
  BY DEF KnownIds
<1>3. \A k \in calls' : k.id \in used'
  BY DEF KnownIds
<1>4. flow' # None => flow'.id \in used' \cup {None}
  BY DEF KnownIds
<1>5. active' \in used' \cup {None}
  BY DEF KnownIds
<1>6. dialog' # None => Ids(dialog'.left) \subseteq used'
  BY DEF KnownIds
<1>7. \A b \in batches' : Ids(b.left) \subseteq used'
  BY DEF KnownIds
<1> QED
  BY <1>1, <1>2, <1>3, <1>4, <1>5, <1>6, <1>7 DEF KnownIds

(* The requests for pages are those there were.                            *)
LEMMA SamePages ==
  ASSUME PageTypes, pages' = pages, list'.more = list.more,
         list'.loading => list.loading, Reloading' = Reloading
  PROVE  PageTypes'
  BY DEF PageTypes

(* The list is reduced, and nothing else happens.                          *)
LEMMA ReduceTypes ==
  ASSUME Types, NEW s, Reduces(s, list), s.loaded = list.loaded, Reduce(s),
         moves' \in Nat, failed' = failed
  PROVE  Types'
<1>1. GoodList(list') /\ list'.loaded = list.loaded /\ list'.loading = list.loading
      /\ list'.more = list.more
  BY DEF Reduce, Reduces
<1>2. /\ UNCHANGED <<rows, clock, used, latest, localOnly, deferred, pages, active, calls,
                     dialog, batches, flow, whole, unsure>>
  BY DEF Reduce, serverVars, dialogs, history
<1>3. PageTypes'
  BY <1>1, <1>2, SamePages DEF Types, Reloading
<1>4. KnownIds'
  BY <1>1, <1>2, KnownStep DEF Types
<1>5. ServerTypes' /\ TabTypes'
  BY <1>2 DEF Types, ServerTypes, TabTypes
<1>6. CallTypes' /\ FlowTypes' /\ DialogTypes'
  BY <1>2 DEF Types, CallTypes, FlowTypes, DialogTypes
<1> QED
  BY <1>1, <1>3, <1>4, <1>5, <1>6 DEF Types

(* A move is counted.                                                      *)
LEMMA MoveIs ==
  ASSUME Types, Spend
  PROVE  moves' \in Nat
  BY BoundsAssumption DEF Types, TabTypes, Spend

(* A list that is shown has copies of conversations.                       *)
LEMMA ShownAre ==
  ASSUME Types
  PROVE  \A c \in list.shown :
           /\ c \in Copy /\ c.id \in Conversations /\ c.id \in used /\ c.id # None
           /\ c.id \in Ids(list.loaded) /\ c.folder \in Places /\ c.tags \in SUBSET Tags
<1>1. \A c \in list.shown : c \in Copy /\ c.id \in Ids(list.loaded)
  BY DEF Types, GoodList, Lists, Ids
<1> QED
  BY <1>1, DistinctAssumption DEF Copy, Types, KnownIds

(* Filters and the selection.                                              *)
LEMMA FilterTypes ==
  ASSUME Types,
         \/ Search \/ SetSelecting
         \/ \E f \in {Anywhere, Unfiled}
                       \cup {c.folder : c \in {d \in list.loaded : d.archived = list.archived}} :
              SelectFolder(f)
         \/ \E t \in Tags : ToggleTag(t)
         \/ \E c \in list.shown : ToggleSelected(c)
  PROVE  Types'
<1>1. /\ GoodList(list) /\ list \in Lists /\ list.search \in BOOLEAN
      /\ list.selecting \in BOOLEAN /\ \A c \in list.loaded : c.folder \in Places
  BY DEF Types, GoodList, Lists, Copy
<1>2. CASE Search
  <2>1. Move /\ Reduce(SetSearch(list, ~list.search)) /\ (~list.search) \in BOOLEAN
    BY <1>1, <1>2 DEF Search
  <2> QED
    BY <1>1, <2>1, FiltersAre, MoveIs, ReduceTypes DEF Move
<1>3. CASE SetSelecting
  <2>1. Move /\ Reduce(SetSelectionMode(list, ~list.selecting)) /\ (~list.selecting) \in BOOLEAN
    BY <1>1, <1>3 DEF SetSelecting
  <2> QED
    BY <1>1, <2>1, SelectionIs, MoveIs, ReduceTypes DEF Move
<1>4. ASSUME NEW f \in {Anywhere, Unfiled}
                         \cup {c.folder : c \in {d \in list.loaded : d.archived = list.archived}},
             SelectFolder(f)
      PROVE  Types'
  <2>1. f \in Places \cup {Anywhere}
    BY <1>1 DEF Places
  <2>2. Move /\ Reduce(SetSelectedFolder(list, f))
    BY <1>4 DEF SelectFolder
  <2> QED
    BY <1>1, <2>1, <2>2, FiltersAre, MoveIs, ReduceTypes DEF Move
<1>5. ASSUME NEW t \in Tags, ToggleTag(t) PROVE Types'
  <2>1. Move /\ Reduce(ToggleSelectedTag(list, t))
    BY <1>5 DEF ToggleTag
  <2> QED
    BY <1>1, <2>1, FiltersAre, MoveIs, ReduceTypes DEF Move
<1>6. ASSUME NEW c \in list.shown, ToggleSelected(c) PROVE Types'
  <2>1. Move /\ list.selecting /\ Reduce(ToggleSelection(list, c.id))
    BY <1>6 DEF ToggleSelected
  <2> QED
    BY <1>1, <2>1, SelectionIs, MoveIs, ReduceTypes DEF Move
<1> QED
  BY <1>2, <1>3, <1>4, <1>5, <1>6

(* What the request of another query leaves.                               *)
LEMMA FetchIs ==
  ASSUME Types, NEW s, Reduces(s, list), s.loaded = list.loaded, NEW search \in BOOLEAN,
         Fetch(s, search), flow' = flow
  PROVE  /\ GoodList(list') /\ list'.loaded = list.loaded /\ PageTypes'
         /\ deferred' \in BOOLEAN /\ latest' = "effect" /\ whole' \in BOOLEAN
         /\ \A r \in pages' : (r \in pages /\ r.kind # "effect") \/ r.answer = None
<1>1. GoodList(list') /\ list'.loaded = list.loaded /\ list'.more = list.more
  <2>1. GoodList(s) /\ s.more = list.more
    BY DEF Reduces
  <2>2. PICK t : t = [s EXCEPT !.loading = TRUE]
    OBVIOUS
  <2>3. GoodList(t) /\ t.loaded = s.loaded /\ t.more = s.more
    BY <2>1, <2>2, FlagsAre
  <2> QED
    BY <2>1, <2>2, <2>3 DEF Fetch
<1>2. s.archived \in BOOLEAN
  BY DEF Reduces, GoodList, Lists
<1> DEFINE new == Request("effect", s.archived, search, search, 0)
<1>3. new.kind = "effect" /\ new.answer = None /\ GoodPage(new)
  BY <1>2 DEF Request, GoodPage, PageSet
<1> HIDE DEF new
<1>4. /\ pages' = {r \in pages : r.kind # "effect"} \cup {new}
      /\ deferred' = search /\ latest' = "effect" /\ whole' = FALSE
  BY DEF Fetch, new
<1>5. PageTypes'
  BY <1>1, <1>3, <1>4 DEF Types, PageTypes, Reloading
<1> QED
  BY <1>1, <1>3, <1>4, <1>5

(* The requests for another query.                                         *)
LEMMA FetchTypes ==
  ASSUME Types, Defer \/ ShowArchived
  PROVE  Types'
<1>1. /\ GoodList(list) /\ list.search \in BOOLEAN /\ (~list.archived) \in BOOLEAN
      /\ deferred \in BOOLEAN
  BY DEF Types, GoodList, Lists, TabTypes
<1>2. ASSUME NEW s, Reduces(s, list), s.loaded = list.loaded, NEW search \in BOOLEAN,
             Fetch(s, search), moves' \in Nat,
             UNCHANGED <<serverVars, localOnly, active, calls, dialogs, flow, failed, unsure>>
      PROVE  Types'
  <2>1. /\ GoodList(list') /\ list'.loaded = list.loaded /\ PageTypes'
        /\ deferred' \in BOOLEAN /\ latest' = "effect" /\ whole' \in BOOLEAN
        /\ \A r \in pages' : r \in pages \/ r.answer = None
    BY <1>2, FetchIs
  <2>2. UNCHANGED <<rows, clock, used, localOnly, active, calls, dialog, batches, flow,
                    failed, unsure>>
    BY <1>2 DEF serverVars, dialogs
  <2>3. KnownIds'
    BY <2>1, <2>2, KnownStep DEF Types
  <2>4. ServerTypes' /\ TabTypes' /\ CallTypes' /\ FlowTypes' /\ DialogTypes'
    BY <1>2, <2>1, <2>2 DEF Types, ServerTypes, TabTypes, CallTypes, FlowTypes, DialogTypes
  <2> QED
    BY <2>1, <2>3, <2>4 DEF Types
<1>3. CASE Defer
  <2>1. Reduces(list, list)
    BY <1>1 DEF Reduces
  <2>2. moves' \in Nat /\ failed' = failed
    BY <1>3 DEF Defer, bounds, Types, TabTypes
  <2> QED
    BY <1>1, <1>2, <1>3, <2>1, <2>2 DEF Defer
<1>4. CASE ShowArchived
  <2>1. /\ Reduces(SetShowArchived(list, ~list.archived), list)
        /\ SetShowArchived(list, ~list.archived).loaded = list.loaded
    BY <1>1, FiltersAre
  <2>2. moves' \in Nat /\ failed' = failed
    BY <1>4, MoveIs DEF ShowArchived, Move
  <2> QED
    BY <1>1, <1>2, <1>4, <2>1, <2>2 DEF ShowArchived
<1> QED
  BY <1>3, <1>4

(* More of the list.                                                       *)
LEMMA LoadMoreTypes ==
  ASSUME Types, LoadMore
  PROVE  Types'
<1> DEFINE new == Request("append", list.archived, deferred, deferred, list.count)
<1>1. GoodList(list) /\ list.archived \in BOOLEAN /\ list.count \in Nat /\ deferred \in BOOLEAN
  BY DEF Types, GoodList, Lists, TabTypes
<1>2. new.kind = "append" /\ new.answer = None /\ GoodPage(new)
  BY <1>1 DEF Request, GoodPage, PageSet
<1>3. /\ list' = [list EXCEPT !.more = TRUE] /\ pages' = pages \cup {new} /\ ~list.more
      /\ latest' = "append" /\ moves' \in Nat /\ failed' = failed
      /\ UNCHANGED <<rows, clock, used, localOnly, deferred, active, calls, dialog, batches,
                     flow, whole, unsure>>
  BY MoveIs DEF LoadMore, Move, serverVars, dialogs, history
<1> HIDE DEF new
<1>4. PICK t : t = [list EXCEPT !.more = TRUE]
  OBVIOUS
<1>5. GoodList(t) /\ t.loaded = list.loaded /\ t.loading = list.loading /\ t.more = TRUE
  BY <1>1, <1>4, FlagsAre
<1>6. PageTypes'
  BY <1>2, <1>3, <1>4, <1>5 DEF Types, PageTypes, Reloading
<1>7. KnownIds'
  BY <1>2, <1>3, <1>4, <1>5, KnownStep DEF Types
<1>8. ServerTypes' /\ TabTypes' /\ CallTypes' /\ FlowTypes' /\ DialogTypes'
  BY <1>3 DEF Types, ServerTypes, TabTypes, CallTypes, FlowTypes, DialogTypes
<1> QED
  BY <1>3, <1>4, <1>5, <1>6, <1>7, <1>8 DEF Types

(* A request about one conversation.                                       *)
LEMMA CallIs ==
  ASSUME NEW op \in Operations, NEW i \in Conversations, NEW patch \in Patches \cup {<<>>},
         NEW search \in BOOLEAN, NEW home \in BOOLEAN,
         op \in {"patch", "ask"} => patch \in Patches
  PROVE  LET k == Call(op, i, patch, search, home)
         IN  GoodCall(k) /\ k.op = op /\ k.id = i /\ k.answer = None
  BY DEF Call, GoodCall, CallSet

(* One that carries no change,                                             *)
LEMMA PlainIs ==
  ASSUME NEW op \in {"look", "settle", "clean"}, NEW i \in Conversations, NEW home \in BOOLEAN
  PROVE  LET k == Call(op, i, <<>>, FALSE, home)
         IN  GoodCall(k) /\ k.op = op /\ k.id = i /\ k.answer = None
<1>1. PICK patch, off : patch = <<>> /\ off = FALSE
  OBVIOUS
<1>2. op \in Operations /\ op \notin {"patch", "ask"} /\ off \in BOOLEAN
      /\ patch \in Patches \cup {<<>>}
  BY <1>1 DEF Operations
<1>3. LET k == Call(op, i, patch, off, home)
      IN  GoodCall(k) /\ k.op = op /\ k.id = i /\ k.answer = None
  BY <1>2, CallIs
<1> QED
  BY <1>1, <1>3

(* and one that only looks.                                                *)
LEMMA LookIs ==
  ASSUME NEW i \in Conversations
  PROVE  LET k == Call("look", i, <<>>, FALSE, FALSE)
         IN  GoodCall(k) /\ k.op = "look" /\ k.id = i /\ k.answer = None
<1>1. PICK op, off : op = "look" /\ off = FALSE
  OBVIOUS
<1>2. LET k == Call(op, i, <<>>, FALSE, off)
      IN  GoodCall(k) /\ k.op = op /\ k.id = i /\ k.answer = None
  BY <1>1, PlainIs
<1> QED
  BY <1>1, <1>2

(* What is not sure any more.                                              *)
LEMMA DoubtsAre ==
  ASSUME Types, NEW i \in Conversations
  PROVE  Doubts(i) \subseteq Conversations /\ unsure \subseteq Doubts(i)
         /\ ((\E k \in calls : k.id = i) \/ (flow # None /\ flow.id = i) => i \in Doubts(i))
  BY DEF Types, TabTypes, Doubts

(* The requests about conversations change, those of the flow do not.      *)
LEMMA CallsTypes ==
  ASSUME Types,
         \A k \in calls' : k \in calls \/ (GoodCall(k) /\ k.op \notin OfFlow /\ k.id \in used),
         active' \in used \cup {None}, unsure' \subseteq Conversations,
         list' = list, pages' = pages, dialog' = dialog \/ dialog' = None, DialogTypes',
         \A b \in batches' : b \in batches \/ Ids(b.left) \subseteq used,
         moves' \in Nat,
         UNCHANGED <<rows, clock, used, latest, localOnly, deferred, flow, failed, whole>>
  PROVE  Types'
<1>1. CallTypes'
  BY DEF Types, CallTypes, Waits, OfFlow
<1>2. KnownIds'
  BY KnownStep DEF Types
<1>3. PageTypes'
  BY SamePages DEF Types, Reloading
<1>4. used \subseteq Conversations
  BY DEF Types, ServerTypes
<1>5. ServerTypes' /\ TabTypes' /\ FlowTypes' /\ GoodList(list')
  BY <1>4 DEF Types, ServerTypes, TabTypes, FlowTypes
<1> QED
  BY <1>1, <1>2, <1>3, <1>5 DEF Types

(* A conversation is opened.                                               *)
LEMMA OpenTypes ==
  ASSUME Types, NEW c \in list.shown, Open(c)
  PROVE  Types'
<1>1. c.id \in Conversations /\ c.id \in used
  BY ShownAre
<1> DEFINE new == Call("look", c.id, <<>>, FALSE, FALSE)
<1>2. GoodCall(new) /\ new.op = "look" /\ new.id = c.id
  BY <1>1, LookIs
<1>3. /\ active' = c.id /\ moves' \in Nat /\ failed' = failed
      /\ (calls' = NotLooking \/ calls' = NotLooking \cup {new})
      /\ (unsure' = unsure \/ unsure' = Doubts(c.id))
      /\ UNCHANGED <<rows, clock, used, list, latest, localOnly, deferred, pages, dialog,
                     batches, flow, whole>>
  BY MoveIs DEF Open, Move, serverVars, listVars, dialogs
<1> HIDE DEF new
<1>4. unsure' \subseteq Conversations
  BY <1>1, <1>3, DoubtsAre DEF Types, TabTypes
<1>5. \A k \in calls' : k \in calls \/ (GoodCall(k) /\ k.op \notin OfFlow /\ k.id \in used)
  BY <1>1, <1>2, <1>3 DEF NotLooking, OfFlow
<1>6. DialogTypes'
  BY <1>3 DEF Types, DialogTypes
<1> QED
  BY <1>1, <1>3, <1>4, <1>5, <1>6, CallsTypes

(* A request the user makes.                                               *)
LEMMA AskTypes ==
  ASSUME Types, NEW op \in {"patch", "ask", "delete"}, NEW i \in Conversations, i \in used,
         NEW patch \in Patches \cup {<<>>}, op # "delete" => patch \in Patches,
         NEW search \in BOOLEAN, NEW home \in BOOLEAN, Ask(op, i, patch, search, home),
         dialog' = dialog, DialogTypes',
         \A b \in batches' : b \in batches \/ Ids(b.left) \subseteq used,
         moves' \in Nat, failed' = failed
  PROVE  Types'
<1> DEFINE new == Call(op, i, patch, search, home)
<1>1. GoodCall(new) /\ new.op = op /\ new.id = i
  BY CallIs DEF Operations
<1>2. /\ calls' = calls \cup {new} /\ unsure' = Doubts(i)
      /\ UNCHANGED <<rows, clock, used, list, latest, localOnly, deferred, pages, active, flow,
                     whole>>
  BY DEF Ask, serverVars, listVars
<1> HIDE DEF new
<1>3. unsure' \subseteq Conversations
  BY <1>2, DoubtsAre
<1>4. \A k \in calls' : k \in calls \/ (GoodCall(k) /\ k.op \notin OfFlow /\ k.id \in used)
  BY <1>1, <1>2 DEF OfFlow
<1>5. active' \in used \cup {None}
  BY <1>2 DEF Types, KnownIds
<1> QED
  BY <1>2, <1>3, <1>4, <1>5, CallsTypes

(* The menu of a conversation.                                             *)
LEMMA MenuTypes ==
  ASSUME Types, NEW c \in list.shown, TogglePinned(c) \/ ToggleArchived(c)
  PROVE  Types'
<1>1. c \in Copy /\ c.id \in Conversations /\ c.id \in used /\ deferred \in BOOLEAN
  BY ShownAre DEF Types, TabTypes
<1>2. [pinned |-> ~c.pinned] \in Patches /\ [archived |-> ~c.archived] \in Patches
  BY <1>1 DEF Patches, Copy
<1>3. UNCHANGED <<dialog, batches>> /\ DialogTypes' /\ moves' \in Nat /\ failed' = failed
  BY MoveIs DEF TogglePinned, ToggleArchived, Move, dialogs, Types, DialogTypes
<1>4. CASE TogglePinned(c)
  <2>1. Ask("patch", c.id, [pinned |-> ~c.pinned], deferred, FALSE)
    BY <1>4 DEF TogglePinned
  <2> QED
    BY <1>1, <1>2, <1>3, <2>1, AskTypes
<1>5. CASE ToggleArchived(c)
  <2>1. PICK home \in BOOLEAN : Ask("patch", c.id, [archived |-> ~c.archived], deferred, home)
    BY <1>5 DEF ToggleArchived
  <2> QED
    BY <1>1, <1>2, <1>3, <2>1, AskTypes
<1> QED
  BY <1>4, <1>5

(* The prompts and confirmations.                                          *)
LEMMA DialogsTypes ==
  ASSUME Types, UNCHANGED <<serverVars, listVars, deferred, pages, active, calls, flow, failed,
                            history>>,
         moves' \in Nat, DialogTypes',
         dialog' = dialog \/ dialog' = None \/ Ids(dialog'.left) \subseteq used,
         \A b \in batches' : b \in batches \/ Ids(b.left) \subseteq used
  PROVE  Types'
<1>1. UNCHANGED <<rows, clock, used, list, latest, localOnly, deferred, pages, active, calls,
                  flow, failed, whole, unsure>>
  BY DEF serverVars, listVars, history
<1>2. KnownIds'
  BY <1>1, KnownStep DEF Types
<1>3. PageTypes'
  BY <1>1, SamePages DEF Types, Reloading
<1>4. ServerTypes' /\ TabTypes' /\ CallTypes' /\ FlowTypes' /\ GoodList(list')
  BY <1>1 DEF Types, ServerTypes, TabTypes, CallTypes, FlowTypes
<1> QED
  BY <1>2, <1>3, <1>4 DEF Types

(* A prompt or a confirmation opens,                                       *)
LEMMA OpenDialogTypes ==
  ASSUME Types, NEW op \in Single, NEW left \in SUBSET list.shown, OpenDialog(op, left)
  PROVE  Types'
<1>1. list.selecting \in BOOLEAN /\ deferred \in BOOLEAN /\ active \in Conversations \cup {None}
  BY DEF Types, GoodList, Lists, TabTypes
<1>2. left \in SUBSET Copy /\ Ids(left) \subseteq used
  BY ShownAre DEF Ids
<1> DEFINE new == [op |-> op, left |-> left, many |-> list.selecting, search |-> deferred,
                   open |-> active]
<1>3. new \in DialogSet /\ new.left = left
  BY <1>1, <1>2 DEF DialogSet
<1>4. /\ dialog' = new /\ batches' = batches /\ moves' \in Nat
      /\ UNCHANGED <<serverVars, listVars, deferred, pages, active, calls, flow, failed,
                     history>>
  BY MoveIs DEF OpenDialog, Move
<1> HIDE DEF new
<1>5. DialogTypes'
  BY <1>3, <1>4 DEF Types, DialogTypes
<1> QED
  BY <1>2, <1>3, <1>4, <1>5, DialogsTypes

(* about one conversation or about those that are selected.                *)
LEMMA AskAboutTypes ==
  ASSUME Types,
         \/ \E c \in list.shown, op \in Single : AskAboutOne(op, c)
         \/ \E op \in Many : AskAboutSelected(op)
  PROVE  Types'
<1>1. ASSUME NEW c \in list.shown, NEW op \in Single, AskAboutOne(op, c) PROVE Types'
  BY <1>1, OpenDialogTypes DEF AskAboutOne
<1>2. ASSUME NEW op \in Many, AskAboutSelected(op) PROVE Types'
  <2>1. op \in Single
    BY DEF Many, Single
  <2>2. {c \in list.shown : c.id \in list.selected} \in SUBSET list.shown
    OBVIOUS
  <2> QED
    BY <1>2, <2>1, <2>2, OpenDialogTypes DEF AskAboutSelected
<1> QED
  BY <1>1, <1>2

(* What a dialog is submitted with.                                        *)
LEMMA SubmitTypes ==
  ASSUME Types, dialog # None, NEW v \in Values(dialog.op), Submit(v)
  PROVE  Types'
<1> DEFINE new == [op |-> dialog.op, left |-> dialog.left, many |-> dialog.many,
                   search |-> dialog.search, open |-> dialog.open, value |-> v]
<1>1. dialog \in DialogSet /\ Ids(dialog.left) \subseteq used
  BY DEF Types, DialogTypes, KnownIds
<1>2. /\ dialog.op = "folder" => v \in Places
      /\ dialog.op \in {"addTag", "dropTag"} => v \in Tags
      /\ v \in Places \cup Tags \cup {None}
  BY DEF Values
<1>3. GoodBatch(new) /\ new.left = dialog.left
  BY <1>1, <1>2 DEF GoodBatch, BatchSet, DialogSet
<1>4. /\ batches' = batches \cup {new} /\ dialog' = dialog /\ moves' = moves
      /\ UNCHANGED <<serverVars, listVars, deferred, pages, active, calls, flow, failed,
                     history>>
  BY DEF Submit, bounds
<1> HIDE DEF new
<1>5. DialogTypes' /\ moves' \in Nat
  BY <1>3, <1>4 DEF Types, DialogTypes, TabTypes
<1> QED
  BY <1>1, <1>3, <1>4, <1>5, DialogsTypes

(* It is closed, and what it submitted goes on.                            *)
LEMMA CancelTypes ==
  ASSUME Types, Cancel
  PROVE  Types'
<1>1. /\ dialog' = None /\ batches' = batches /\ moves' \in Nat
      /\ UNCHANGED <<serverVars, listVars, deferred, pages, active, calls, flow, failed,
                     history>>
  BY MoveIs DEF Cancel
<1>2. DialogTypes'
  BY <1>1 DEF Types, DialogTypes
<1> QED
  BY <1>1, <1>2, DialogsTypes

(* The next request of those a dialog was submitted for.                   *)
LEMMA AskNextTypes ==
  ASSUME Types, NEW b \in batches, NEW c \in b.left, AskNext(b, c)
  PROVE  Types'
<1> DEFINE new == [b EXCEPT !.left = b.left \ {c}]
<1>1. GoodBatch(b) /\ Ids(b.left) \subseteq used
  BY DEF Types, DialogTypes, KnownIds
<1>2. GoodBatch(new) /\ Ids(new.left) \subseteq used
  BY <1>1 DEF GoodBatch, BatchSet, Ids
<1>3. c \in Copy /\ c.id \in Conversations /\ c.id \in used /\ b.search \in BOOLEAN
      /\ b.op \in Single
  BY <1>1 DEF GoodBatch, BatchSet, Ids, Copy
<1>4. /\ batches' = (batches \ {b}) \cup {new} /\ dialog' = dialog /\ UNCHANGED bounds
      /\ Ask(CallOf(b.op), c.id, PatchOf(b.op, b.value, c), b.search,
             b.op = "delete" /\ b.open = c.id)
  BY DEF AskNext
<1> HIDE DEF new
<1>5. DialogTypes' /\ \A d \in batches' : d \in batches \/ Ids(d.left) \subseteq used
  BY <1>2, <1>4 DEF Types, DialogTypes
<1>6. moves' \in Nat /\ failed' = failed
  BY <1>4 DEF bounds, Types, TabTypes
<1>7. /\ PatchOf(b.op, b.value, c) \in Patches \cup {<<>>}
      /\ b.op # "delete" => PatchOf(b.op, b.value, c) \in Patches
  <2>1. /\ [hit |-> ~c.hit] \in Patches /\ c.tags \in SUBSET Tags
        /\ \A f \in Places : [folder |-> f] \in Patches
        /\ \A ts \in SUBSET Tags : [tags |-> ts] \in Patches
    BY <1>3 DEF Patches, Copy
  <2>2. CASE b.op = "rename"
    BY <2>1, <2>2 DEF PatchOf
  <2>3. CASE b.op = "folder"
    BY <1>1, <2>1, <2>3 DEF PatchOf, GoodBatch
  <2>4. CASE b.op = "addTag"
    <3>1. c.tags \cup {b.value} \in SUBSET Tags
      BY <1>1, <2>1, <2>4 DEF GoodBatch
    <3> QED
      BY <2>1, <2>4, <3>1 DEF PatchOf
  <2>5. CASE b.op = "dropTag"
    <3>1. c.tags \ {b.value} \in SUBSET Tags
      BY <2>1
    <3> QED
      BY <2>1, <2>5, <3>1 DEF PatchOf
  <2>6. CASE b.op = "delete"
    BY <2>6 DEF PatchOf
  <2> QED
    BY <1>3, <2>2, <2>3, <2>4, <2>5, <2>6 DEF Single
<1>8. CallOf(b.op) \in {"ask", "delete"} /\ (CallOf(b.op) # "delete" => b.op # "delete")
  BY DEF CallOf
<1>9. PICK home \in BOOLEAN :
        Ask(CallOf(b.op), c.id, PatchOf(b.op, b.value, c), b.search, home)
  BY <1>4
<1> QED
  BY <1>3, <1>4, <1>5, <1>6, <1>7, <1>8, <1>9, AskTypes

(* All requests of a dialog are done.                                      *)
LEMMA BatchEndsTypes ==
  ASSUME Types, NEW b \in batches, BatchEnds(b)
  PROVE  Types'
<1>1. GoodList(list)
  BY DEF Types
<1>2. /\ list' = list \/ list' = [list EXCEPT !.selected = {}]
      /\ batches' \subseteq batches /\ (dialog' = None \/ dialog' = dialog)
      /\ UNCHANGED <<rows, clock, used, latest, localOnly, deferred, pages, active, calls,
                     flow, moves, failed, whole, unsure>>
  BY DEF BatchEnds, serverVars, bounds, history
<1>3. Reduces(list', list) /\ list'.loaded = list.loaded
  <2>1. LET t == [list EXCEPT !.selected = {}] IN Reduces(t, list) /\ t.loaded = list.loaded
    BY <1>1, SelectionIs
  <2>2. Reduces(list, list)
    BY <1>1 DEF Reduces
  <2> QED
    BY <1>2, <2>1, <2>2
<1>4. PageTypes'
  BY <1>2, <1>3, SamePages DEF Types, Reloading, Reduces
<1>5. KnownIds'
  BY <1>2, <1>3, KnownStep DEF Types
<1>6. ServerTypes' /\ TabTypes' /\ CallTypes' /\ FlowTypes' /\ DialogTypes'
  BY <1>2 DEF Types, ServerTypes, TabTypes, CallTypes, FlowTypes, DialogTypes
<1> QED
  BY <1>3, <1>4, <1>5, <1>6 DEF Types, Reduces

(* A new chat leaves the conversation that is open.                        *)
LEMMA NewChatTypes ==
  ASSUME Types, NewChat
  PROVE  Types'
<1>1. GoodList(list) /\ deferred \in BOOLEAN /\ FALSE \in BOOLEAN
  BY DEF Types, TabTypes
<1>2. PICK s : s = SetShowArchived(list, FALSE)
  OBVIOUS
<1>3. Reduces(s, list) /\ s.loaded = list.loaded
  BY <1>1, <1>2, FiltersAre
<1>4. /\ active' = None /\ calls' \subseteq calls /\ moves' \in Nat /\ failed' = failed
      /\ UNCHANGED <<rows, clock, used, localOnly, dialog, batches, flow, unsure>>
  BY MoveIs DEF NewChat, Move, serverVars, dialogs, NotLooking
<1>5. /\ GoodList(list') /\ list'.loaded = list.loaded /\ PageTypes'
      /\ deferred' \in BOOLEAN /\ latest' \in {"effect", latest} /\ whole' \in BOOLEAN
      /\ \A r \in pages' : r \in pages \/ r.answer = None
  <2>1. CASE list.archived
    <3>1. Fetch(s, deferred)
      BY <1>2, <2>1 DEF NewChat
    <3> QED
      BY <1>1, <1>3, <1>4, <3>1, FetchIs
  <2>2. CASE ~list.archived
    <3>1. list' = s /\ UNCHANGED <<deferred, latest, whole, pages>>
      BY <1>2, <2>2 DEF NewChat
    <3>2. PageTypes'
      BY <1>3, <1>4, <3>1, SamePages DEF Types, Reloading, Reduces
    <3> QED
      BY <1>3, <3>1, <3>2 DEF Reduces, Types, TabTypes
  <2> QED
    BY <2>1, <2>2
<1>6. KnownIds'
  BY <1>4, <1>5, KnownStep DEF Types
<1>7. ServerTypes' /\ TabTypes' /\ CallTypes' /\ FlowTypes' /\ DialogTypes'
  BY <1>4, <1>5 DEF Types, ServerTypes, TabTypes, CallTypes, FlowTypes, DialogTypes
<1> QED
  BY <1>5, <1>6, <1>7 DEF Types

(* The server answers a request for a page.                                *)
LEMMA AnswerPageIs ==
  ASSUME Types, NEW r \in pages, AnswerPage(r)
  PROVE  \E new : /\ pages' = (pages \ {r}) \cup {new} /\ new.kind = r.kind /\ GoodPage(new)
                  /\ new.answer \in Answers
                  /\ \A c \in new.answer.rows : c.id \in DOMAIN rows /\ rows[c.id] = c
<1>1. r \in PageSet
  BY DEF Types, PageTypes, GoodPage
<1>2. /\ PageOf(r) \in Answers /\ IsFiniteSet(PageOf(r).rows) /\ Distinct(PageOf(r).rows)
      /\ \A c \in PageOf(r).rows : c.id \in DOMAIN rows /\ rows[c.id] = c
  BY <1>1, PageOfIs DEF Types
<1>3. PICK p : p = PageOf(r)
  OBVIOUS
<1>4. PICK new : new = [r EXCEPT !.answer = p]
  OBVIOUS
<1>5. new \in PageSet /\ new.kind = r.kind /\ new.answer = p
  BY <1>1, <1>2, <1>3, <1>4 DEF PageSet
<1> QED
  BY <1>2, <1>3, <1>4, <1>5 DEF AnswerPage, GoodPage

(* It knows what the page consists of.                                     *)
LEMMA AnswerPageTypes ==
  ASSUME Types, NEW r \in pages, AnswerPage(r)
  PROVE  Types'
<1>1. PICK new : /\ pages' = (pages \ {r}) \cup {new} /\ new.kind = r.kind /\ GoodPage(new)
                 /\ \A c \in new.answer.rows : c.id \in DOMAIN rows /\ rows[c.id] = c
  BY AnswerPageIs
<1>2. UNCHANGED <<rows, clock, used, list, latest, localOnly, deferred, active, calls, dialog,
                  batches, flow, moves, failed, whole, unsure>>
  BY DEF AnswerPage, serverVars, listVars, dialogs, bounds, history
<1>3. PageTypes'
  BY <1>1, <1>2 DEF Types, PageTypes, Reloading
<1>4. Ids(new.answer.rows) \subseteq used
  BY <1>1 DEF Ids, Types, ServerTypes
<1>5. KnownIds'
  BY <1>1, <1>2, <1>4, KnownStep DEF Types
<1>6. GoodList(list') /\ ServerTypes' /\ TabTypes' /\ CallTypes' /\ FlowTypes' /\ DialogTypes'
  BY <1>2 DEF Types, ServerTypes, TabTypes, CallTypes, FlowTypes, DialogTypes
<1> QED
  BY <1>3, <1>5, <1>6 DEF Types

(* After a reload nothing of the flow is left.                             *)
LEMMA AfterReloadIs ==
  ASSUME Types, NEW r \in pages, AfterReload(r)
  PROVE  /\ CallTypes' /\ FlowTypes' /\ unsure' = unsure
         /\ active' \in used \cup {None}
         /\ \A k \in calls' :
              \/ k \in calls
              \/ Reloading /\ k.op = "look" /\ k.id = flow.id /\ k.id \in used /\ k.answer = None
         /\ flow' = flow \/ flow' = None
         /\ Reloading' = (Reloading /\ r.kind # "reload")
         /\ r.kind = "reload" => Reloading /\ flow' = None
<1>1. CASE r.kind # "reload"
  BY <1>1 DEF AfterReload, Types, CallTypes, FlowTypes, KnownIds, Reloading
<1>2. CASE r.kind = "reload"
  <2>1. Reloading /\ GoodFlow(flow) /\ flow.id \in Conversations /\ flow.id \in used
    BY <1>2, DistinctAssumption
    DEF Types, PageTypes, FlowTypes, Reloading, GoodFlow, KnownIds
  <2>2. \A k \in calls : k.op \notin OfFlow
    BY <2>1 DEF Types, CallTypes, Waits, Reloading, OfFlow
  <2>3. PICK look : look = Call("look", flow.id, <<>>, FALSE, FALSE)
    OBVIOUS
  <2>4. GoodCall(look) /\ look.op = "look" /\ look.id = flow.id /\ look.answer = None
    BY <2>1, <2>3, LookIs
  <2>5. /\ flow' = None /\ unsure' = unsure
        /\ \/ active' = active /\ calls' = calls
           \/ active' = flow.id /\ calls' = {k \in calls : k.op # "look"} \cup {look}
    BY <1>2, <2>3 DEF AfterReload, Call
  <2>6. \A k \in calls' : (k \in calls \/ k = look) /\ k.op \notin OfFlow
    BY <2>2, <2>4, <2>5 DEF OfFlow
  <2>7. CallTypes'
    BY <2>4, <2>5, <2>6 DEF Types, CallTypes, Waits, OfFlow
  <2>8. FlowTypes' /\ ~Reloading'
    BY <2>5 DEF FlowTypes, Reloading
  <2>9. active' \in used \cup {None}
    BY <2>1, <2>5 DEF Types, KnownIds
  <2>10. \A k \in calls' :
           \/ k \in calls
           \/ Reloading /\ k.op = "look" /\ k.id = flow.id /\ k.id \in used /\ k.answer = None
    BY <2>1, <2>4, <2>6
  <2>11. Reloading' = (Reloading /\ r.kind # "reload")
    BY <1>2, <2>8 DEF Reloading
  <2> QED
    BY <1>2, <2>1, <2>5, <2>7, <2>8, <2>9, <2>10, <2>11
<1> QED
  BY <1>1, <1>2

(* The end of a request for a page.                                        *)
LEMMA SettledIs ==
  ASSUME NEW s, GoodList(s), NEW r
  PROVE  /\ GoodList(Settled(s, r)) /\ Settled(s, r).loaded = s.loaded
         /\ Settled(s, r).loading = FALSE
         /\ Settled(s, r).more = IF r.kind = "append" THEN FALSE ELSE s.more
<1>1. s \in Lists
  BY DEF GoodList
<1>2. PICK t : t = Settled(s, r)
  OBVIOUS
<1>3. /\ t \in Lists /\ t.loaded = s.loaded /\ t.shown = s.shown
      /\ t.search = s.search /\ t.archived = s.archived /\ t.folder = s.folder
      /\ t.tags = s.tags /\ t.selecting = s.selecting /\ t.selected = s.selected
      /\ t.loading = FALSE /\ t.more = IF r.kind = "append" THEN FALSE ELSE s.more
  BY <1>1, <1>2 DEF Settled, Lists
<1>4. Visible(t) = Visible(s)
  BY <1>1, <1>3, VisibleIs
<1> QED
  BY <1>2, <1>3, <1>4 DEF GoodList

(* What an answer makes of the list.                                       *)
LEMMA ApplyPageIs ==
  ASSUME Types, NEW r \in pages, ApplyPage(r)
  PROVE  /\ GoodList(list') /\ list'.loading = FALSE
         /\ list'.more = IF r.kind = "append" THEN FALSE ELSE list.more
         /\ IF Current(r) THEN list'.loaded \subseteq list.loaded \cup r.answer.rows
                          ELSE list'.loaded = list.loaded
         /\ r.answer \in Answers /\ Ids(r.answer.rows) \subseteq used
<1>1. /\ GoodList(list) /\ r.answer \in Answers /\ Distinct(r.answer.rows) /\ r.from \in Nat
      /\ IsFiniteSet(r.answer.rows) /\ Ids(r.answer.rows) \subseteq used
  BY DEF ApplyPage, Types, PageTypes, GoodPage, PageSet, KnownIds
<1>2. CASE Current(r) /\ r.kind = "append"
  <2>1. PICK count \in Nat : count = r.from + Cardinality(r.answer.rows)
    BY <1>1, FS_CardinalityType
  <2>2. PICK s : s = AppendPage(list, r.answer, count)
    OBVIOUS
  <2>3. Reduces(s, list) /\ s.loaded \subseteq list.loaded \cup r.answer.rows
    BY <1>1, <2>2, AppendPageIs
  <2>4. list' = Settled(s, r)
    BY <1>2, <2>1, <2>2 DEF ApplyPage
  <2> QED
    BY <1>1, <1>2, <2>3, <2>4, SettledIs DEF Reduces
<1>3. CASE Current(r) /\ r.kind # "append"
  <2>1. PICK s : s = FirstPage(list, r.answer, active, r.search)
    OBVIOUS
  <2>2. Reduces(s, list) /\ s.loaded \subseteq list.loaded \cup r.answer.rows
    BY <1>1, <2>1, FirstPageIs
  <2>3. list' = Settled(s, r)
    BY <1>3, <2>1 DEF ApplyPage
  <2> QED
    BY <1>1, <1>3, <2>2, <2>3, SettledIs DEF Reduces
<1>4. CASE ~Current(r)
  <2>1. list' = Settled(list, r)
    BY <1>4 DEF ApplyPage
  <2> QED
    BY <1>1, <1>4, <2>1, SettledIs
<1> QED
  BY <1>2, <1>3, <1>4

(* A page is applied or dropped, and the loading ends.                     *)
LEMMA PageEndsTypes ==
  ASSUME Types, NEW r \in pages, ApplyPage(r) \/ PageFails(r)
  PROVE  Types'
<1>1. /\ GoodList(list') /\ list'.loading = FALSE
      /\ list'.more = IF r.kind = "append" THEN FALSE ELSE list.more
      /\ \A c \in list'.loaded : c \in list.loaded \/ c.id \in used
  <2>1. CASE ApplyPage(r)
    BY <2>1, ApplyPageIs DEF Ids
  <2>2. CASE PageFails(r)
    <3>1. GoodList(list) /\ list' = Settled(list, r)
      BY <2>2 DEF PageFails, Types
    <3> QED
      BY <3>1, SettledIs
  <2> QED
    BY <2>1, <2>2
<1>2. AfterReload(r) /\ pages' = pages \ {r}
  BY DEF ApplyPage, PageFails
<1>3. /\ CallTypes' /\ FlowTypes' /\ unsure' = unsure
      /\ active' \in used \cup {None}
      /\ \A k \in calls' : k \in calls \/ k.id \in used
      /\ flow' = flow \/ flow' = None
      /\ Reloading' = (Reloading /\ r.kind # "reload")
  BY <1>2, AfterReloadIs
<1>4. /\ moves' \in Nat /\ failed' \in BOOLEAN /\ whole' \in BOOLEAN
      /\ localOnly' \subseteq localOnly
      /\ UNCHANGED <<rows, clock, used, latest, deferred, dialog, batches>>
  <2>1. CASE ApplyPage(r)
    BY <2>1 DEF ApplyPage, serverVars, dialogs, bounds, Types, TabTypes
  <2>2. CASE PageFails(r)
    BY <2>2, MoveIs DEF PageFails, Fault, serverVars, dialogs, Types, TabTypes
  <2> QED
    BY <2>1, <2>2
<1>5. PageTypes'
  <2>1. \A q \in pages : q.kind = r.kind => q = r
    BY DEF Types, PageTypes
  <2> QED
    BY <1>1, <1>2, <1>3, <2>1 DEF Types, PageTypes
<1>6. KnownIds'
  BY <1>1, <1>2, <1>3, <1>4, KnownStep DEF Types
<1>7. ServerTypes' /\ TabTypes' /\ DialogTypes'
  <2>1. used \subseteq Conversations
    BY DEF Types, ServerTypes
  <2> QED
    BY <1>3, <1>4, <2>1 DEF Types, ServerTypes, TabTypes, DialogTypes
<1> QED
  BY <1>1, <1>3, <1>5, <1>6, <1>7 DEF Types

(* The server takes a request about one conversation.                      *)
LEMMA ServeIs ==
  ASSUME Types, NEW k \in calls, Serve(k)
  PROVE  /\ ServerTypes' /\ k.id \in DOMAIN rows /\ k.answer = None
         /\ \E new : /\ calls' = (calls \ {k}) \cup {new} /\ GoodCall(new)
                     /\ new.op = k.op /\ new.id = k.id /\ new.answer \in Copy
                     /\ new.answer.id = k.id
                     /\ k.op \notin {"delete", "clean"} =>
                          k.id \in DOMAIN rows' /\ rows'[k.id] = new.answer
         /\ \A i \in DOMAIN rows \ {k.id} : i \in DOMAIN rows' /\ rows'[i] = rows[i]
         /\ k.op \notin Operations \ {"look", "settle"} => rows' = rows
<1>1. /\ ServerTypes /\ GoodCall(k) /\ k \in CallSet /\ k.id \in DOMAIN rows
      /\ rows[k.id] \in Copy /\ rows[k.id].id = k.id /\ k.answer = None
  BY DEF Types, CallTypes, GoodCall, ServerTypes, Serve
<1>2. /\ ServerTypes'
      /\ k.op \notin {"delete", "clean"} => k.id \in DOMAIN rows'
      /\ \A i \in DOMAIN rows \ {k.id} : i \in DOMAIN rows' /\ rows'[i] = rows[i]
      /\ k.op \notin Operations \ {"look", "settle"} => rows' = rows
  <2>1. CASE k.op \in {"patch", "ask"}
    <3>1. PICK new : new = Patched(rows[k.id], k.patch)
      OBVIOUS
    <3>2. new \in Copy /\ new.id = k.id
      BY <1>1, <2>1, <3>1, PatchedIs DEF GoodCall
    <3>3. rows' = [rows EXCEPT ![k.id] = new] /\ clock' = clock + 1 /\ used' = used
      BY <2>1, <3>1 DEF Serve
    <3>4. /\ DOMAIN rows' = DOMAIN rows /\ rows'[k.id] = new
          /\ \A i \in DOMAIN rows \ {k.id} : rows'[i] = rows[i]
      BY <1>1, <3>3
    <3> QED
      BY <1>1, <2>1, <3>2, <3>3, <3>4 DEF ServerTypes, Operations
  <2>2. CASE k.op \in {"delete", "clean"}
    <3>1. /\ rows' = [i \in DOMAIN rows \ {k.id} |-> rows[i]] /\ clock' = clock
          /\ used' = used
      BY <2>2 DEF Serve
    <3>2. /\ DOMAIN rows' = DOMAIN rows \ {k.id} /\ IsFiniteSet(DOMAIN rows \ {k.id})
          /\ \A i \in DOMAIN rows \ {k.id} : rows'[i] = rows[i]
      BY <1>1, <3>1, FS_Subset DEF ServerTypes
    <3> QED
      BY <1>1, <2>2, <3>1, <3>2 DEF ServerTypes, Operations
  <2>3. CASE k.op \in {"look", "settle"}
    <3>1. rows' = rows /\ clock' = clock /\ used' = used
      BY <2>3 DEF Serve
    <3> QED
      BY <1>1, <2>3, <3>1 DEF ServerTypes
  <2> QED
    BY <1>1, <2>1, <2>2, <2>3 DEF CallSet, Operations
<1>3. PICK answer : answer = IF k.id \in DOMAIN rows' THEN rows'[k.id] ELSE rows[k.id]
  OBVIOUS
<1>4. PICK new : new = [k EXCEPT !.answer = answer]
  OBVIOUS
<1>5. answer \in Copy /\ answer.id = k.id
  BY <1>1, <1>2, <1>3 DEF ServerTypes
<1>6. /\ GoodCall(new) /\ new.op = k.op /\ new.id = k.id /\ new.answer = answer
  BY <1>1, <1>4, <1>5 DEF GoodCall, CallSet
<1>7. calls' = (calls \ {k}) \cup {new}
  BY <1>3, <1>4 DEF Serve
<1> QED
  BY <1>1, <1>2, <1>3, <1>5, <1>6, <1>7

(* The request waits for its answer to arrive.                             *)
LEMMA ServeTypes ==
  ASSUME Types, NEW k \in calls, Serve(k)
  PROVE  Types'
<1>1. PICK new : calls' = (calls \ {k}) \cup {new} /\ GoodCall(new)
                 /\ new.op = k.op /\ new.id = k.id
  BY ServeIs
<1>2. ServerTypes'
  BY ServeIs
<1>3. UNCHANGED <<used, list, latest, localOnly, deferred, pages, active, dialog, batches,
                  flow, moves, failed, whole, unsure>>
  BY DEF Serve, listVars, dialogs, bounds, history
<1>4. CallTypes'
  BY <1>1, <1>3 DEF Types, CallTypes, Waits
<1>5. k.id \in used
  BY DEF Types, KnownIds
<1>6. KnownIds'
  BY <1>1, <1>3, <1>5, KnownStep DEF Types
<1>7. PageTypes'
  BY <1>3, SamePages DEF Types, Reloading
<1>8. GoodList(list') /\ TabTypes' /\ FlowTypes' /\ DialogTypes'
  BY <1>3 DEF Types, TabTypes, FlowTypes, DialogTypes
<1> QED
  BY <1>2, <1>4, <1>6, <1>7, <1>8 DEF Types

(* The tab merges an answer.                                               *)
LEMMA MergeTypes ==
  ASSUME Types, Reduces(list', list),
         \A c \in list'.loaded : c \in list.loaded \/ c.id \in used,
         calls' \subseteq calls, active' \in {active, None}, latest' = None,
         localOnly' \subseteq localOnly, whole' \in BOOLEAN,
         flow' = flow \/ (flow' = None /\ ~Reloading /\ \A k \in calls' : k.op \notin OfFlow),
         UNCHANGED <<serverVars, pages, deferred, dialogs, bounds, unsure>>
  PROVE  Types'
<1>1. UNCHANGED <<rows, clock, used, pages, deferred, dialog, batches, moves, failed, unsure>>
  BY DEF serverVars, dialogs, bounds
<1>2. CallTypes' /\ FlowTypes' /\ Reloading' = Reloading
  BY DEF Types, CallTypes, Waits, FlowTypes, Reloading, OfFlow
<1>3. PageTypes'
  BY <1>1, <1>2, SamePages DEF Types, Reduces
<1>4. KnownIds'
  BY <1>1, KnownStep DEF Types, KnownIds
<1>5. ServerTypes' /\ TabTypes' /\ DialogTypes' /\ GoodList(list')
  BY <1>1 DEF Types, ServerTypes, TabTypes, DialogTypes, Reduces
<1> QED
  BY <1>2, <1>3, <1>4, <1>5 DEF Types

(* What the answers of requests about one conversation do to the list.     *)
LEMMA AnswerIs ==
  ASSUME Types, NEW k \in calls, k.answer # None
  PROVE  /\ k.answer \in Copy /\ k.id \in used /\ k.id \in Conversations
         /\ k \in CallSet
  BY DEF Types, CallTypes, GoodCall, CallSet, KnownIds

(* It is merged into the list.                                             *)
LEMMA SyncedIs ==
  ASSUME Types, NEW c \in Copy, NEW search, NEW counting, NEW shifts,
         SyncConversationIntoList(c, search, counting, shifts)
  PROVE  /\ Reduces(list', list) /\ latest' = None /\ localOnly' \subseteq localOnly
         /\ whole' \in BOOLEAN
         /\ \A d \in list'.loaded : d = c \/ (d \in list.loaded /\ d.id # c.id)
<1>1. GoodList(list) /\ list' = Sync(list, c, search, counting)
  BY DEF Types, SyncConversationIntoList
<1>2. latest' = None /\ localOnly' \subseteq localOnly /\ whole' \in BOOLEAN
  BY DEF SyncConversationIntoList, StillLocal, Unfiltered, Types, TabTypes
<1> QED
  BY <1>1, <1>2, SyncIs

(* Answers that change the list.                                           *)
LEMMA ReceiveTypes ==
  ASSUME Types, NEW k \in calls, k.answer # None, Changed(k) \/ Deleted(k) \/ Looked(k),
         UNCHANGED <<serverVars, deferred, dialogs, bounds, unsure>>
  PROVE  Types'
<1>1. k.answer \in Copy /\ k.id \in used /\ k.answer.id = k.id
  BY AnswerIs DEF Types, CallTypes, GoodCall
<1>2. /\ calls' \subseteq calls /\ active' \in {active, None} /\ pages' = pages
      /\ k \notin calls'
  BY DEF Changed, Deleted, Looked, GoHome
<1>3. CASE Changed(k) \/ Looked(k)
  <2>1. PICK search, counting, shifts :
          SyncConversationIntoList(k.answer, search, counting, shifts)
    BY <1>3 DEF Changed, Looked
  <2>2. flow' = flow
    BY <1>3 DEF Changed, Looked
  <2>3. /\ Reduces(list', list) /\ latest' = None /\ localOnly' \subseteq localOnly
        /\ whole' \in BOOLEAN
        /\ \A d \in list'.loaded : d \in list.loaded \/ d.id \in used
    BY <1>1, <2>1, SyncedIs
  <2> QED
    BY <1>2, <2>2, <2>3, MergeTypes
<1>4. CASE Deleted(k)
  <2>1. RemoveConversationFromList(k.id)
    BY <1>4 DEF Deleted
  <2>2. Reduces(list', list) /\ \A d \in list'.loaded : d \in list.loaded
    BY <2>1, RemovedIs DEF Types, Without
  <2>3. latest' = None /\ localOnly' \subseteq localOnly /\ whole' \in BOOLEAN
    BY <2>1 DEF RemoveConversationFromList, Types, TabTypes
  <2>4. flow' = flow \/ (flow' = None /\ ~Reloading /\ \A j \in calls' : j.op \notin OfFlow)
    BY <1>2, <1>4 DEF Deleted, Types, CallTypes, Waits, Reloading, OfFlow
  <2> QED
    BY <1>2, <2>2, <2>3, <2>4, MergeTypes
<1> QED
  BY <1>3, <1>4

(* A flow goes on.                                                         *)
LEMMA PhaseIs ==
  ASSUME NEW f, GoodFlow(f), f.phase # "create", NEW phase \in Phases \ {"made"}
  PROVE  \A g : g = [f EXCEPT !.phase = phase] =>
           /\ GoodFlow(g) /\ g # None /\ g.phase = phase /\ g.id = f.id /\ g.made = f.made
           /\ g.search = f.search /\ g.kind = f.kind
<1>1. f \in Flows
  BY DEF GoodFlow
<1>2. ASSUME NEW g, g = [f EXCEPT !.phase = phase]
      PROVE  /\ g \in Flows /\ g.phase = phase /\ g.id = f.id /\ g.made = f.made
             /\ g.search = f.search /\ g.kind = f.kind
  BY <1>1, <1>2 DEF Flows
<1> QED
  BY <1>2, DistinctAssumption DEF GoodFlow

(* The first page is loaded again.                                         *)
LEMMA ReloadStep ==
  ASSUME Types, ~Reloading, Reloading', NEW search \in BOOLEAN,
         pages' = pages \cup {Reload(search)}, list'.more = list.more
  PROVE  /\ PageTypes' /\ Reload(search).answer = None
         /\ \A r \in pages' : r.kind = "reload" => r.answer = None
<1>1. PICK new : new = Reload(search)
  OBVIOUS
<1>2. list.archived \in BOOLEAN /\ deferred \in BOOLEAN
  BY DEF Types, GoodList, Lists, TabTypes
<1>3. new.kind = "reload" /\ new.answer = None /\ GoodPage(new)
  BY <1>1, <1>2 DEF Reload, Request, GoodPage, PageSet
<1>4. PageTypes'
  BY <1>1, <1>3 DEF Types, PageTypes
<1>5. \A r \in pages' : r.kind = "reload" => r.answer = None
  BY <1>1, <1>3 DEF Types, PageTypes
<1> QED
  BY <1>1, <1>3, <1>4, <1>5

(* The snapshot at the end of a generation.                                *)
LEMMA ReconciledTypes ==
  ASSUME Types, NEW k \in calls, k.answer # None, Reconciled(k),
         UNCHANGED <<serverVars, deferred, dialogs, bounds, unsure>>
  PROVE  Types'
<1>1. /\ k.answer \in Copy /\ k.id \in used /\ k.id \in Conversations /\ k.answer.id = k.id
      /\ k.op = "settle" /\ flow # None /\ GoodFlow(flow) /\ k.id = flow.id
      /\ flow.phase \in {"settle", "refused", "failed"} /\ flow.search \in BOOLEAN
      /\ deferred \in BOOLEAN /\ ~Reloading
  BY AnswerIs
  DEF Types, CallTypes, GoodCall, Waits, FlowTypes, Reconciled, GoodFlow, Flows, TabTypes,
      Reloading
<1>2. \A j \in calls \ {k} : j.op \notin OfFlow
  BY <1>1 DEF Types, CallTypes, OfFlow
<1>3. UNCHANGED <<rows, clock, used, deferred, dialog, batches, moves, failed, unsure, active>>
  BY DEF Reconciled, serverVars, dialogs, bounds
<1>4. PICK s : s = Sync(list, k.answer, deferred, FALSE)
  OBVIOUS
<1>5. Reduces(s, list) /\ \A d \in s.loaded : d \in list.loaded \/ d.id \in used
  BY <1>1, <1>4, SyncIs DEF Types
<1>6. PICK again \in BOOLEAN : again = (flow.phase = "settle")
  OBVIOUS
<1>7. /\ GoodList(list') /\ list'.loaded = s.loaded /\ list'.more = list.more
      /\ list'.loading = (list.loading \/ again)
  <2>1. list' = [s EXCEPT !.loading = s.loading \/ again]
    BY <1>4, <1>6 DEF Reconciled
  <2>2. GoodList(s) /\ s.loading \in BOOLEAN /\ s.loading = list.loading /\ s.more = list.more
    BY <1>5 DEF Reduces, GoodList, Lists
  <2>3. PICK v \in BOOLEAN : v = (s.loading \/ again)
    OBVIOUS
  <2> QED
    BY <2>1, <2>2, <2>3, FlagsAre
<1>8. localOnly' \subseteq localOnly /\ whole' \in BOOLEAN /\ latest' \in {"reload", None}
  BY DEF Reconciled, StillLocal, Unfiltered, Types, TabTypes
<1>9. /\ PageTypes' /\ CallTypes' /\ FlowTypes'
      /\ \A r \in pages' : r \in pages \/ r.answer = None
      /\ \A j \in calls' : j \in calls \/ j.id \in used
      /\ flow' = flow \/ flow' = None \/ flow'.id \in used \cup {None}
  <2>1. CASE flow.phase = "settle"
    <3>1. PICK f : f = [flow EXCEPT !.phase = "reload"]
      OBVIOUS
    <3>2. GoodFlow(f) /\ f # None /\ f.phase = "reload" /\ f.id = flow.id
      BY <1>1, <3>1, PhaseIs DEF Phases
    <3>3. flow' = f /\ calls' = calls \ {k} /\ pages' = pages \cup {Reload(flow.search)}
      BY <2>1, <3>1 DEF Reconciled
    <3>4. Reloading'
      BY <3>2, <3>3 DEF Reloading
    <3>5. PageTypes' /\ Reload(flow.search).answer = None
      BY <1>1, <1>7, <3>3, <3>4, ReloadStep
    <3>6. CallTypes'
      BY <1>2, <3>3 DEF Types, CallTypes, Waits, OfFlow
    <3>7. FlowTypes'
      BY <3>2, <3>3 DEF FlowTypes
    <3> QED
      BY <1>1, <3>2, <3>3, <3>5, <3>6, <3>7
  <2>2. CASE flow.phase # "settle" /\ ~(flow.phase = "refused" /\ flow.made)
    <3>1. flow' = None /\ calls' = calls \ {k} /\ pages' = pages
      BY <2>2 DEF Reconciled
    <3>2. ~Reloading'
      BY <3>1 DEF Reloading
    <3>3. ~again
      BY <1>6, <2>2
    <3>4. PageTypes'
      BY <1>1, <1>7, <3>1, <3>2, <3>3 DEF Types, PageTypes
    <3>5. CallTypes' /\ FlowTypes'
      BY <1>2, <3>1 DEF Types, CallTypes, Waits, OfFlow, FlowTypes
    <3> QED
      BY <3>1, <3>4, <3>5
  <2>3. CASE flow.phase = "refused" /\ flow.made
    <3>1. PICK f : f = [flow EXCEPT !.phase = "clean"]
      OBVIOUS
    <3>2. GoodFlow(f) /\ f # None /\ f.phase = "clean" /\ f.id = flow.id
      BY <1>1, <3>1, PhaseIs DEF Phases
    <3>3. PICK new : new = Call("clean", k.id, <<>>, FALSE, TRUE)
      OBVIOUS
    <3>4. GoodCall(new) /\ new.op = "clean" /\ new.id = k.id
      BY <1>1, <3>3, PlainIs
    <3>5. flow' = f /\ calls' = (calls \ {k}) \cup {new} /\ pages' = pages
      BY <2>3, <3>1, <3>3 DEF Reconciled
    <3>6. ~Reloading'
      BY <3>2, <3>5 DEF Reloading
    <3>7. ~again
      BY <1>6, <2>3
    <3>8. PageTypes'
      BY <1>1, <1>7, <3>5, <3>6, <3>7 DEF Types, PageTypes
    <3>9. CallTypes'
      BY <1>1, <1>2, <3>2, <3>4, <3>5 DEF Types, CallTypes, Waits, OfFlow
    <3>10. FlowTypes'
      BY <3>2, <3>5 DEF FlowTypes
    <3> QED
      BY <1>1, <3>2, <3>4, <3>5, <3>8, <3>9, <3>10
  <2> QED
    BY <2>1, <2>2, <2>3
<1>10. KnownIds'
  BY <1>3, <1>5, <1>7, <1>9, KnownStep DEF Types
<1>11. ServerTypes' /\ TabTypes' /\ DialogTypes'
  BY <1>3, <1>8 DEF Types, ServerTypes, TabTypes, DialogTypes
<1> QED
  BY <1>7, <1>9, <1>10, <1>11 DEF Types

(* A request fails, or its conversation is gone.                           *)
LEMMA CallFailsTypes ==
  ASSUME Types, NEW k \in calls, CallFails(k)
  PROVE  Types'
<1>1. /\ k.id \in Conversations /\ k.op \in Operations /\ Waits(flow, k) /\ GoodList(list)
  BY DEF Types, CallTypes, GoodCall, CallSet
<1>2. /\ calls' \subseteq calls \ {k} /\ active' \in {active, None}
      /\ moves' \in Nat /\ failed' \in BOOLEAN /\ unsure' = unsure \cup {k.id}
      /\ UNCHANGED <<rows, clock, used, localOnly, deferred, dialog, batches, whole>>
  BY MoveIs
  DEF CallFails, GoHome, Fault, bounds, serverVars, dialogs, Types, TabTypes
<1>3. /\ GoodList(list') /\ list'.loaded = list.loaded /\ PageTypes' /\ CallTypes' /\ FlowTypes'
      /\ latest' \in {latest, "reload"}
      /\ \A r \in pages' : r \in pages \/ r.answer = None
      /\ flow' = flow \/ flow' = None \/ (flow # None /\ flow'.id = flow.id)
  <2>1. CASE k.op = "settle" /\ flow.phase = "settle"
    <3>1. flow # None /\ GoodFlow(flow) /\ flow.search \in BOOLEAN /\ ~Reloading
      BY <1>1, <2>1 DEF Waits, Types, FlowTypes, GoodFlow, Flows, Reloading
    <3>2. PICK f : f = [flow EXCEPT !.phase = "reload"]
      OBVIOUS
    <3>3. GoodFlow(f) /\ f # None /\ f.phase = "reload" /\ f.id = flow.id
      BY <2>1, <3>1, <3>2, PhaseIs DEF Phases
    <3>4. /\ flow' = f /\ pages' = pages \cup {Reload(flow.search)} /\ latest' = "reload"
          /\ list' = [list EXCEPT !.loading = TRUE]
      BY <2>1, <3>2 DEF CallFails
    <3>5. PICK s : s = [list EXCEPT !.loading = TRUE]
      OBVIOUS
    <3>6. GoodList(s) /\ s.loaded = list.loaded /\ s.more = list.more
      BY <1>1, <3>5, FlagsAre
    <3>7. Reloading'
      BY <3>3, <3>4 DEF Reloading
    <3>8. PageTypes' /\ Reload(flow.search).answer = None
      BY <3>1, <3>4, <3>5, <3>6, <3>7, ReloadStep
    <3>9. \A j \in calls' : j \in calls /\ j.op \notin OfFlow
      BY <1>2, <2>1 DEF Types, CallTypes, OfFlow
    <3>10. CallTypes'
      BY <3>9 DEF Types, CallTypes, Waits, OfFlow
    <3>11. FlowTypes'
      BY <3>3, <3>4 DEF FlowTypes
    <3> QED
      BY <3>1, <3>3, <3>4, <3>5, <3>6, <3>8, <3>10, <3>11
  <2>2. CASE ~(k.op = "settle" /\ flow.phase = "settle")
    <3>1. /\ flow' = IF k.op \in OfFlow THEN None ELSE flow
          /\ UNCHANGED <<pages, latest, list>>
      BY <2>2 DEF CallFails, OfFlow
    <3>2. k.op \in OfFlow => ~Reloading /\ \A j \in calls' : j.op \notin OfFlow
      BY <1>1, <1>2 DEF Types, CallTypes, Waits, OfFlow, Reloading
    <3>3. Reloading' = Reloading
      BY <3>1, <3>2 DEF Reloading
    <3>4. CallTypes' /\ FlowTypes'
      BY <1>2, <3>1, <3>2 DEF Types, CallTypes, Waits, OfFlow, FlowTypes
    <3>5. PageTypes'
      BY <3>1, <3>3, SamePages DEF Types
    <3> QED
      BY <1>1, <3>1, <3>4, <3>5
  <2> QED
    BY <2>1, <2>2
<1>4. flow' = flow \/ flow' = None \/ flow'.id \in used \cup {None}
  BY <1>3 DEF Types, KnownIds
<1>5. KnownIds'
  BY <1>2, <1>3, <1>4, KnownStep DEF Types, KnownIds
<1>6. ServerTypes' /\ TabTypes' /\ DialogTypes'
  BY <1>1, <1>2, <1>3 DEF Types, ServerTypes, TabTypes, DialogTypes
<1> QED
  BY <1>3, <1>5, <1>6 DEF Types

(* A flow begins, and goes on without a request.                           *)
LEMMA FlowStep ==
  ASSUME Types, flow' = None \/ GoodFlow(flow'), ~Reloading, ~Reloading',
         \A k \in calls' : k \in calls \/ (GoodCall(k) /\ k.id \in used'),
         CallTypes', ServerTypes', used \subseteq used',
         flow' = None \/ flow'.id \in used' \cup {None},
         moves' \in Nat, failed' \in BOOLEAN, unsure' \subseteq Conversations,
         UNCHANGED <<list, latest, localOnly, deferred, pages, active, dialog, batches, whole>>
  PROVE  Types'
<1>1. KnownIds'
  BY KnownStep DEF Types
<1>2. PageTypes'
  BY SamePages DEF Types, Reloading
<1>3. GoodList(list') /\ TabTypes' /\ FlowTypes' /\ DialogTypes'
  BY DEF Types, TabTypes, FlowTypes, DialogTypes
<1> QED
  BY <1>1, <1>2, <1>3 DEF Types

(* A message is sent or a file imported.                                   *)
LEMMA BeginTypes ==
  ASSUME Types, NEW kind \in {"send", "import"}, Begin(kind)
  PROVE  Types'
<1>1. /\ flow = None /\ moves' \in Nat /\ failed' = failed /\ deferred \in BOOLEAN
      /\ active \in used \cup {None} /\ active \in Conversations \cup {None}
      /\ UNCHANGED <<rows, clock, used, list, latest, localOnly, deferred, pages, active, calls,
                     dialog, batches, whole>>
  BY MoveIs DEF Begin, Types, TabTypes, KnownIds, serverVars, listVars, dialogs
<1>2. PICK f : f = [kind |-> kind, search |-> deferred,
              id |-> IF kind = "send" THEN active ELSE None, row |-> None,
              made |-> kind = "import" \/ active = None,
              phase |-> IF kind = "send" /\ active # None THEN "run" ELSE "create"]
  OBVIOUS
<1>3. PICK phase \in {"run", "create"}, made \in BOOLEAN, id \in Conversations \cup {None} :
        /\ f = [kind |-> kind, search |-> deferred, id |-> id, row |-> None, made |-> made,
                phase |-> phase]
        /\ id \in used \cup {None} /\ (phase = "run" => id \in Conversations)
  BY <1>1, <1>2
<1>4. f \in Flows /\ f.id = id /\ f.phase = phase
  BY <1>1, <1>3 DEF Flows, Phases
<1>5. GoodFlow(f) /\ f.phase # "reload"
  BY <1>3, <1>4 DEF GoodFlow
<1>6. flow' = f
  BY <1>2 DEF Begin
<1>7. unsure' \subseteq Conversations
  BY <1>1 DEF Begin, Types, TabTypes, CallTypes, GoodCall, CallSet
<1>8. CallTypes' /\ ServerTypes' /\ ~Reloading /\ ~Reloading'
  BY <1>1, <1>5, <1>6 DEF Types, CallTypes, Waits, ServerTypes, Reloading
<1> QED
  BY <1>1, <1>3, <1>4, <1>5, <1>6, <1>7, <1>8, FlowStep DEF Types, TabTypes, KnownIds

(* A conversation is made.                                                 *)
LEMMA CreateIs ==
  ASSUME Types, flow # None, NEW i \in Conversations, NEW folder \in NewPlaces,
         Create(i, folder)
  PROVE  /\ ServerTypes' /\ GoodFlow(flow') /\ flow'.id = i /\ flow'.phase = "made"
         /\ i \notin used /\ used' = used \cup {i} /\ flow.phase = "create"
         /\ i \in DOMAIN rows' /\ rows'[i] = flow'.row
         /\ DOMAIN rows \subseteq DOMAIN rows' /\ \A j \in DOMAIN rows : rows'[j] = rows[j]
<1>1. /\ ServerTypes /\ flow \in Flows /\ folder \in Places /\ i \notin used
      /\ i \notin DOMAIN rows /\ flow.phase = "create"
  BY DistinctAssumption DEF Types, FlowTypes, GoodFlow, ServerTypes, Create
<1>2. PICK row : row = [id |-> i, pinned |-> FALSE, hit |-> FALSE, archived |-> FALSE,
                        folder |-> folder, tags |-> {}, at |-> clock]
  OBVIOUS
<1>3. row \in Copy /\ row.id = i
  BY <1>1, <1>2 DEF Copy, ServerTypes
<1>4. /\ rows' = [j \in DOMAIN rows \cup {i} |-> IF j = i THEN row ELSE rows[j]]
      /\ flow' = [flow EXCEPT !.id = i, !.row = row, !.phase = "made"]
      /\ used' = used \cup {i} /\ clock' = clock + 1
  BY <1>2 DEF Create
<1>5. /\ flow' \in Flows /\ flow'.id = i /\ flow'.row = row /\ flow'.phase = "made"
  BY <1>1, <1>3, <1>4 DEF Flows, Phases
<1>6. GoodFlow(flow')
  BY <1>3, <1>5 DEF GoodFlow
<1>7. /\ DOMAIN rows' = DOMAIN rows \cup {i} /\ rows'[i] = row
      /\ \A j \in DOMAIN rows : rows'[j] = rows[j]
  BY <1>1, <1>4
<1>8. IsFiniteSet(DOMAIN rows \cup {i})
  BY <1>1, FS_AddElement DEF ServerTypes
<1>9. ServerTypes'
  BY <1>1, <1>3, <1>4, <1>7, <1>8 DEF ServerTypes
<1> QED
  BY <1>1, <1>4, <1>5, <1>6, <1>7, <1>9

(* The flow has its conversation,                                          *)
LEMMA CreateTypes ==
  ASSUME Types, flow # None, NEW i \in Conversations, NEW folder \in NewPlaces,
         Create(i, folder)
  PROVE  Types'
<1>1. /\ ServerTypes' /\ GoodFlow(flow') /\ flow'.id = i /\ flow'.phase = "made"
      /\ used' = used \cup {i} /\ flow.phase = "create"
  BY CreateIs
<1>2. UNCHANGED <<list, latest, localOnly, deferred, pages, active, calls, dialog, batches,
                  moves, failed, whole, unsure>>
  BY DEF Create, listVars, dialogs, bounds, history
<1>3. CallTypes' /\ ~Reloading /\ ~Reloading'
  BY <1>1, <1>2 DEF Types, CallTypes, Waits, Reloading
<1> QED
  BY <1>1, <1>2, <1>3, FlowStep DEF Types, TabTypes, KnownIds

(* or ends without one.                                                    *)
LEMMA CreateFailsTypes ==
  ASSUME Types, flow # None, CreateFails
  PROVE  Types'
<1>1. /\ moves' \in Nat /\ failed' \in BOOLEAN /\ flow' = None /\ flow.phase = "create"
      /\ UNCHANGED <<rows, clock, used, list, latest, localOnly, deferred, pages, active, calls,
                     dialog, batches, whole, unsure>>
  BY MoveIs DEF CreateFails, Fault, serverVars, listVars, dialogs, history
<1>2. CallTypes' /\ ServerTypes' /\ ~Reloading /\ ~Reloading'
  BY <1>1 DEF Types, CallTypes, Waits, ServerTypes, Reloading
<1> QED
  BY <1>1, <1>2, FlowStep DEF Types, TabTypes, KnownIds

(* It enters the list.                                                     *)
LEMMA CreatedIs ==
  ASSUME Types, flow # None, Created
  PROVE  /\ GoodFlow(flow) /\ flow.phase = "made" /\ flow.row \in Copy
         /\ flow.row.id = flow.id /\ flow.id \in used /\ flow.id \in Conversations
         /\ \E s : /\ s = Inserted(flow.row, flow.search) /\ Reduces(s, list)
                   /\ \A d \in s.loaded : d = flow.row \/ (d \in list.loaded /\ d.id # flow.id)
                   /\ IF flow.kind = "import" THEN list' = [s EXCEPT !.loading = TRUE]
                                              ELSE list' = s
         /\ GoodFlow(flow') /\ flow'.id = flow.id
         /\ flow'.phase = IF flow.kind = "import" THEN "reload" ELSE "run"
<1>1. /\ GoodFlow(flow) /\ flow \in Flows /\ flow.phase = "made" /\ flow.row \in Copy
      /\ flow.row.id = flow.id /\ flow.id \in Conversations /\ flow.id \in used
  BY DistinctAssumption DEF Types, FlowTypes, GoodFlow, Created, KnownIds
<1>2. PICK s : s = Inserted(flow.row, flow.search)
  OBVIOUS
<1>3. /\ Reduces(s, list)
      /\ \A d \in s.loaded : d = flow.row \/ (d \in list.loaded /\ d.id # flow.id)
  BY <1>1, <1>2, InsertedIs DEF Types
<1>4. IF flow.kind = "import" THEN list' = [s EXCEPT !.loading = TRUE] ELSE list' = s
  BY <1>2 DEF Created
<1>5. PICK phase \in {"reload", "run"} : phase = IF flow.kind = "import" THEN "reload" ELSE "run"
  OBVIOUS
<1>6. flow' = [flow EXCEPT !.phase = phase, !.row = None]
  BY <1>5 DEF Created
<1>7. flow' \in Flows /\ flow'.phase = phase /\ flow'.id = flow.id
  BY <1>1, <1>6 DEF Flows, Phases
<1>8. GoodFlow(flow')
  BY <1>1, <1>7 DEF GoodFlow
<1> QED
  BY <1>1, <1>2, <1>3, <1>4, <1>5, <1>7, <1>8

(* A send opens it, an import loads the first page again.                  *)
LEMMA CreatedTypes ==
  ASSUME Types, flow # None, Created
  PROVE  Types'
<1>1. /\ GoodFlow(flow) /\ flow.phase = "made" /\ flow.row.id = flow.id /\ flow.id \in used
      /\ flow.id \in Conversations /\ GoodFlow(flow') /\ flow'.id = flow.id
      /\ flow'.phase = IF flow.kind = "import" THEN "reload" ELSE "run"
      /\ flow.row \in Copy
  BY CreatedIs
<1>2. PICK s : /\ s = Inserted(flow.row, flow.search) /\ Reduces(s, list)
               /\ \A d \in s.loaded : d = flow.row \/ (d \in list.loaded /\ d.id # flow.id)
               /\ IF flow.kind = "import" THEN list' = [s EXCEPT !.loading = TRUE]
                                          ELSE list' = s
  BY CreatedIs
<1>3. /\ calls' \subseteq calls /\ active' \in {active, flow.id} /\ latest' \in {latest, "reload"}
      /\ UNCHANGED <<rows, clock, used, deferred, dialog, batches, moves, failed, unsure>>
  BY DEF Created, NotLooking, serverVars, dialogs, bounds
<1>4. flow.search \in BOOLEAN /\ flow' # None /\ ~Reloading
  BY <1>1, DistinctAssumption DEF GoodFlow, Flows, Reloading
<1>5. localOnly' \subseteq Conversations /\ whole' \in BOOLEAN
  BY <1>1 DEF Created, NowLocal, Unfiltered, Types, TabTypes
<1>6. CallTypes' /\ FlowTypes'
  BY <1>1, <1>3 DEF Types, CallTypes, Waits, FlowTypes
<1>7. /\ GoodList(list') /\ list'.loaded = s.loaded /\ PageTypes'
      /\ \A r \in pages' : r \in pages \/ r.answer = None
  <2>1. CASE flow.kind = "import"
    <3>1. PICK t : t = [s EXCEPT !.loading = TRUE]
      OBVIOUS
    <3>2. GoodList(t) /\ t.loaded = s.loaded /\ t.more = list.more
      <4>1. GoodList(s) /\ s.more = list.more
        BY <1>2 DEF Reduces
      <4>2. PICK v \in BOOLEAN : v = TRUE
        OBVIOUS
      <4>3. t = [s EXCEPT !.loading = v]
        BY <3>1, <4>2
      <4> QED
        BY <4>1, <4>3, FlagsAre
    <3>3. list' = t /\ pages' = pages \cup {Reload(flow.search)}
      BY <1>2, <2>1, <3>1 DEF Created
    <3>4. Reloading'
      BY <1>1, <1>4, <2>1 DEF Reloading
    <3>5. PageTypes' /\ Reload(flow.search).answer = None
      BY <1>4, <3>2, <3>3, <3>4, ReloadStep
    <3> QED
      BY <3>2, <3>3, <3>5
  <2>2. CASE flow.kind # "import"
    <3>1. list' = s /\ pages' = pages
      BY <1>2, <2>2 DEF Created
    <3>2. Reloading' = Reloading
      BY <1>1, <1>4, <2>2 DEF Reloading
    <3>3. PageTypes'
      BY <1>2, <3>1, <3>2, SamePages DEF Types, Reduces
    <3> QED
      BY <1>2, <3>1, <3>3 DEF Reduces
  <2> QED
    BY <2>1, <2>2
<1>8. \A d \in list'.loaded : d \in list.loaded \/ d.id \in used
  BY <1>1, <1>2, <1>7
<1>9. KnownIds'
  BY <1>1, <1>3, <1>7, <1>8, KnownStep DEF Types, KnownIds
<1>10. ServerTypes' /\ TabTypes' /\ DialogTypes'
  BY <1>1, <1>3, <1>5 DEF Types, ServerTypes, TabTypes, DialogTypes
<1> QED
  BY <1>6, <1>7, <1>9, <1>10 DEF Types

(* A generation: its start, and the snapshot that is asked for at its end. *)
LEMMA RunTypes ==
  ASSUME Types, flow # None, Run
  PROVE  Types'
<1>1. /\ GoodFlow(flow) /\ flow.phase = "run" /\ flow.id \in DOMAIN rows /\ ServerTypes
      /\ flow.id \in used
  BY DEF Types, FlowTypes, Run, ServerTypes
<1>2. /\ rows' = [rows EXCEPT ![flow.id].at = clock] /\ clock' = clock + 1
      /\ flow' = [flow EXCEPT !.phase = "ran"]
      /\ UNCHANGED <<used, list, latest, localOnly, deferred, pages, active, calls, dialog,
                     batches, moves, failed, whole, unsure>>
  BY DEF Run, listVars, dialogs, bounds, history
<1>3. PICK f : f = [flow EXCEPT !.phase = "ran"]
  OBVIOUS
<1>4. GoodFlow(f) /\ f # None /\ f.phase = "ran" /\ f.id = flow.id
  BY <1>1, <1>3, PhaseIs DEF Phases
<1>5. ServerTypes'
  <2>1. PICK row : row = [rows[flow.id] EXCEPT !.at = clock]
    OBVIOUS
  <2>2. row \in Copy /\ row.id = flow.id
    BY <1>1, <2>1 DEF ServerTypes, Copy
  <2>3. rows' = [rows EXCEPT ![flow.id] = row]
    BY <1>2, <2>1
  <2> QED
    BY <1>1, <1>2, <2>2, <2>3 DEF ServerTypes
<1>6. CallTypes' /\ ~Reloading /\ ~Reloading'
  BY <1>1, <1>2, <1>3, <1>4 DEF Types, CallTypes, Waits, Reloading
<1> QED
  BY <1>1, <1>2, <1>3, <1>4, <1>5, <1>6, FlowStep DEF Types, TabTypes, KnownIds

(* The generation ended, or failed.                                        *)
LEMMA SettleTypes ==
  ASSUME Types, flow # None, RunEnds \/ RunFails
  PROVE  Types'
<1>1. PICK phase \in {"settle", "refused", "failed"} :
        Settle(phase) /\ flow.phase \in {"run", "ran"}
  BY DEF RunEnds, RunFails
<1>2. /\ GoodFlow(flow) /\ flow.id \in Conversations /\ flow.id \in used
  BY <1>1, DistinctAssumption DEF Types, FlowTypes, GoodFlow, KnownIds
<1>3. PICK f : f = [flow EXCEPT !.phase = phase]
  OBVIOUS
<1>4. GoodFlow(f) /\ f # None /\ f.phase = phase /\ f.id = flow.id
  BY <1>1, <1>2, <1>3, PhaseIs DEF Phases
<1>5. PICK new : new = Call("settle", flow.id, <<>>, FALSE, FALSE)
  OBVIOUS
<1>6. GoodCall(new) /\ new.op = "settle" /\ new.id = flow.id
  BY <1>2, <1>5, PlainIs
<1>7. /\ flow' = f /\ calls' = calls \cup {new}
      /\ unsure' = unsure \cup {k.id : k \in {j \in calls : j.id = flow.id}}
      /\ UNCHANGED <<rows, clock, used, list, latest, localOnly, deferred, pages, active, dialog,
                     batches, whole>>
  BY <1>1, <1>3, <1>5 DEF Settle, serverVars, listVars, dialogs
<1>8. moves' \in Nat /\ failed' \in BOOLEAN
  BY MoveIs DEF RunEnds, RunFails, Fault, bounds, Types, TabTypes
<1>9. \A k \in calls : k.op \notin OfFlow
  BY <1>1 DEF Types, CallTypes, Waits, OfFlow
<1>10. CallTypes'
  BY <1>1, <1>4, <1>6, <1>7, <1>9 DEF Types, CallTypes, Waits, OfFlow
<1>11. ServerTypes' /\ ~Reloading /\ ~Reloading'
  BY <1>1, <1>4, <1>7 DEF Types, ServerTypes, Reloading
<1>12. unsure' \subseteq Conversations
  BY <1>2, <1>7 DEF Types, TabTypes
<1> QED
  BY <1>2, <1>4, <1>6, <1>7, <1>8, <1>10, <1>11, <1>12, FlowStep

(* What the steps do.                                                      *)
LEMMA CallsKeepTypes ==
  ASSUME Types, Calls
  PROVE  Types'
<1>1. PICK k \in calls : Serve(k) \/ Receive(k) \/ CallFails(k)
  BY DEF Calls
<1>2. CASE Serve(k)
  BY <1>2, ServeTypes
<1>3. CASE Receive(k)
  BY <1>3, ReceiveTypes, ReconciledTypes DEF Receive
<1>4. CASE CallFails(k)
  BY <1>4, CallFailsTypes
<1> QED
  BY <1>1, <1>2, <1>3, <1>4

(* Steps of a flow,                                                        *)
LEMMA FlowKeepsTypes ==
  ASSUME Types, Flow
  PROVE  Types'
<1>1. CASE \E kind \in {"send", "import"} : Begin(kind)
  BY <1>1, BeginTypes
<1>2. CASE /\ flow # None
           /\ \/ \E i \in Conversations, f \in NewPlaces : Create(i, f)
              \/ Created \/ CreateFails \/ Run \/ RunEnds \/ RunFails
  BY <1>2, CreateTypes, CreatedTypes, CreateFailsTypes, RunTypes, SettleTypes
<1> QED
  BY <1>1, <1>2 DEF Flow

(* steps of the user in the sidebar                                        *)
LEMMA SidebarKeepsTypes ==
  ASSUME Types, Sidebar
  PROVE  Types'
<1>1. CASE \/ Search \/ SetSelecting
           \/ \E f \in {Anywhere, Unfiled}
                         \cup {c.folder : c \in {d \in list.loaded : d.archived = list.archived}} :
                SelectFolder(f)
           \/ \E t \in Tags : ToggleTag(t)
           \/ \E c \in list.shown : ToggleSelected(c)
  BY <1>1, FilterTypes
<1>2. CASE ShowArchived
  BY <1>2, FetchTypes
<1>3. CASE LoadMore
  BY <1>3, LoadMoreTypes
<1>4. CASE NewChat
  BY <1>4, NewChatTypes
<1>5. CASE \E c \in list.shown : Open(c) \/ TogglePinned(c) \/ ToggleArchived(c)
  BY <1>5, OpenTypes, MenuTypes
<1>6. CASE \/ \E c \in list.shown, op \in Single : AskAboutOne(op, c)
           \/ \E op \in Many : AskAboutSelected(op)
  BY <1>6, AskAboutTypes
<1> QED
  BY <1>1, <1>2, <1>3, <1>4, <1>5, <1>6 DEF Sidebar

(* and in a dialog,                                                        *)
LEMMA DialogKeepsTypes ==
  ASSUME Types, Dialog
  PROVE  Types'
<1>1. CASE dialog # None /\ (Cancel \/ \E v \in Values(dialog.op) : Submit(v))
  BY <1>1, CancelTypes, SubmitTypes
<1>2. CASE \E b \in batches : BatchEnds(b) \/ \E c \in b.left : AskNext(b, c)
  BY <1>2, BatchEndsTypes, AskNextTypes
<1> QED
  BY <1>1, <1>2 DEF Dialog

(* and so any step.                                                        *)
LEMMA NextTypes ==
  ASSUME Types, [Next]_vars
  PROVE  Types'
<1>1. CASE Defer
  BY <1>1, FetchTypes
<1>2. CASE Pages
  BY <1>2, AnswerPageTypes, PageEndsTypes DEF Pages
<1>3. CASE vars' = vars
  <2>1. UNCHANGED <<rows, clock, used, list, latest, localOnly, deferred, pages, active, calls,
                    dialog, batches, flow, moves, failed, whole, unsure>>
    BY <1>3 DEF vars, serverVars, listVars, dialogs, bounds, history
  <2> QED
    BY <2>1 DEF Types, ServerTypes, TabTypes, PageTypes, Reloading, CallTypes, FlowTypes,
                DialogTypes, KnownIds
<1> QED
  BY <1>1, <1>2, <1>3, CallsKeepTypes, FlowKeepsTypes, SidebarKeepsTypes, DialogKeepsTypes
  DEF Next

(* The first state.                                                        *)
LEMMA InitTypes ==
  ASSUME Init
  PROVE  Types
<1>1. /\ rows = Start /\ used = DOMAIN Start /\ clock \in Nat
  <2>1. Cardinality(DOMAIN Start) \in Nat
    BY StartAssumption, FS_CardinalityType
  <2> QED
    BY <2>1 DEF Init
<1>2. ServerTypes
  BY <1>1, StartAssumption DEF ServerTypes
<1>3. TabTypes
  BY StartAssumption DEF Init, TabTypes
<1>4. GoodList(list) /\ list.loaded = {} /\ list.more = FALSE
  <2>1. list = [loaded |-> {}, shown |-> {}, total |-> 0, count |-> 0,
                search |-> FALSE, archived |-> FALSE, folder |-> Anywhere, tags |-> {},
                selecting |-> FALSE, selected |-> {}, loading |-> TRUE, more |-> FALSE]
    BY DEF Init
  <2>2. /\ list \in Lists /\ list.loaded = {} /\ list.shown = {} /\ list.selected = {}
        /\ list.more = FALSE
    BY <2>1 DEF Lists
  <2> QED
    BY <2>2 DEF GoodList, Distinct, Ids, Visible
<1>5. PICK first : first = [kind |-> "effect", archived |-> FALSE, key |-> FALSE,
                            search |-> FALSE, from |-> 0, answer |-> None]
  OBVIOUS
<1>6. first.kind = "effect" /\ first.answer = None /\ GoodPage(first)
  BY <1>5 DEF GoodPage, PageSet
<1>7. pages = {first} /\ flow = None /\ dialog = None /\ batches = {}
  BY <1>5 DEF Init
<1>8. PageTypes
  BY <1>4, <1>6, <1>7 DEF PageTypes, Reloading
<1>9. CallTypes /\ KnownIds
  <2>1. active \in {None} \cup DOMAIN Start
    BY DEF Init
  <2>2. \A k \in calls : GoodCall(k) /\ k.op = "look" /\ k.id \in DOMAIN Start
    <3>1. CASE active = None
      BY <3>1 DEF Init
    <3>2. CASE active # None
      <4>1. PICK look : look = Call("look", active, <<>>, FALSE, FALSE)
        OBVIOUS
      <4>2. calls = {look}
        BY <3>2, <4>1 DEF Init, Call
      <4>3. active \in Conversations /\ active \in DOMAIN Start
        BY <2>1, <3>2, StartAssumption
      <4> QED
        BY <4>1, <4>2, <4>3, LookIs
    <3> QED
      BY <3>1, <3>2
  <2> QED
    BY <1>1, <1>4, <1>6, <1>7, <2>1, <2>2 DEF CallTypes, Waits, OfFlow, KnownIds, Ids
<1>10. FlowTypes /\ DialogTypes
  BY <1>7 DEF FlowTypes, DialogTypes
<1> QED
  BY <1>2, <1>3, <1>4, <1>8, <1>9, <1>10 DEF Types

(* The types of the whole state, and what they say of the list.            *)
THEOREM TypesInvariance == Spec => []Types
<1>1. Init => Types
  BY InitTypes
<1>2. Types /\ [Next]_vars => Types'
  BY NextTypes
<1> QED
  BY <1>1, <1>2, PTL DEF Spec

(* The state is well-formed: the list is made of copies of rows, counters  *)
(* never go below zero, and there is one request of a kind for pages.      *)
THEOREM TypeCorrect == Spec => []TypeOK
<1>1. Types => TypeOK
  BY DEF Types, ServerTypes, TabTypes, PageTypes, GoodPage, PageSet, Answers, GoodList, Lists,
         Distinct, TypeOK
<1> QED
  BY <1>1, TypesInvariance, PTL

(* Bulk changes reach only conversations that are on the screen.           *)
THEOREM SelectedAreOnScreen == Spec => []SelectedAreShown
<1>1. Types => SelectedAreShown
  BY DEF Types, GoodList, SelectedAreShown
<1> QED
  BY <1>1, TypesInvariance, PTL

(* The sidebar says "loading" only while a request is under way.           *)
THEOREM LoadingHasItsRequest == Spec => []LoadingHasRequest
<1>1. Types => LoadingHasRequest
  BY DEF Types, PageTypes, LoadingHasRequest
<1> QED
  BY <1>1, TypesInvariance, PTL

-----------------------------------------------------------------------------
(* What is loaded is what the server has.                                  *)

(* A conversation is changing from the moment the server took a change of  *)
(* it to the moment the tab merges the answer; a generation is one.        *)
Writes == {"patch", "ask", "delete", "clean"}
Running == {"ran", "settle", "failed", "refused", "clean"}
Written(k) == k.op \in Writes /\ k.answer # None
Runs(f) == f # None /\ f.phase \in Running
Changing(i) == (\E k \in calls : k.id = i /\ Written(k)) \/ (Runs(flow) /\ flow.id = i)

IsRow(c) == c.id \in DOMAIN rows /\ rows[c.id] = c
Right(c) == c.id \in unsure \/ Changing(c.id) \/ IsRow(c)

LoadedRight == \A c \in list.loaded : Right(c)
PagesRight ==
  \A r \in pages : r.answer # None /\ latest = r.kind => \A c \in r.answer.rows : Right(c)

(* An answer on its way is the row, for only one request is about it.      *)
Tells(k) == k.answer # None /\ k.op \notin {"delete", "clean"}
AnswersRight == \A k \in calls : Tells(k) => k.id \in unsure \/ IsRow(k.answer)
OneAtATime ==
  /\ \A j, k \in calls : j.id = k.id => j = k \/ j.id \in unsure
  /\ flow # None =>
       \A k \in calls : k.id = flow.id /\ k.op \notin OfFlow => k.id \in unsure
MadeRight == flow # None /\ flow.phase = "made" => flow.id \in unsure \/ IsRow(flow.row)

Copies == LoadedRight /\ PagesRight
Answering == AnswersRight /\ OneAtATime /\ MadeRight
IInv == Types /\ Copies /\ Answering

(* A right copy stays right while the server's rows are what they were.    *)
LEMMA StaysRight ==
  ASSUME rows' = rows, unsure \subseteq unsure',
         \A k \in calls : Written(k) => k \in calls' \/ k.id \in unsure',
         Runs(flow) => (Runs(flow') /\ flow'.id = flow.id) \/ flow.id \in unsure'
  PROVE  \A c : Right(c) => Right(c)'
  BY DEF Right, Changing, IsRow

(* The copies that come are right.                                         *)
LEMMA CopiesStep ==
  ASSUME Copies, \A c : Right(c) => Right(c)',
         \A c \in list'.loaded : c \in list.loaded \/ Right(c) \/ Right(c)',
         \A r \in pages' : r \in pages \/ r.answer = None \/ \A c \in r.answer.rows : Right(c)',
         \/ latest' \in {latest, None}
         \/ \A r \in pages' : r.kind = latest' => r.answer = None,
         Types'
  PROVE  Copies'
<1>1. LoadedRight'
  BY DEF Copies, LoadedRight
<1>2. \A r \in pages' : r.kind # None
  BY DistinctAssumption DEF Types, PageTypes, GoodPage, PageSet
<1>3. PagesRight'
  BY <1>2 DEF Copies, PagesRight
<1> QED
  BY <1>1, <1>3 DEF Copies

(* The requests that come are the only ones about their conversations.     *)
LEMMA AnsweringStep ==
  ASSUME Answering, rows' = rows, unsure \subseteq unsure',
         \A k \in calls' : k \in calls \/ k.answer = None,
         flow' # None /\ flow'.phase = "made" => flow' = flow,
         \A j, k \in calls' : j \notin calls /\ j.id = k.id => j = k \/ j.id \in unsure',
         flow' # None =>
           \A k \in calls' : k.id = flow'.id /\ k.op \notin OfFlow =>
             k.id \in unsure' \/ (flow # None /\ flow.id = flow'.id /\ k \in calls)
  PROVE  Answering'
<1>1. AnswersRight'
  BY DEF Answering, AnswersRight, Tells, IsRow
<1>2. OneAtATime'
  BY DEF Answering, OneAtATime
<1>3. MadeRight'
  BY DEF Answering, MadeRight, IsRow
<1> QED
  BY <1>1, <1>2, <1>3 DEF Answering

(* A step that answers nothing and changes no row.                         *)
LEMMA QuietStep ==
  ASSUME IInv, Types', rows' = rows, unsure \subseteq unsure',
         \A c \in list'.loaded : c \in list.loaded \/ Right(c),
         \A r \in pages' : r \in pages \/ r.answer = None,
         \/ latest' \in {latest, None}
         \/ \A r \in pages' : r.kind = latest' => r.answer = None,
         \A k \in calls' : k \in calls \/ k.answer = None,
         \A k \in calls : Written(k) => k \in calls' \/ k.id \in unsure',
         \A j, k \in calls' : j \notin calls /\ j.id = k.id => j = k \/ j.id \in unsure',
         Runs(flow) => (Runs(flow') /\ flow'.id = flow.id) \/ flow.id \in unsure',
         flow' # None /\ flow'.phase = "made" => flow' = flow,
         flow' # None =>
           \A k \in calls' : k.id = flow'.id /\ k.op \notin OfFlow =>
             k.id \in unsure' \/ (flow # None /\ flow.id = flow'.id /\ k \in calls)
  PROVE  IInv'
<1>1. \A c : Right(c) => Right(c)'
  BY StaysRight
<1>2. Copies'
  BY <1>1, CopiesStep DEF IInv
<1>3. Answering'
  BY AnsweringStep DEF IInv
<1> QED
  BY <1>2, <1>3 DEF IInv

(* What the user does, apart from requests.                                *)
LEMMA ShownStep ==
  ASSUME IInv, Types',
         \/ Search \/ SetSelecting
         \/ \E f \in {Anywhere, Unfiled}
                       \cup {c.folder : c \in {d \in list.loaded : d.archived = list.archived}} :
              SelectFolder(f)
         \/ \E t \in Tags : ToggleTag(t)
         \/ \E c \in list.shown : ToggleSelected(c)
  PROVE  IInv'
<1>1. /\ GoodList(list) /\ list.search \in BOOLEAN /\ list.selecting \in BOOLEAN
      /\ \A c \in list.loaded : c.folder \in Places
  BY DEF IInv, Types, GoodList, Lists, Copy
<1>2. \E s : s.loaded = list.loaded /\ Reduce(s)
  <2>1. CASE Search
    <3>1. (~list.search) \in BOOLEAN
      BY <1>1
    <3> QED
      BY <1>1, <2>1, <3>1, FiltersAre DEF Search
  <2>2. CASE SetSelecting
    <3>1. (~list.selecting) \in BOOLEAN
      BY <1>1
    <3> QED
      BY <1>1, <2>2, <3>1, SelectionIs DEF SetSelecting
  <2>3. ASSUME NEW f \in {Anywhere, Unfiled}
                           \cup {c.folder : c \in {d \in list.loaded : d.archived = list.archived}},
               SelectFolder(f)
        PROVE  \E s : s.loaded = list.loaded /\ Reduce(s)
    <3>1. f \in Places \cup {Anywhere}
      BY <1>1 DEF Places
    <3> QED
      BY <1>1, <2>3, <3>1, FiltersAre DEF SelectFolder
  <2>4. ASSUME NEW t \in Tags, ToggleTag(t)
        PROVE  \E s : s.loaded = list.loaded /\ Reduce(s)
    BY <1>1, <2>4, FiltersAre DEF ToggleTag
  <2>5. ASSUME NEW c \in list.shown, ToggleSelected(c)
        PROVE  \E s : s.loaded = list.loaded /\ Reduce(s)
    BY <1>1, <2>5, SelectionIs DEF ToggleSelected
  <2> QED
    BY <2>1, <2>2, <2>3, <2>4, <2>5
<1>3. PICK s : s.loaded = list.loaded /\ Reduce(s)
  BY <1>2
<1>4. /\ list'.loaded = list.loaded
      /\ UNCHANGED <<rows, latest, pages, calls, flow, unsure>>
  BY <1>3 DEF Reduce, serverVars, history
<1> QED
  BY <1>4, QuietStep

(* Other requests for pages.                                               *)
LEMMA FetchStep ==
  ASSUME IInv, Types', Defer \/ ShowArchived \/ NewChat
  PROVE  IInv'
<1>1. /\ Types /\ GoodList(list) /\ list.search \in BOOLEAN /\ (~list.archived) \in BOOLEAN
      /\ deferred \in BOOLEAN /\ FALSE \in BOOLEAN
  BY DEF IInv, Types, GoodList, Lists, TabTypes
<1>2. /\ UNCHANGED <<rows, flow, unsure>> /\ calls' \subseteq calls
      /\ \A k \in calls : Written(k) => k \in calls'
  BY DEF Defer, ShowArchived, NewChat, NotLooking, Written, Writes, serverVars
<1>3. /\ list'.loaded = list.loaded
      /\ \/ pages' = pages /\ latest' = latest
         \/ /\ latest' = "effect"
            /\ \A r \in pages' : (r \in pages /\ r.kind # "effect") \/ r.answer = None
  <2>1. PICK s : /\ Reduces(s, list) /\ s.loaded = list.loaded
                 /\ \/ \E search \in BOOLEAN : Fetch(s, search)
                    \/ list' = s /\ pages' = pages /\ latest' = latest
    <3>1. CASE Defer
      <4>1. Reduces(list, list)
        BY <1>1 DEF Reduces
      <4> QED
        BY <1>1, <3>1, <4>1 DEF Defer
    <3>2. CASE ShowArchived
      BY <1>1, <3>2, FiltersAre DEF ShowArchived
    <3>3. CASE NewChat
      BY <1>1, <3>3, FiltersAre DEF NewChat
    <3> QED
      BY <3>1, <3>2, <3>3
  <2> QED
    BY <1>1, <1>2, <2>1, FetchIs
<1>4. \/ latest' \in {latest, None}
      \/ \A r \in pages' : r.kind = latest' => r.answer = None
  BY <1>3
<1>5. Runs(flow) => Runs(flow') /\ flow'.id = flow.id
  BY <1>2
<1> QED
  BY <1>2, <1>3, <1>4, <1>5, QuietStep

(* More is asked for only when nothing more is on its way.                 *)
LEMMA LoadMoreStep ==
  ASSUME IInv, Types', LoadMore
  PROVE  IInv'
<1> DEFINE new == Request("append", list.archived, deferred, deferred, list.count)
<1>1. new.kind = "append" /\ new.answer = None
  BY DEF Request
<1>2. /\ list' = [list EXCEPT !.more = TRUE] /\ pages' = pages \cup {new} /\ ~list.more
      /\ latest' = "append" /\ UNCHANGED <<rows, calls, flow, unsure>>
  BY DEF LoadMore, serverVars, history
<1> HIDE DEF new
<1>3. list'.loaded = list.loaded
  BY <1>2 DEF IInv, Types, GoodList, Lists
<1>4. \A r \in pages' : r.kind = latest' => r.answer = None
  BY <1>1, <1>2 DEF IInv, Types, PageTypes
<1> QED
  BY <1>1, <1>2, <1>3, <1>4, QuietStep

(* A request about one conversation.                                       *)
LEMMA CallStep ==
  ASSUME IInv, Types', NEW new, new.answer = None, new.id \in Conversations, new.op \notin OfFlow,
         \A k \in calls' : k \in calls \/ k = new,
         \A k \in calls : Written(k) => k \in calls',
         \/ calls' \subseteq calls /\ unsure' = unsure
         \/ unsure' = Doubts(new.id),
         UNCHANGED <<rows, list, latest, pages, flow>>
  PROVE  IInv'
<1>1. unsure \subseteq unsure'
  BY DEF Doubts
<1>2. \A j, k \in calls' : j \notin calls /\ j.id = k.id => j = k \/ j.id \in unsure'
  BY DEF Doubts
<1>3. flow' # None =>
        \A k \in calls' : k.id = flow'.id /\ k.op \notin OfFlow =>
          k.id \in unsure' \/ (flow # None /\ flow.id = flow'.id /\ k \in calls)
  BY DEF Doubts
<1> QED
  BY <1>1, <1>2, <1>3, QuietStep

(* Any step in the sidebar.                                                *)
LEMMA SidebarStep ==
  ASSUME IInv, Types', Sidebar
  PROVE  IInv'
<1>1. CASE \/ Search \/ SetSelecting
           \/ \E f \in {Anywhere, Unfiled}
                         \cup {c.folder : c \in {d \in list.loaded : d.archived = list.archived}} :
                SelectFolder(f)
           \/ \E t \in Tags : ToggleTag(t)
           \/ \E c \in list.shown : ToggleSelected(c)
  BY <1>1, ShownStep
<1>2. CASE ShowArchived \/ NewChat
  BY <1>2, FetchStep
<1>3. CASE LoadMore
  BY <1>3, LoadMoreStep
<1>4. ASSUME NEW c \in list.shown, Open(c) \/ TogglePinned(c) \/ ToggleArchived(c)
      PROVE  IInv'
  <2>1. c.id \in Conversations
    BY ShownAre DEF IInv
  <2> DEFINE Made(op, patch, search, home) ==
               /\ op \in {"look", "patch"}
               /\ \/ calls' = NotLooking /\ unsure' = unsure
                  \/ /\ unsure' = Doubts(c.id)
                     /\ \/ calls' = NotLooking \cup {Call(op, c.id, patch, search, home)}
                        \/ calls' = calls \cup {Call(op, c.id, patch, search, home)}
               /\ UNCHANGED <<rows, list, latest, pages, flow>>
  <2>2. \E op, patch, search, home : Made(op, patch, search, home)
    <3>1. CASE Open(c)
      <4>1. Made("look", <<>>, FALSE, FALSE)
        BY <3>1 DEF Open, serverVars, listVars
      <4> HIDE DEF Made
      <4> QED
        BY <4>1
    <3>2. CASE TogglePinned(c)
      <4>1. Made("patch", [pinned |-> ~c.pinned], deferred, FALSE)
        BY <3>2 DEF TogglePinned, Ask, serverVars, listVars
      <4> HIDE DEF Made
      <4> QED
        BY <4>1
    <3>3. CASE ToggleArchived(c)
      <4>1. Made("patch", [archived |-> ~c.archived], deferred,
                 active = c.id /\ c.archived = list.archived)
        BY <3>3 DEF ToggleArchived, Ask, serverVars, listVars
      <4> HIDE DEF Made
      <4> QED
        BY <4>1
    <3> QED
      BY <1>4, <3>1, <3>2, <3>3
  <2>3. PICK op, patch, search, home : Made(op, patch, search, home)
    BY <2>2
  <2>4. PICK new : new = Call(op, c.id, patch, search, home)
    OBVIOUS
  <2>5. new.answer = None /\ new.id = c.id /\ new.op = op /\ new.op \notin OfFlow
    BY <2>3, <2>4 DEF Call, OfFlow
  <2>6. /\ \A k \in calls' : k \in calls \/ k = new
        /\ \A k \in calls : Written(k) => k \in calls'
        /\ (calls' \subseteq calls /\ unsure' = unsure) \/ unsure' = Doubts(new.id)
    BY <2>3, <2>4, <2>5 DEF NotLooking, Written, Writes
  <2> QED
    BY <2>1, <2>3, <2>5, <2>6, CallStep
<1>5. CASE \/ \E c \in list.shown, op \in Single : AskAboutOne(op, c)
           \/ \E op \in Many : AskAboutSelected(op)
  <2>1. UNCHANGED <<rows, list, latest, pages, calls, flow, unsure>>
    BY <1>5 DEF AskAboutOne, AskAboutSelected, OpenDialog, serverVars, listVars, history
  <2> QED
    BY <2>1, QuietStep
<1> QED
  BY <1>1, <1>2, <1>3, <1>4, <1>5 DEF Sidebar

(* A dialog makes one request after the other.                             *)
LEMMA DialogStep ==
  ASSUME IInv, Types', Dialog
  PROVE  IInv'
<1>1. CASE dialog # None /\ (Cancel \/ \E v \in Values(dialog.op) : Submit(v))
  <2>1. UNCHANGED <<rows, list, latest, pages, calls, flow, unsure>>
    BY <1>1 DEF Cancel, Submit, serverVars, listVars, history
  <2> QED
    BY <2>1, QuietStep
<1>2. ASSUME NEW b \in batches, BatchEnds(b) PROVE IInv'
  <2>1. UNCHANGED <<rows, latest, pages, calls, flow, unsure>>
    BY <1>2 DEF BatchEnds, serverVars, history
  <2>2. list'.loaded = list.loaded
    BY <1>2 DEF BatchEnds, IInv, Types, GoodList, Lists
  <2> QED
    BY <2>1, <2>2, QuietStep
<1>3. ASSUME NEW b \in batches, NEW c \in b.left, AskNext(b, c) PROVE IInv'
  <2>1. c.id \in Conversations
    BY DEF IInv, Types, DialogTypes, GoodBatch, BatchSet, Copy
  <2>2. PICK op, patch, search, home :
          op \in {"ask", "delete"} /\ Ask(op, c.id, patch, search, home)
    BY <1>3 DEF AskNext, CallOf
  <2>3. PICK new : new = Call(op, c.id, patch, search, home)
    OBVIOUS
  <2>4. new.answer = None /\ new.id = c.id /\ new.op = op /\ new.op \notin OfFlow
    BY <2>2, <2>3 DEF Call, OfFlow
  <2>5. /\ calls' = calls \cup {new} /\ unsure' = Doubts(new.id)
        /\ UNCHANGED <<rows, list, latest, pages, flow>>
    BY <2>2, <2>3, <2>4 DEF Ask, serverVars, listVars
  <2> QED
    BY <2>1, <2>4, <2>5, CallStep
<1> QED
  BY <1>1, <1>2, <1>3 DEF Dialog

(* Pages.                                                                  *)
LEMMA AnswerPageStep ==
  ASSUME IInv, Types', NEW r \in pages, AnswerPage(r)
  PROVE  IInv'
<1>1. PICK new : /\ pages' = (pages \ {r}) \cup {new}
                 /\ \A c \in new.answer.rows : c.id \in DOMAIN rows /\ rows[c.id] = c
  BY AnswerPageIs DEF IInv
<1>2. UNCHANGED <<rows, list, latest, calls, flow, unsure>>
  BY DEF AnswerPage, serverVars, listVars, history
<1>3. \A c : Right(c) => Right(c)'
  BY <1>2, StaysRight
<1>4. \A c \in new.answer.rows : Right(c)'
  BY <1>1, <1>2 DEF Right, IsRow
<1>5. Copies'
  BY <1>1, <1>2, <1>3, <1>4, CopiesStep DEF IInv
<1>6. Answering'
  BY <1>2, AnsweringStep DEF IInv
<1> QED
  BY <1>5, <1>6 DEF IInv

(* A page that is applied is of the version it was asked for.              *)
LEMMA PageEndsStep ==
  ASSUME IInv, Types', NEW r \in pages, ApplyPage(r) \/ PageFails(r)
  PROVE  IInv'
<1>1. \A c \in list'.loaded : c \in list.loaded \/ Right(c)
  <2>1. CASE ApplyPage(r)
    <3>1. IF Current(r) THEN list'.loaded \subseteq list.loaded \cup r.answer.rows
                        ELSE list'.loaded = list.loaded
      BY <2>1, ApplyPageIs DEF IInv
    <3>2. r.answer # None
      BY <2>1 DEF ApplyPage
    <3> QED
      BY <3>1, <3>2 DEF IInv, Copies, PagesRight, Current
  <2>2. CASE PageFails(r)
    <3>1. GoodList(list) /\ list' = Settled(list, r)
      BY <2>2 DEF PageFails, IInv, Types
    <3> QED
      BY <3>1, SettledIs
  <2> QED
    BY <2>1, <2>2
<1>2. AfterReload(r) /\ pages' = pages \ {r} /\ rows' = rows /\ latest' = latest
  BY DEF ApplyPage, PageFails, serverVars
<1>3. /\ unsure' = unsure
      /\ \A k \in calls' :
           \/ k \in calls
           \/ Reloading /\ k.op = "look" /\ k.id = flow.id /\ k.answer = None
      /\ flow' = flow \/ flow' = None
      /\ r.kind = "reload" => Reloading /\ flow' = None
  BY <1>2, AfterReloadIs DEF IInv
<1>4. \A k \in calls : Written(k) => k \in calls'
  BY <1>2 DEF AfterReload, Written, Writes
<1>5. r.kind # "reload" => flow' = flow /\ calls' = calls
  BY <1>2 DEF AfterReload
<1>6. Runs(flow) => Runs(flow') /\ flow'.id = flow.id
  BY <1>3, <1>5 DEF Runs, Running, Reloading
<1>7. Reloading => \A k \in calls : k.op \notin OfFlow
  BY DEF Reloading, OfFlow, IInv, Types, CallTypes, Waits
<1>8. \A j, k \in calls' : j \notin calls /\ j.id = k.id => j = k \/ j.id \in unsure'
  <2>1. \A j, k \in calls' : j \notin calls /\ k \notin calls => j = k
    <3>1. CASE r.kind = "reload"
      BY <1>2, <3>1 DEF AfterReload
    <3>2. CASE r.kind # "reload"
      BY <1>5, <3>2
    <3> QED
      BY <3>1, <3>2
  <2>2. \A j, k \in calls' : j \notin calls /\ k \in calls /\ j.id = k.id => j.id \in unsure'
    BY <1>3, <1>7 DEF IInv, Answering, OneAtATime, Reloading
  <2> QED
    BY <2>1, <2>2
<1>9. flow' # None =>
        \A k \in calls' : k.id = flow'.id /\ k.op \notin OfFlow =>
          k.id \in unsure' \/ (flow # None /\ flow.id = flow'.id /\ k \in calls)
  BY <1>3, <1>5
<1> QED
  BY <1>1, <1>2, <1>3, <1>4, <1>6, <1>8, <1>9, QuietStep

(* Any step of a page.                                                     *)
LEMMA PagesStep ==
  ASSUME IInv, Types', Pages
  PROVE  IInv'
  BY AnswerPageStep, PageEndsStep DEF Pages

(* Requests about one conversation: the server takes one, and the copies   *)
(* the tab has are right because an answer is on its way.                  *)
LEMMA ServeStep ==
  ASSUME IInv, Types', NEW k \in calls, Serve(k)
  PROVE  IInv'
<1>1. PICK new : /\ calls' = (calls \ {k}) \cup {new}
                 /\ new.op = k.op /\ new.id = k.id /\ new.answer \in Copy
                 /\ new.answer.id = k.id
                 /\ k.op \notin {"delete", "clean"} =>
                      k.id \in DOMAIN rows' /\ rows'[k.id] = new.answer
  BY ServeIs DEF IInv
<1>2. /\ \A i \in DOMAIN rows \ {k.id} : i \in DOMAIN rows' /\ rows'[i] = rows[i]
      /\ k.op \notin Operations \ {"look", "settle"} => rows' = rows
      /\ k.answer = None
  BY ServeIs DEF IInv
<1>3. /\ k.op \in Operations /\ new.answer # None
      /\ \A j \in calls : j.answer # None => j.answer.id = j.id
      /\ \A j \in calls : Waits(flow, j)
      /\ flow # None /\ flow.phase = "made" => flow.row.id = flow.id
  BY <1>1, DistinctAssumption
  DEF IInv, Types, CallTypes, GoodCall, CallSet, FlowTypes, GoodFlow
<1>4. UNCHANGED <<list, latest, pages, flow, unsure>>
  BY DEF Serve, listVars, history
<1>5. ASSUME NEW c, Right(c) PROVE Right(c)'
  <2>1. CASE c.id # k.id
    BY <1>1, <1>2, <1>4, <1>5, <2>1 DEF Right, Changing, Written, IsRow
  <2>2. CASE c.id = k.id /\ k.op \in Writes
    BY <1>1, <1>3, <2>2 DEF Right, Changing, Written
  <2>3. CASE c.id = k.id /\ k.op \notin Writes
    <3>1. rows' = rows
      BY <1>2, <1>3, <2>3 DEF Operations, Writes
    <3> QED
      BY <1>1, <1>2, <1>4, <1>5, <2>3, <3>1 DEF Right, Changing, Written, IsRow
  <2> QED
    BY <2>1, <2>2, <2>3
<1>6. Copies'
  BY <1>4, <1>5, CopiesStep DEF IInv
<1>7. ASSUME NEW c, c.id # k.id, IsRow(c) PROVE IsRow(c)'
  BY <1>2, <1>7 DEF IsRow
<1>8. \A j \in calls : j.id = k.id => j = k \/ j.id \in unsure
  BY DEF IInv, Answering, OneAtATime
<1>9. AnswersRight'
  <2> SUFFICES ASSUME NEW j \in calls', Tells(j)
               PROVE  j.id \in unsure \/ IsRow(j.answer)'
    BY <1>4 DEF AnswersRight, Tells
  <2>1. CASE j = new
    BY <1>1, <2>1 DEF Tells, IsRow
  <2>2. CASE j \in calls \ {k}
    <3>1. j.id \in unsure \/ IsRow(j.answer)
      BY <2>2 DEF IInv, Answering, AnswersRight
    <3>2. j.answer.id = j.id
      BY <1>3, <2>2 DEF Tells
    <3> QED
      BY <1>7, <1>8, <2>2, <3>1, <3>2
  <2> QED
    BY <1>1, <2>1, <2>2
<1>10. OneAtATime'
  BY <1>1, <1>4 DEF IInv, Answering, OneAtATime
<1>11. MadeRight'
  <2> SUFFICES ASSUME flow # None, flow.phase = "made"
               PROVE  flow.id \in unsure \/ IsRow(flow.row)'
    BY <1>4 DEF MadeRight
  <2>1. flow.id \in unsure \/ IsRow(flow.row)
    BY DEF IInv, Answering, MadeRight
  <2>2. CASE flow.id = k.id
    <3>1. k.op \notin OfFlow
      BY <1>3 DEF Waits, OfFlow
    <3> QED
      BY <2>2, <3>1 DEF IInv, Answering, OneAtATime
  <2>3. CASE flow.id # k.id
    <3>1. PICK c : c = flow.row
      OBVIOUS
    <3>2. flow.id \in unsure \/ IsRow(c)'
      BY <1>3, <1>7, <2>1, <2>3, <3>1
    <3> QED
      BY <1>4, <3>1, <3>2 DEF IsRow
  <2> QED
    BY <2>2, <2>3
<1> QED
  BY <1>6, <1>9, <1>10, <1>11 DEF IInv, Answering

(* The tab takes the answer about a conversation, and drops the pages that *)
(* were asked for before.                                                  *)
LEMMA AnsweredStep ==
  ASSUME IInv, Types', rows' = rows, unsure' = unsure, NEW i,
         \A c \in list'.loaded : Right(c)' \/ (c \in list.loaded /\ c.id # i),
         \A k \in calls : Written(k) /\ k.id # i => k \in calls',
         Runs(flow) /\ flow.id # i => Runs(flow') /\ flow'.id = flow.id,
         latest' = None \/ \A r \in pages' : r.kind = latest' => r.answer = None,
         \A k \in calls' : k \in calls \/ k.answer = None,
         \A j, k \in calls' : j \notin calls /\ j.id = k.id => j = k \/ j.id \in unsure',
         flow' # None /\ flow'.phase = "made" => flow' = flow,
         flow' # None =>
           \A k \in calls' : k.id = flow'.id /\ k.op \notin OfFlow =>
             k.id \in unsure' \/ (flow # None /\ flow.id = flow'.id /\ k \in calls)
  PROVE  IInv'
<1>1. \A c : c.id # i /\ Right(c) => Right(c)'
  BY DEF Right, Changing, IsRow
<1>2. LoadedRight'
  BY <1>1 DEF IInv, Copies, LoadedRight
<1>3. \A r \in pages' : r.kind # None
  BY DistinctAssumption DEF Types, PageTypes, GoodPage, PageSet
<1>4. PagesRight'
  BY <1>3 DEF PagesRight
<1>5. Answering'
  BY AnsweringStep DEF IInv
<1> QED
  BY <1>2, <1>4, <1>5 DEF IInv, Copies

(* The answer that is merged is right, and the copy it replaces is gone.   *)
LEMMA ReceiveStep ==
  ASSUME IInv, Types', NEW k \in calls, Receive(k)
  PROVE  IInv'
<1>1. /\ k.answer \in Copy /\ k.answer # None /\ k.answer.id = k.id /\ Waits(flow, k)
      /\ \A j \in calls : j.op \in OfFlow /\ k.op \in OfFlow => j = k
  BY AnswerIs DEF IInv, Types, CallTypes, GoodCall, Receive
<1>2. rows' = rows /\ unsure' = unsure
  BY DEF Receive, serverVars
<1>3. k.op \notin {"delete", "clean"} => k.id \in unsure \/ IsRow(k.answer)
  BY <1>1 DEF IInv, Answering, AnswersRight, Tells
<1>4. k.op \notin {"delete", "clean"} => Right(k.answer)'
  BY <1>1, <1>2, <1>3 DEF Right, IsRow
<1>5. CASE Changed(k) \/ Looked(k)
  <2>1. PICK search, counting, shifts :
          SyncConversationIntoList(k.answer, search, counting, shifts)
    BY <1>5 DEF Changed, Looked
  <2>2. \A d \in list'.loaded : d = k.answer \/ (d \in list.loaded /\ d.id # k.id)
    BY <1>1, <2>1, SyncedIs DEF IInv
  <2>3. latest' = None
    BY <2>1 DEF SyncConversationIntoList
  <2>4. /\ flow' = flow /\ calls' \subseteq calls /\ k.op \notin {"delete", "clean"}
        /\ \A j \in calls : Written(j) /\ j.id # k.id => j \in calls'
    BY <1>5 DEF Changed, Looked, GoHome, Written, Writes
  <2> QED
    BY <1>2, <1>4, <2>2, <2>3, <2>4, AnsweredStep
<1>6. CASE Deleted(k)
  <2>1. list'.loaded = Without(list.loaded, k.id) /\ latest' = None
    BY <1>6, RemovedIs DEF Deleted, IInv, Types, RemoveConversationFromList
  <2>2. /\ calls' \subseteq calls \ {k}
        /\ \A j \in calls : Written(j) /\ j.id # k.id => j \in calls'
        /\ flow' = IF k.op = "clean" THEN None ELSE flow
    BY <1>6 DEF Deleted, GoHome, Written, Writes
  <2>3. Runs(flow) /\ flow.id # k.id => Runs(flow') /\ flow'.id = flow.id
    BY <1>1, <2>2 DEF Waits
  <2>4. \A d \in list'.loaded : d \in list.loaded /\ d.id # k.id
    BY <2>1 DEF Without
  <2> QED
    BY <1>2, <2>1, <2>2, <2>3, <2>4, AnsweredStep
<1>7. CASE Reconciled(k)
  <2>1. /\ k.op = "settle" /\ k.id = flow.id /\ flow # None
        /\ flow.phase \in {"settle", "refused", "failed"}
    BY <1>1, <1>7 DEF Reconciled, Waits
  <2>2. \A d \in list'.loaded : d = k.answer \/ (d \in list.loaded /\ d.id # k.id)
    <3>1. PICK s : s = Sync(list, k.answer, deferred, FALSE)
      OBVIOUS
    <3>2. /\ Reduces(s, list)
          /\ \A d \in s.loaded : d = k.answer \/ (d \in list.loaded /\ d.id # k.id)
      <4>1. GoodList(list)
        BY DEF IInv, Types
      <4>2. PICK c, off : c \in Copy /\ c = k.answer /\ off = FALSE
        BY <1>1
      <4>3. /\ Reduces(Sync(list, c, deferred, off), list)
            /\ \A d \in Sync(list, c, deferred, off).loaded :
                 d = c \/ (d \in list.loaded /\ d.id # c.id)
        BY <4>1, <4>2, SyncIs
      <4> QED
        BY <1>1, <3>1, <4>2, <4>3
    <3>3. s \in Lists
      BY <3>2 DEF Reduces, GoodList
    <3>4. PICK v : list' = [s EXCEPT !.loading = v]
      BY <1>7, <3>1 DEF Reconciled
    <3> QED
      BY <3>2, <3>3, <3>4 DEF Lists
  <2>3. latest' = None \/ \A r \in pages' : r.kind = latest' => r.answer = None
    <3>1. CASE flow.phase = "settle"
      <4>1. latest' = "reload" /\ pages' = pages \cup {Reload(flow.search)}
        BY <1>7, <3>1 DEF Reconciled
      <4>2. \A r \in pages : r.kind # "reload"
        BY <3>1 DEF IInv, Types, PageTypes, Reloading
      <4>3. Reload(flow.search).answer = None
        BY DEF Reload, Request
      <4> QED
        BY <4>1, <4>2, <4>3
    <3>2. CASE flow.phase # "settle"
      BY <1>7, <3>2 DEF Reconciled
    <3> QED
      BY <3>1, <3>2
  <2>4. PICK new : new = Call("clean", k.id, <<>>, FALSE, TRUE)
    OBVIOUS
  <2>5. new.answer = None /\ new.id = k.id /\ new.op = "clean"
    BY <2>4 DEF Call
  <2>6. /\ calls' = calls \ {k} \/ calls' = (calls \ {k}) \cup {new}
        /\ flow' = None \/ (flow'.id = flow.id /\ flow'.phase \in {"reload", "clean"})
    <3>1. flow \in Flows
      BY <2>1 DEF IInv, Types, FlowTypes, GoodFlow
    <3> QED
      BY <1>7, <2>4, <3>1 DEF Reconciled, Flows
  <2>7. \A j, l \in calls' : j \notin calls /\ j.id = l.id => j = l \/ j.id \in unsure'
    BY <1>2, <2>5, <2>6 DEF IInv, Answering, OneAtATime
  <2>8. flow' # None =>
          \A l \in calls' : l.id = flow'.id /\ l.op \notin OfFlow =>
            l.id \in unsure' \/ (flow # None /\ flow.id = flow'.id /\ l \in calls)
    BY <2>1, <2>5, <2>6 DEF OfFlow
  <2>9. \A j \in calls : Written(j) /\ j.id # k.id => j \in calls'
    BY <2>6
  <2>10. \A j \in calls' : j \in calls \/ j.answer = None
    BY <2>5, <2>6
  <2>11. \A c \in list'.loaded : Right(c)' \/ (c \in list.loaded /\ c.id # k.id)
    BY <1>4, <2>1, <2>2
  <2> QED
    BY <1>2, <2>1, <2>3, <2>6, <2>7, <2>8, <2>9, <2>10, <2>11, AnsweredStep
<1> QED
  BY <1>5, <1>6, <1>7 DEF Receive

(* What failed is not known for sure any more.                             *)
LEMMA CallFailsStep ==
  ASSUME IInv, Types', NEW k \in calls, CallFails(k)
  PROVE  IInv'
<1>1. Waits(flow, k)
  BY DEF IInv, Types, CallTypes
<1>2. /\ rows' = rows /\ unsure' = unsure \cup {k.id} /\ calls' \subseteq calls \ {k}
      /\ \A j \in calls : Written(j) => j \in calls' \/ j.id \in unsure'
  BY DEF CallFails, GoHome, serverVars, Written, Writes
<1>3. CASE k.op = "settle" /\ flow.phase = "settle"
  <2>1. flow # None /\ k.id = flow.id /\ flow \in Flows
    BY <1>1, <1>3 DEF Waits, IInv, Types, FlowTypes, GoodFlow
  <2>2. /\ flow' = [flow EXCEPT !.phase = "reload"] /\ latest' = "reload"
        /\ pages' = pages \cup {Reload(flow.search)}
        /\ list' = [list EXCEPT !.loading = TRUE]
    BY <1>3 DEF CallFails
  <2>3. flow'.id = flow.id /\ flow'.phase = "reload"
    BY <2>1, <2>2 DEF Flows
  <2>4. \A r \in pages : r.kind # "reload"
    BY <1>3 DEF IInv, Types, PageTypes, Reloading
  <2>5. Reload(flow.search).answer = None
    BY DEF Reload, Request
  <2>6. list'.loaded = list.loaded
    BY <2>2 DEF IInv, Types, GoodList, Lists
  <2>7. \A j \in calls' : j.id = flow'.id => j.id \in unsure'
    BY <1>2, <2>1, <2>3
  <2> QED
    BY <1>2, <2>1, <2>2, <2>3, <2>4, <2>5, <2>6, <2>7, QuietStep
<1>4. CASE ~(k.op = "settle" /\ flow.phase = "settle")
  <2>1. /\ flow' = IF k.op \in OfFlow THEN None ELSE flow
        /\ UNCHANGED <<pages, latest, list>>
    BY <1>4 DEF CallFails, OfFlow
  <2>2. Runs(flow) => (Runs(flow') /\ flow'.id = flow.id) \/ flow.id \in unsure'
    BY <1>1, <1>2, <2>1 DEF Waits, OfFlow
  <2> QED
    BY <1>2, <2>1, <2>2, QuietStep
<1> QED
  BY <1>3, <1>4

(* Any step of a request about one conversation.                           *)
LEMMA CallsStep ==
  ASSUME IInv, Types', Calls
  PROVE  IInv'
  BY ServeStep, ReceiveStep, CallFailsStep DEF Calls

(* Messages and imports.                                                   *)
LEMMA BeginStep ==
  ASSUME IInv, Types', NEW kind \in {"send", "import"}, Begin(kind)
  PROVE  IInv'
<1>1. /\ flow = None
      /\ unsure' = unsure \cup {k.id : k \in {j \in calls : kind = "send" /\ j.id = active}}
      /\ UNCHANGED <<rows, list, latest, pages, calls>>
  BY DEF Begin, serverVars, listVars
<1>2. /\ flow'.id = IF kind = "send" THEN active ELSE None
      /\ flow'.phase \in {"run", "create"}
  BY DEF Begin
<1>3. \A k \in calls : k.id # None
  BY DistinctAssumption DEF IInv, Types, CallTypes, GoodCall, CallSet
<1>4. \A k \in calls' : k.id = flow'.id => k.id \in unsure'
  BY <1>1, <1>2, <1>3
<1>5. ~Runs(flow) /\ (flow' # None /\ flow'.phase = "made" => flow' = flow)
  BY <1>1, <1>2 DEF Runs
<1> QED
  BY <1>1, <1>4, <1>5, QuietStep

(* A new row is nobody's copy yet.                                         *)
LEMMA CreateStep ==
  ASSUME IInv, Types', flow # None, NEW i \in Conversations, NEW folder \in NewPlaces,
         Create(i, folder)
  PROVE  IInv'
<1>1. /\ flow'.id = i /\ flow'.phase = "made" /\ i \notin used /\ flow.phase = "create"
      /\ i \in DOMAIN rows' /\ rows'[i] = flow'.row /\ flow'.row.id = i
      /\ DOMAIN rows \subseteq DOMAIN rows' /\ \A j \in DOMAIN rows : rows'[j] = rows[j]
  BY CreateIs DEF IInv, GoodFlow
<1>2. UNCHANGED <<list, latest, pages, calls, unsure>>
  BY DEF Create, listVars, history
<1>3. \A c : IsRow(c) => IsRow(c)'
  BY <1>1 DEF IsRow
<1>4. \A c : Right(c) => Right(c)'
  BY <1>1, <1>2, <1>3 DEF Right, Changing, Runs, Running
<1>5. Copies'
  BY <1>2, <1>4, CopiesStep DEF IInv
<1>6. AnswersRight'
  <2>1. \A k \in calls : Tells(k) => k.id \in unsure \/ IsRow(k.answer)
    BY DEF IInv, Answering, AnswersRight
  <2>2. \A k \in calls : Tells(k) => k.id \in unsure \/ k.answer \in {c \in {k.answer} : IsRow(c)'}
    BY <1>3, <2>1
  <2> QED
    BY <1>2, <2>2 DEF AnswersRight, Tells, IsRow
<1>7. \A k \in calls : k.id # i
  BY <1>1 DEF IInv, Types, KnownIds
<1>8. OneAtATime'
  BY <1>1, <1>2, <1>7 DEF IInv, Answering, OneAtATime
<1>9. MadeRight'
  BY <1>1 DEF MadeRight, IsRow
<1> QED
  BY <1>5, <1>6, <1>8, <1>9 DEF IInv, Answering

(* The copy of the new row is right.                                       *)
LEMMA CreatedStep ==
  ASSUME IInv, Types', flow # None, Created
  PROVE  IInv'
<1>1. /\ flow.phase = "made" /\ flow.row.id = flow.id /\ flow'.id = flow.id
      /\ flow'.phase \in {"reload", "run"} /\ flow.row \in Copy
  BY CreatedIs DEF IInv
<1>2. PICK s : /\ Reduces(s, list)
               /\ \A d \in s.loaded : d = flow.row \/ (d \in list.loaded /\ d.id # flow.id)
               /\ IF flow.kind = "import" THEN list' = [s EXCEPT !.loading = TRUE]
                                          ELSE list' = s
  BY CreatedIs DEF IInv
<1>3. list'.loaded = s.loaded
  BY <1>2 DEF Reduces, GoodList, Lists
<1>4. Right(flow.row)
  BY <1>1 DEF IInv, Answering, MadeRight, Right
<1>5. \A c \in list'.loaded : c \in list.loaded \/ Right(c)
  BY <1>2, <1>3, <1>4
<1>6. /\ UNCHANGED <<rows, unsure>> /\ calls' \subseteq calls
      /\ \A k \in calls : Written(k) => k \in calls'
  BY DEF Created, NotLooking, Written, Writes, serverVars
<1>7. /\ \A r \in pages' : r \in pages \/ r.answer = None
      /\ latest' \in {latest, None} \/ \A r \in pages' : r.kind = latest' => r.answer = None
  <2>1. CASE flow.kind = "import"
    <3>1. latest' = "reload" /\ pages' = pages \cup {Reload(flow.search)}
      BY <2>1 DEF Created
    <3>2. \A r \in pages : r.kind # "reload"
      BY <1>1 DEF IInv, Types, PageTypes, Reloading
    <3>3. Reload(flow.search).answer = None
      BY DEF Reload, Request
    <3> QED
      BY <3>1, <3>2, <3>3
  <2>2. CASE flow.kind # "import"
    BY <2>2 DEF Created
  <2> QED
    BY <2>1, <2>2
<1>8. ~Runs(flow)
  BY <1>1 DEF Runs, Running
<1> QED
  BY <1>1, <1>5, <1>6, <1>7, <1>8, QuietStep

(* The server touches the row: the conversation is changing.               *)
LEMMA RunStep ==
  ASSUME IInv, Types', flow # None, Run
  PROVE  IInv'
<1>1. /\ flow.phase = "run" /\ flow.id \in DOMAIN rows /\ flow \in Flows
  BY DEF Run, IInv, Types, FlowTypes, GoodFlow
<1>2. /\ rows' = [rows EXCEPT ![flow.id].at = clock] /\ flow' = [flow EXCEPT !.phase = "ran"]
      /\ UNCHANGED <<list, latest, pages, calls, unsure>>
  BY DEF Run, listVars, history
<1>3. flow'.id = flow.id /\ flow'.phase = "ran" /\ flow' # None
  BY <1>1, <1>2, DistinctAssumption DEF Flows, Phases
<1>4. \A c : c.id # flow.id /\ IsRow(c) => IsRow(c)'
  BY <1>1, <1>2 DEF IsRow
<1>5. \A c : Right(c) => Right(c)'
  BY <1>1, <1>2, <1>3, <1>4 DEF Right, Changing, Runs, Running
<1>6. Copies'
  BY <1>2, <1>5, CopiesStep DEF IInv
<1>7. AnswersRight'
  <2> SUFFICES ASSUME NEW k \in calls, Tells(k)
               PROVE  k.id \in unsure \/ IsRow(k.answer)'
    BY <1>2 DEF AnswersRight, Tells
  <2>1. k.id \in unsure \/ IsRow(k.answer)
    BY DEF IInv, Answering, AnswersRight
  <2>2. k.answer.id = k.id /\ Waits(flow, k)
    BY DEF Tells, IInv, Types, CallTypes, GoodCall
  <2>3. CASE k.id = flow.id
    <3>1. k.op \notin OfFlow
      BY <1>1, <2>2 DEF Waits, OfFlow
    <3> QED
      BY <2>3, <3>1 DEF IInv, Answering, OneAtATime
  <2>4. CASE k.id # flow.id
    BY <1>4, <2>1, <2>2, <2>4
  <2> QED
    BY <2>3, <2>4
<1>8. OneAtATime' /\ MadeRight'
  BY <1>2, <1>3 DEF IInv, Answering, OneAtATime, MadeRight
<1> QED
  BY <1>6, <1>7, <1>8 DEF IInv, Answering

(* The snapshot at the end of a generation will tell what became of it.    *)
LEMMA SettleStep ==
  ASSUME IInv, Types', flow # None, RunEnds \/ RunFails
  PROVE  IInv'
<1>1. PICK phase \in {"settle", "refused", "failed"} : Settle(phase)
  BY DEF RunEnds, RunFails
<1>2. flow \in Flows
  BY DEF IInv, Types, FlowTypes, GoodFlow
<1>3. PICK new : new = Call("settle", flow.id, <<>>, FALSE, FALSE)
  OBVIOUS
<1>4. new.op = "settle" /\ new.id = flow.id /\ new.answer = None
  BY <1>3 DEF Call
<1>5. /\ flow' = [flow EXCEPT !.phase = phase] /\ calls' = calls \cup {new}
      /\ unsure' = unsure \cup {k.id : k \in {j \in calls : j.id = flow.id}}
      /\ UNCHANGED <<rows, list, latest, pages>>
  BY <1>1, <1>3 DEF Settle, serverVars, listVars
<1>6. flow'.id = flow.id /\ flow'.phase = phase /\ flow' # None
  BY <1>2, <1>5, DistinctAssumption DEF Flows, Phases
<1>7. Runs(flow) => Runs(flow') /\ flow'.id = flow.id
  BY <1>1, <1>6 DEF Runs, Running
<1>8. \A j, k \in calls' : j \notin calls /\ j.id = k.id => j = k \/ j.id \in unsure'
  BY <1>4, <1>5
<1>9. \A k \in calls' : k.id = flow'.id /\ k.op \notin OfFlow => k.id \in unsure'
  BY <1>4, <1>5, <1>6 DEF OfFlow
<1> QED
  BY <1>1, <1>4, <1>5, <1>6, <1>7, <1>8, <1>9, QuietStep

(* Any step of a flow.                                                     *)
LEMMA FlowSteps ==
  ASSUME IInv, Types', Flow
  PROVE  IInv'
<1>1. CASE \E kind \in {"send", "import"} : Begin(kind)
  BY <1>1, BeginStep
<1>2. CASE flow # None /\ CreateFails
  <2>1. flow' = None /\ flow.phase = "create"
        /\ UNCHANGED <<rows, list, latest, pages, calls, unsure>>
    BY <1>2 DEF CreateFails, serverVars, listVars, history
  <2> QED
    BY <2>1, QuietStep DEF Runs, Running
<1>3. CASE /\ flow # None
           /\ \/ \E i \in Conversations, f \in NewPlaces : Create(i, f)
              \/ Created \/ Run \/ RunEnds \/ RunFails
  BY <1>3, CreateStep, CreatedStep, RunStep, SettleStep
<1> QED
  BY <1>1, <1>2, <1>3 DEF Flow

(* Every copy is right, or known not to be.                                *)
THEOREM Invariance == Spec => []IInv
<1>1. Init => IInv
  <2> SUFFICES ASSUME Init PROVE IInv
    OBVIOUS
  <2>1. Types
    BY InitTypes
  <2>2. flow = None /\ list.loaded = {}
    BY DEF Init
  <2>3. \A r \in pages : r.answer = None
    BY DEF Init
  <2>4. PICK look : look.answer = None /\ (calls = {} \/ calls = {look})
    <3>1. PICK look : look = Call("look", active, <<>>, FALSE, FALSE)
      OBVIOUS
    <3>2. look.answer = None /\ (calls = {} \/ calls = {look})
      BY <3>1 DEF Init, Call
    <3> QED
      BY <3>2
  <2> QED
    BY <2>1, <2>2, <2>3, <2>4
    DEF IInv, Copies, LoadedRight, PagesRight, Answering, AnswersRight, Tells, OneAtATime,
        MadeRight
<1>2. IInv /\ [Next]_vars => IInv'
  <2> SUFFICES ASSUME IInv, [Next]_vars PROVE IInv'
    OBVIOUS
  <2>1. Types'
    BY NextTypes DEF IInv
  <2>2. CASE vars' = vars
    <3>1. UNCHANGED <<rows, list, latest, pages, calls, flow, unsure>>
      BY <2>2 DEF vars, serverVars, listVars, history
    <3> QED
      BY <2>1, <3>1, QuietStep
  <2> QED
    BY <2>1, <2>2, FetchStep, PagesStep, CallsStep, FlowSteps, SidebarStep, DialogStep DEF Next
<1> QED
  BY <1>1, <1>2, PTL DEF Spec

(* What the tab loaded is what the server has, and the screen shows all    *)
(* that the filters let through.                                           *)
THEOREM LoadedIsUpToDate == Spec => []LoadedIsCurrent
<1>1. IInv => LoadedIsCurrent
  BY DEF IInv, Types, GoodList, Copies, LoadedRight, Right, Changing, Runs, IsRow, AtRest,
         LoadedIsCurrent
<1> QED
  BY <1>1, Invariance, PTL

-----------------------------------------------------------------------------
(* Nothing is lost: the count of loaded rows is an offset into the view of *)
(* the server, and the total is its size.  The argument follows the rows   *)
(* that pages brought: at least as many as are counted, and no row of the  *)
(* view comes before one of them without being one of them.                *)

(* A change, one that archives or restores, and one by which the row has   *)
(* left the view while the tab does not know of it yet.                    *)
Writing(k) == k.op \in {"patch", "ask"}
Archives(k) == Writing(k) /\ "archived" \in DOMAIN k.patch
Departed(k) == k.answer # None /\ (k.op = "delete" \/ Archives(k))

(* While nothing failed, no message is on its way and no change under way  *)
(* is one that offsets do not follow, the counters are watched.            *)
Calm == ~failed /\ unsure = {}
Idle == flow = None \/ flow.phase = "create"
Asking == \A k \in calls : Writing(k) => ~Shifts(k)
Watched == whole /\ Calm /\ Idle /\ Asking

(* What the server would list, and the loaded rows that left it.           *)
View == Found(list.archived, deferred)
Leaving == {i \in Ids(list.loaded) : \E k \in calls : k.id = i /\ Departed(k)}

(* Pages brought the rows of C: no row of the view comes before one of     *)
(* them that is not one of them.  The rows that are only here were created *)
(* in this tab, and no page brought them.                                  *)
Brought(C) ==
  /\ C \subseteq Ids(list.loaded) \ localOnly /\ IsFiniteSet(C)
  /\ list.count <= Cardinality(C)
  /\ \A c, d \in View : c.id \in C /\ Before(d, c) => d.id \in C

(* The count does not exceed what pages brought, and the total is not less *)
(* than the view with the rows whose departure is not known yet.           *)
Reached == \E C \in SUBSET Ids(list.loaded) : Brought(C)
Counted ==
  LET all == Ids(View) \cup Leaving
  IN  IsFiniteSet(all) /\ Cardinality(all) <= list.total /\ Ids(View) \cap Leaving = {}

(* Loaded rows are of the view or leave it, and of the side that is looked *)
(* at; a request moves a row to the other side, and more is asked for from *)
(* where the count ends.                                                   *)
Present == Ids(list.loaded) \subseteq Ids(View) \cup Leaving
Facing == \A c \in list.loaded : c.archived = list.archived
Archiving ==
  \A k \in calls : Archives(k) =>
    /\ k.patch.archived # list.archived
    /\ k.answer # None => k.answer.archived # list.archived
Appending ==
  latest = "append" => \A r \in pages : r.kind = "append" => r.from = list.count

CountsRight ==
  Watched => Reached /\ Counted /\ Present /\ Facing /\ Archiving /\ Appending

(* No two rows are of one time: the order of rows is strict and total.     *)
Ordered(cs) == \A c, d \in cs : c.at = d.at => c = d
ServerOrder ==
  \A i \in DOMAIN rows : /\ rows[i].at < clock
                         /\ \A j \in DOMAIN rows : rows[i].at = rows[j].at => i = j

(* A page that counts is as the server would answer now, while nothing is  *)
(* changed.                                                                *)
Quiet ==
  /\ flow = None \/ flow.phase \in {"create", "reload"}
  /\ \A k \in calls : k.op \in {"look", "settle"}
PagesFresh ==
  Calm /\ Quiet => \A r \in pages : r.answer # None /\ Current(r) => r.answer = PageOf(r)

(* What is shown is of the side that is looked at.                         *)
Faces(s) == \A c \in s.shown : c.archived = s.archived

(* A generation went wrong because a request failed, or on a row that is   *)
(* gone.                                                                   *)
WentWrong ==
  flow # None /\ flow.phase \in {"refused", "failed", "clean"} =>
    \/ failed
    \/ /\ flow.phase = "failed" /\ flow.id \notin DOMAIN rows
       /\ \A k \in calls : k.op = "settle" => k.answer = None

CountsInv == ServerOrder /\ Faces(list) /\ PagesFresh /\ CountsRight /\ WentWrong

-----------------------------------------------------------------------------
(* The order of rows, and places in it.                                    *)

(* Rows of different times come one before the other.                      *)
LEMMA BeforeIs ==
  ASSUME NEW V \in SUBSET Copy, Ordered(V)
  PROVE  /\ \A c \in V : ~Before(c, c)
         /\ \A c, d \in V : c # d => Before(c, d) \/ Before(d, c)
         /\ \A c, d \in V : Before(c, d) => ~Before(d, c)
         /\ \A b, c, d \in V : Before(b, c) /\ Before(c, d) => Before(b, d)
<1>1. \A c \in V : c.at \in Int /\ c.pinned \in BOOLEAN
  BY DEF Copy
<1> QED
  BY <1>1 DEF Before, Ordered

(* How many rows of V come before c.                                       *)
Place(V, c) == Cardinality({d \in V : Before(d, c)})

(* Places grow with the order, and no two rows have the same.              *)
LEMMA PlacesAre ==
  ASSUME NEW V \in SUBSET Copy, IsFiniteSet(V), Ordered(V)
  PROVE  /\ \A c \in V : Place(V, c) \in 0 .. Cardinality(V) - 1
         /\ \A c, d \in V : Before(c, d) => Place(V, c) < Place(V, d)
         /\ \A c, d \in V : Place(V, c) = Place(V, d) => c = d
<1>1. \A c \in V : IsFiniteSet({d \in V : Before(d, c)}) /\ Place(V, c) \in Nat
  <2> SUFFICES ASSUME NEW c \in V
               PROVE  IsFiniteSet({d \in V : Before(d, c)}) /\ Place(V, c) \in Nat
    OBVIOUS
  <2>1. {d \in V : Before(d, c)} \subseteq V
    OBVIOUS
  <2> QED
    BY <2>1, FS_Subset, FS_CardinalityType DEF Place
<1>2. ASSUME NEW c \in V, NEW T \in SUBSET V, \A d \in V : Before(d, c) => d \in T,
             c \in T
      PROVE  Place(V, c) < Cardinality(T)
  <2>1. {d \in V : Before(d, c)} \subseteq T \ {c}
    BY <1>2, BeforeIs
  <2>2. IsFiniteSet(T)
    BY FS_Subset
  <2>3. IsFiniteSet(T \ {c}) /\ Cardinality(T \ {c}) = Cardinality(T) - 1
    BY <1>2, <2>2, FS_RemoveElement
  <2>4. Place(V, c) <= Cardinality(T \ {c})
    BY <2>1, <2>3, FS_Subset DEF Place
  <2>5. Place(V, c) \in Nat /\ Cardinality(T) \in Nat
    BY <1>1, <2>2, FS_CardinalityType
  <2> QED
    BY <2>3, <2>4, <2>5
<1>3. \A c \in V : Place(V, c) \in 0 .. Cardinality(V) - 1
  <2> SUFFICES ASSUME NEW c \in V PROVE Place(V, c) \in 0 .. Cardinality(V) - 1
    OBVIOUS
  <2>1. Place(V, c) < Cardinality(V)
    <3>1. PICK T \in SUBSET V : T = V
      OBVIOUS
    <3> QED
      BY <1>2, <3>1
  <2>2. Cardinality(V) \in Nat /\ Place(V, c) \in Nat
    BY <1>1, FS_CardinalityType
  <2>3. \A p, m \in Nat : p < m => p \in 0 .. m - 1
    OBVIOUS
  <2> QED
    BY <2>1, <2>2, <2>3
<1>4. ASSUME NEW c \in V, NEW d \in V, Before(c, d) PROVE Place(V, c) < Place(V, d)
  <2>1. PICK T \in SUBSET V : T = {e \in V : Before(e, d)}
    OBVIOUS
  <2>2. c \in T /\ \A e \in V : Before(e, c) => e \in T
    BY <1>4, <2>1, BeforeIs
  <2> QED
    BY <1>2, <2>1, <2>2 DEF Place
<1>5. ASSUME NEW c \in V, NEW d \in V, Place(V, c) = Place(V, d) PROVE c = d
  <2>1. Place(V, c) \in Nat /\ Place(V, d) \in Nat
    BY <1>1
  <2>2. c # d => Before(c, d) \/ Before(d, c)
    BY BeforeIs
  <2>3. ~Before(c, d) /\ ~Before(d, c)
    BY <1>4, <1>5, <2>1
  <2> QED
    BY <2>2, <2>3
<1> QED
  BY <1>3, <1>4, <1>5

(* The n first rows are n.                                                 *)
LEMMA FirstAre ==
  ASSUME NEW V \in SUBSET Copy, IsFiniteSet(V), Ordered(V),
         NEW n \in Nat, n <= Cardinality(V)
  PROVE  LET first == {c \in V : Place(V, c) < n}
         IN  IsFiniteSet(first) /\ Cardinality(first) = n
<1> DEFINE m == Cardinality(V)
           f == [c \in V |-> Place(V, c)]
           first == {c \in V : Place(V, c) < n}
           g == [c \in first |-> Place(V, c)]
<1>1. m \in Nat
  BY FS_CardinalityType
<1>2. f \in Injection(V, 0 .. m - 1)
  <2>1. f \in [V -> 0 .. m - 1]
    BY PlacesAre
  <2>2. \A c, d \in V : f[c] = f[d] => c = d
    BY PlacesAre
  <2> QED
    BY <2>1, <2>2 DEF Injection, IsInjective
<1>3. \A k \in Nat : IsFiniteSet(0 .. k - 1) /\ Cardinality(0 .. k - 1) = k
  <2> SUFFICES ASSUME NEW k \in Nat
               PROVE  IsFiniteSet(0 .. k - 1) /\ Cardinality(0 .. k - 1) = k
    OBVIOUS
  <2>1. PICK j \in Int : j = k - 1
    OBVIOUS
  <2>2. IsFiniteSet(0 .. j) /\ Cardinality(0 .. j) = IF 0 > j THEN 0 ELSE j - 0 + 1
    BY FS_Interval
  <2> QED
    BY <2>1, <2>2
<1>4. f \in Surjection(V, 0 .. m - 1)
  <2> HIDE DEF f
  <2> QED
    BY <1>1, <1>2, <1>3, FS_Injection DEF m
<1>5. \A p \in 0 .. m - 1 : \E c \in V : Place(V, c) = p
  BY <1>4 DEF Surjection
<1>6. first \subseteq V /\ \A c \in first : Place(V, c) \in 0 .. n - 1
  BY PlacesAre, <1>1
<1>7. g \in Surjection(first, 0 .. n - 1)
  <2>1. \A p \in 0 .. n - 1 : \E c \in first : g[c] = p
    BY <1>1, <1>5
  <2>2. g \in [first -> 0 .. n - 1]
    BY <1>6
  <2> QED
    BY <2>1, <2>2 DEF Surjection
<1>8. g \in Injection(first, 0 .. n - 1)
  <2>1. g \in [first -> 0 .. n - 1]
    BY <1>6
  <2>2. \A c, d \in first : g[c] = g[d] => c = d
    BY <1>6, PlacesAre
  <2> QED
    BY <2>1, <2>2 DEF Injection, IsInjective
<1>9. IsFiniteSet(first) /\ IsFiniteSet(0 .. n - 1) /\ Cardinality(0 .. n - 1) = n
  BY <1>3, <1>6, FS_Subset
<1> HIDE DEF g, first
<1>10. Cardinality(first) = n
  BY <1>7, <1>8, <1>9, FS_Surjection
<1> QED
  BY <1>9, <1>10 DEF first

-----------------------------------------------------------------------------
(* The reducer keeps the books.                                            *)
SameBooks(t, s) ==
  t.loaded = s.loaded /\ t.total = s.total /\ t.count = s.count /\ t.archived = s.archived

(* What is shown is computed again.                                        *)
LEMMA DeriveBooks ==
  ASSUME NEW s \in Lists
  PROVE  SameBooks(Derive(s), s) /\ Faces(Derive(s))
<1>1. PICK v : v = Visible(s)
  OBVIOUS
<1>2. PICK t : t = [s EXCEPT !.shown = v]
  OBVIOUS
<1>3. /\ SameBooks(t, s) /\ t.shown = v /\ t.selected = s.selected
      /\ DOMAIN t = DOMAIN s
  BY <1>2 DEF Lists, SameBooks
<1>4. Derive(s) = [t EXCEPT !.selected = t.selected \cap Ids(t.shown)]
  BY <1>1, <1>2 DEF Derive, Prune
<1>5. SameBooks(Derive(s), t) /\ Derive(s).shown = v
  BY <1>2, <1>4 DEF SameBooks, Lists
<1>6. \A c \in v : c.archived = s.archived
  BY <1>1 DEF Visible, Matches
<1> QED
  BY <1>3, <1>5, <1>6 DEF SameBooks, Faces

(* Tags are taken off the filter.                                          *)
LEMMA KeepTagsBooks ==
  ASSUME NEW s \in Lists
  PROVE  SameBooks(KeepTags(s), s) /\ KeepTags(s) \in Lists
<1>1. PICK g : KeepTags(s) = [s EXCEPT !.tags = g]
  BY DEF KeepTags
<1>2. SameBooks(KeepTags(s), s)
  BY <1>1 DEF Lists, SameBooks
<1> QED
  BY <1>2, KeepTagsIs

(* The filters; the other side has another list.                           *)
LEMMA FilterBooks ==
  ASSUME NEW s, GoodList(s)
  PROVE  /\ \A v \in BOOLEAN :
              /\ SameBooks(SetSearch(s, v), s) /\ Faces(SetSearch(s, v))
              /\ Faces(SetShowArchived(s, v))
              /\ s.archived = v => SameBooks(SetShowArchived(s, v), s)
         /\ \A f \in Places \cup {Anywhere} :
              SameBooks(SetSelectedFolder(s, f), s) /\ Faces(SetSelectedFolder(s, f))
         /\ \A t \in Tags :
              SameBooks(ToggleSelectedTag(s, t), s) /\ Faces(ToggleSelectedTag(s, t))
<1>1. s \in Lists
  BY DEF GoodList
<1>2. ASSUME NEW v \in BOOLEAN
      PROVE  SameBooks(SetSearch(s, v), s) /\ Faces(SetSearch(s, v))
  <2>1. PICK t : t = [s EXCEPT !.search = v]
    OBVIOUS
  <2>2. t \in Lists /\ SameBooks(t, s)
    BY <1>1, <2>1 DEF Lists, SameBooks
  <2> QED
    BY <2>1, <2>2, DeriveBooks DEF SetSearch, SameBooks
<1>3. ASSUME NEW v \in BOOLEAN
      PROVE  /\ Faces(SetShowArchived(s, v))
             /\ s.archived = v => SameBooks(SetShowArchived(s, v), s)
  <2>1. PICK t : t = [s EXCEPT !.archived = v]
    OBVIOUS
  <2>2. t \in Lists /\ (s.archived = v => SameBooks(t, s))
    BY <1>1, <2>1 DEF Lists, SameBooks
  <2>3. SameBooks(KeepTags(t), t) /\ KeepTags(t) \in Lists
    BY <2>2, KeepTagsBooks
  <2>4. SetShowArchived(s, v) = Derive(KeepTags(t))
    BY <2>1 DEF SetShowArchived
  <2> QED
    BY <2>2, <2>3, <2>4, DeriveBooks DEF SameBooks
<1>4. ASSUME NEW f \in Places \cup {Anywhere}
      PROVE  SameBooks(SetSelectedFolder(s, f), s) /\ Faces(SetSelectedFolder(s, f))
  <2>1. PICK t : t = [s EXCEPT !.folder = f]
    OBVIOUS
  <2>2. t \in Lists /\ SameBooks(t, s)
    BY <1>1, <2>1 DEF Lists, SameBooks
  <2>3. SameBooks(KeepTags(t), t) /\ KeepTags(t) \in Lists
    BY <2>2, KeepTagsBooks
  <2>4. SetSelectedFolder(s, f) = Derive(KeepTags(t))
    BY <2>1 DEF SetSelectedFolder
  <2> QED
    BY <2>2, <2>3, <2>4, DeriveBooks DEF SameBooks
<1>5. ASSUME NEW t \in Tags
      PROVE  SameBooks(ToggleSelectedTag(s, t), s) /\ Faces(ToggleSelectedTag(s, t))
  <2>1. PICK g \in SUBSET Tags : ToggleSelectedTag(s, t) = Derive([s EXCEPT !.tags = g])
    <3>1. s.tags \in SUBSET Tags
      BY <1>1 DEF Lists
    <3>2. PICK h : h = IF t \in s.tags THEN s.tags \ {t} ELSE s.tags \cup {t}
      OBVIOUS
    <3> QED
      BY <3>1, <3>2 DEF ToggleSelectedTag
  <2>2. PICK u : u = [s EXCEPT !.tags = g]
    OBVIOUS
  <2>3. u \in Lists /\ SameBooks(u, s)
    BY <1>1, <2>2 DEF Lists, SameBooks
  <2> QED
    BY <2>1, <2>2, <2>3, DeriveBooks DEF SameBooks
<1> QED
  BY <1>2, <1>3, <1>4, <1>5

(* The selection and the flags.                                            *)
LEMMA SelectionBooks ==
  ASSUME NEW s, GoodList(s), Faces(s)
  PROVE  /\ \A v : SameBooks(SetSelectionMode(s, v), s) /\ Faces(SetSelectionMode(s, v))
         /\ \A i : SameBooks(ToggleSelection(s, i), s) /\ Faces(ToggleSelection(s, i))
         /\ \A t : t = [s EXCEPT !.selected = {}] => SameBooks(t, s) /\ Faces(t)
         /\ \A t, v : t = [s EXCEPT !.loading = v] => SameBooks(t, s) /\ Faces(t)
         /\ \A t, v : t = [s EXCEPT !.more = v] => SameBooks(t, s) /\ Faces(t)
         /\ \A r : SameBooks(Settled(s, r), s) /\ Faces(Settled(s, r))
<1>1. s \in Lists
  BY DEF GoodList
<1>2. ASSUME NEW t, NEW v, NEW w,
             \/ t = [s EXCEPT !.selecting = v, !.selected = w] \/ t = [s EXCEPT !.selected = v]
             \/ t = [s EXCEPT !.loading = v] \/ t = [s EXCEPT !.more = v]
             \/ t = [s EXCEPT !.loading = v, !.more = w]
      PROVE  SameBooks(t, s) /\ Faces(t)
  BY <1>1, <1>2 DEF Lists, SameBooks, Faces
<1>3. \A v : SameBooks(SetSelectionMode(s, v), s) /\ Faces(SetSelectionMode(s, v))
  <2> SUFFICES ASSUME NEW v
               PROVE  SameBooks(SetSelectionMode(s, v), s) /\ Faces(SetSelectionMode(s, v))
    OBVIOUS
  <2>1. PICK w : SetSelectionMode(s, v) = [s EXCEPT !.selecting = v, !.selected = w]
    BY DEF SetSelectionMode
  <2> QED
    BY <1>2, <2>1
<1>4. \A i : SameBooks(ToggleSelection(s, i), s) /\ Faces(ToggleSelection(s, i))
  <2>1. \A i : \E w : ToggleSelection(s, i) = [s EXCEPT !.selected = w]
    BY DEF ToggleSelection
  <2> QED
    BY <1>2, <2>1
<1>5. \A r : SameBooks(Settled(s, r), s) /\ Faces(Settled(s, r))
  <2>1. \A r : \E w : Settled(s, r) = [s EXCEPT !.loading = FALSE, !.more = w]
    BY DEF Settled
  <2> QED
    BY <1>2, <2>1
<1> QED
  BY <1>2, <1>3, <1>4, <1>5

(* A mutation sets what is loaded and adds to the counters.                *)
LEMMA MergedBooks ==
  ASSUME NEW s, GoodList(s), NEW loaded, NEW shown, NEW total, NEW count
  PROVE  LET t == Merged(s, loaded, shown, total, count)
         IN  /\ t.loaded = loaded /\ t.shown = shown /\ t.archived = s.archived
             /\ t.total = Later(s.total + total) /\ t.count = Later(s.count + count)
<1>1. s \in Lists
  BY DEF GoodList
<1>2. PICK n, m : n = Later(s.total + total) /\ m = Later(s.count + count)
  OBVIOUS
<1>3. PICK t : t = [s EXCEPT !.loaded = loaded, !.shown = shown, !.total = n, !.count = m]
  OBVIOUS
<1>4. /\ t.loaded = loaded /\ t.shown = shown /\ t.archived = s.archived
      /\ t.total = n /\ t.count = m
  BY <1>1, <1>3 DEF Lists
<1>5. \E g : Merged(s, loaded, shown, total, count) = [t EXCEPT !.selected = g]
  BY <1>2, <1>3 DEF Merged, Prune
<1>6. PICK g : Merged(s, loaded, shown, total, count) = [t EXCEPT !.selected = g]
  BY <1>5
<1>7. \A x \in {"loaded", "shown", "archived", "total", "count"} : [t EXCEPT !.selected = g][x] = t[x]
  BY <1>1, <1>3 DEF Lists
<1> QED
  BY <1>2, <1>4, <1>6, <1>7

-----------------------------------------------------------------------------
(* Steps that keep the books.                                              *)

(* The server answers the same of the same rows.                           *)
LEMMA ViewSame ==
  ASSUME rows' = rows
  PROVE  /\ \A r : PageOf(r)' = PageOf(r)
         /\ \A archived, search : Found(archived, search)' = Found(archived, search)
  BY DEF PageOf, Found

(* No page that counts grows old in a step that keeps the rows.            *)
LEMMA FreshStep ==
  ASSUME PagesFresh, rows' = rows,
         Calm' /\ Quiet' =>
           \/ Calm /\ Quiet /\ \A r \in pages' : r.answer # None /\ Current(r)' =>
                                                r \in pages /\ Current(r)
           \/ \A r \in pages' : r.answer # None => ~Current(r)'
  PROVE  PagesFresh'
  BY ViewSame DEF PagesFresh

(* The counters are what they were, and so is the view.                    *)
LEMMA SameStep ==
  ASSUME CountsInv,
         UNCHANGED <<rows, clock, deferred, localOnly, latest>>, pages' \subseteq pages,
         unsure \subseteq unsure', failed => failed', whole' => whole,
         Idle' => Idle, Quiet' => Quiet, WentWrong',
         SameBooks(list', list), Faces(list'),
         \A k \in calls : k \in calls' \/ k.op = "look",
         \A k \in calls' :
           \/ k \in calls
           \/ k.answer = None /\ (Archives(k) => k.patch.archived # list.archived)
  PROVE  CountsInv'
<1>1. ServerOrder'
  BY DEF CountsInv, ServerOrder
<1>2. Calm' => Calm
  BY DEF Calm
<1>3. \A r : Current(r)' = Current(r)
  BY DEF Current, SameBooks
<1>4. PagesFresh'
  BY <1>2, <1>3, FreshStep DEF CountsInv
<1>5. \A k : Shifts(k)' = Shifts(k)
  BY DEF Shifts, SameBooks, Ids
<1>6. Watched' => Watched
  BY <1>2, <1>5 DEF Watched, Asking, Writing
<1>7. View' = View /\ Leaving' = Leaving
  <2>1. View' = View
    BY ViewSame DEF View, SameBooks
  <2>2. \A k \in calls : Departed(k) => k \in calls'
    BY DEF Departed, Archives, Writing
  <2>3. \A k \in calls' : Departed(k) => k \in calls
    BY DEF Departed
  <2>4. \A i : (\E k \in calls' : k.id = i /\ Departed(k)) <=> (\E k \in calls : k.id = i /\ Departed(k))
    BY <2>2, <2>3
  <2>5. Ids(list'.loaded) = Ids(list.loaded)
    BY DEF SameBooks
  <2> QED
    BY <2>1, <2>4, <2>5 DEF Leaving, Departed, Archives, Writing
<1>8. CountsRight'
  <2> SUFFICES ASSUME Watched'
               PROVE  Reached' /\ Counted' /\ Present' /\ Facing' /\ Archiving' /\ Appending'
    BY DEF CountsRight
  <2>1. Reached /\ Counted /\ Present /\ Facing /\ Archiving /\ Appending
    BY <1>6 DEF CountsInv, CountsRight
  <2>2. Reached'
    BY <1>7, <2>1 DEF Reached, Brought, SameBooks
  <2>3. Counted' /\ Present' /\ Facing'
    BY <1>7, <2>1 DEF Counted, Present, Facing, SameBooks
  <2>4. Archiving'
    BY <2>1 DEF Archiving, Archives, Writing, SameBooks
  <2>5. Appending'
    BY <2>1 DEF Appending, SameBooks
  <2> QED
    BY <2>2, <2>3, <2>4, <2>5
<1> QED
  BY <1>1, <1>4, <1>8 DEF CountsInv

(* A list keeps its own books.                                             *)
LEMMA BooksSame == SameBooks(list, list)
  BY DEF SameBooks

(* Nothing changes but what the screen shows.                              *)
LEMMA ScreenStep ==
  ASSUME CountsInv,
         UNCHANGED <<rows, clock, deferred, localOnly, latest, pages, calls, flow, unsure,
                     failed, whole>>,
         SameBooks(list', list), Faces(list')
  PROVE  CountsInv'
<1>1. Idle' = Idle /\ Quiet' = Quiet /\ WentWrong'
  BY DEF Idle, Quiet, CountsInv, WentWrong
<1> QED
  BY <1>1, SameStep

(* Search, filters and selection.                                          *)
LEMMA ShownCounts ==
  ASSUME IInv, CountsInv,
         \/ Search \/ SetSelecting
         \/ \E f \in {Anywhere, Unfiled}
                       \cup {c.folder : c \in {d \in list.loaded : d.archived = list.archived}} :
              SelectFolder(f)
         \/ \E t \in Tags : ToggleTag(t)
         \/ \E c \in list.shown : ToggleSelected(c)
  PROVE  CountsInv'
<1>1. /\ GoodList(list) /\ list.search \in BOOLEAN /\ list.selecting \in BOOLEAN
      /\ \A c \in list.loaded : c.folder \in Places /\ Faces(list)
  BY DEF IInv, Types, GoodList, Lists, Copy, CountsInv
<1>2. Faces(list)
  BY DEF CountsInv
<1>3. \E s : SameBooks(s, list) /\ Faces(s) /\ Reduce(s) /\ failed' = failed
  <2>1. CASE Search
    <3>1. (~list.search) \in BOOLEAN
      BY <1>1
    <3> QED
      BY <1>1, <2>1, <3>1, FilterBooks DEF Search, Move
  <2>2. CASE SetSelecting
    BY <1>1, <1>2, <2>2, SelectionBooks DEF SetSelecting, Move
  <2>3. ASSUME NEW f \in {Anywhere, Unfiled}
                           \cup {c.folder : c \in {d \in list.loaded : d.archived = list.archived}},
               SelectFolder(f)
        PROVE  \E s : SameBooks(s, list) /\ Faces(s) /\ Reduce(s) /\ failed' = failed
    <3>1. f \in Places \cup {Anywhere}
      BY <1>1 DEF Places
    <3> QED
      BY <1>1, <2>3, <3>1, FilterBooks DEF SelectFolder, Move
  <2>4. ASSUME NEW t \in Tags, ToggleTag(t)
        PROVE  \E s : SameBooks(s, list) /\ Faces(s) /\ Reduce(s) /\ failed' = failed
    BY <1>1, <2>4, FilterBooks DEF ToggleTag, Move
  <2>5. ASSUME NEW c \in list.shown, ToggleSelected(c)
        PROVE  \E s : SameBooks(s, list) /\ Faces(s) /\ Reduce(s) /\ failed' = failed
    BY <1>1, <1>2, <2>5, SelectionBooks DEF ToggleSelected, Move
  <2> QED
    BY <2>1, <2>2, <2>3, <2>4, <2>5
<1>4. /\ SameBooks(list', list) /\ Faces(list') /\ failed' = failed
      /\ UNCHANGED <<rows, clock, deferred, localOnly, latest, pages, calls, flow, unsure, whole>>
  BY <1>3 DEF Reduce, serverVars, history
<1> QED
  BY <1>4, ScreenStep

(* Another query.                                                          *)
LEMMA FetchCounts ==
  ASSUME IInv, CountsInv, Defer \/ ShowArchived \/ NewChat
  PROVE  CountsInv'
<1>1. /\ GoodList(list) /\ list.search \in BOOLEAN /\ (~list.archived) \in BOOLEAN
      /\ deferred \in BOOLEAN /\ FALSE \in BOOLEAN /\ list.archived \in BOOLEAN
      /\ Faces(list)
  BY DEF IInv, Types, GoodList, Lists, TabTypes, CountsInv
<1>2. /\ UNCHANGED <<rows, clock, localOnly, flow, unsure, failed>> /\ calls' \subseteq calls
      /\ \A k \in calls : k \in calls' \/ k.op = "look"
  BY DEF Defer, ShowArchived, NewChat, NotLooking, serverVars, bounds, Move
<1>3. Idle' = Idle /\ (Quiet' => Quiet) /\ WentWrong'
  BY <1>2 DEF Idle, Quiet, CountsInv, WentWrong
<1>4. ASSUME NEW s, GoodList(s), Faces(s), NEW search, Fetch(s, search) PROVE CountsInv'
  <2>1. PICK new : new = Request("effect", s.archived, search, search, 0)
    OBVIOUS
  <2>2. new.answer = None
    BY <2>1 DEF Request
  <2>3. /\ list' = [s EXCEPT !.loading = TRUE] /\ latest' = "effect" /\ whole' = FALSE
        /\ pages' = {r \in pages : r.kind # "effect"} \cup {new}
    BY <1>4, <2>1 DEF Fetch
  <2>4. Faces(list')
    BY <1>4, <2>3, SelectionBooks
  <2>5. \A r \in pages' : r.answer # None => ~Current(r)'
    BY <2>2, <2>3 DEF Current
  <2>6. PagesFresh'
    BY <1>2, <2>5, FreshStep DEF CountsInv
  <2>7. ServerOrder'
    BY <1>2 DEF CountsInv, ServerOrder
  <2> QED
    BY <1>3, <2>3, <2>4, <2>6, <2>7 DEF CountsInv, CountsRight, Watched
<1>5. CASE Defer
  BY <1>1, <1>4, <1>5 DEF Defer
<1>6. CASE ShowArchived
  BY <1>1, <1>4, <1>6, FiltersAre, FilterBooks DEF ShowArchived, Reduces
<1>7. CASE NewChat /\ list.archived
  BY <1>1, <1>4, <1>7, FiltersAre, FilterBooks DEF NewChat, Reduces
<1>8. CASE NewChat /\ ~list.archived
  <2>1. list' = SetShowArchived(list, FALSE) /\ UNCHANGED <<deferred, latest, whole, pages>>
    BY <1>8 DEF NewChat
  <2>2. SameBooks(list', list) /\ Faces(list')
    BY <1>1, <1>8, <2>1, FilterBooks
  <2> QED
    BY <1>2, <1>3, <2>1, <2>2, SameStep
<1> QED
  BY <1>5, <1>6, <1>7, <1>8

(* More is asked for: what follows what is loaded.                         *)
LEMMA LoadMoreCounts ==
  ASSUME IInv, CountsInv, LoadMore
  PROVE  CountsInv'
<1>1. PICK new : new = Request("append", list.archived, deferred, deferred, list.count)
  OBVIOUS
<1>2. new.kind = "append" /\ new.answer = None /\ new.from = list.count
  BY <1>1 DEF Request
<1>3. /\ list' = [list EXCEPT !.more = TRUE] /\ pages' = pages \cup {new} /\ ~list.more
      /\ latest' = "append"
      /\ UNCHANGED <<rows, clock, localOnly, deferred, calls, flow, unsure, failed, whole>>
  BY <1>1 DEF LoadMore, Move, serverVars, history
<1>4. \A r \in pages : r.kind # "append"
  BY <1>3 DEF IInv, Types, PageTypes
<1>5. SameBooks(list', list) /\ Faces(list')
  BY <1>3, SelectionBooks DEF IInv, Types, CountsInv
<1>6. \A r \in pages' : r.answer # None => ~Current(r)'
  BY <1>2, <1>3, <1>4 DEF Current
<1>7. PagesFresh'
  BY <1>3, <1>6, FreshStep DEF CountsInv
<1>8. ServerOrder' /\ WentWrong'
  BY <1>3 DEF CountsInv, ServerOrder, WentWrong
<1>9. \A k : Shifts(k)' = Shifts(k)
  BY <1>3, <1>5 DEF Shifts, SameBooks, Ids
<1>10. Watched' => Watched
  BY <1>3, <1>9 DEF Watched, Asking, Writing, Idle, Calm
<1>11. View' = View /\ Leaving' = Leaving
  BY <1>3, <1>5, ViewSame DEF View, SameBooks, Leaving, Departed, Archives, Writing
<1>12. CountsRight'
  <2> SUFFICES ASSUME Watched'
               PROVE  Reached' /\ Counted' /\ Present' /\ Facing' /\ Archiving' /\ Appending'
    BY DEF CountsRight
  <2>1. Reached /\ Counted /\ Present /\ Facing /\ Archiving /\ Appending
    BY <1>10 DEF CountsInv, CountsRight
  <2>2. Reached'
    BY <1>3, <1>5, <1>11, <2>1 DEF Reached, Brought, SameBooks
  <2>3. Counted' /\ Present' /\ Facing'
    BY <1>5, <1>11, <2>1 DEF Counted, Present, Facing, SameBooks
  <2>4. Archiving'
    BY <1>3, <1>5, <2>1 DEF Archiving, Archives, Writing, SameBooks
  <2>5. Appending'
    BY <1>2, <1>3, <1>4, <1>5 DEF Appending, SameBooks
  <2> QED
    BY <2>2, <2>3, <2>4, <2>5
<1> QED
  BY <1>5, <1>7, <1>8, <1>12 DEF CountsInv

(* A request about one conversation.                                       *)
LEMMA CallCounts ==
  ASSUME CountsInv, NEW new, new.answer = None,
         Archives(new) => new.patch.archived # list.archived,
         \A k \in calls' : k \in calls \/ k = new,
         \A k \in calls : k \in calls' \/ k.op = "look",
         unsure \subseteq unsure',
         UNCHANGED <<rows, clock, list, deferred, localOnly, latest, pages, flow, failed, whole>>
  PROVE  CountsInv'
<1>1. Idle' = Idle /\ (Quiet' => Quiet)
  BY DEF Idle, Quiet
<1>2. WentWrong'
  BY DEF CountsInv, WentWrong
<1>3. SameBooks(list', list) /\ Faces(list')
  BY DEF SameBooks, CountsInv, Faces
<1> QED
  BY <1>1, <1>2, <1>3, SameStep

(* A conversation is opened, pinned or archived.                           *)
LEMMA OpenCounts ==
  ASSUME IInv, CountsInv, NEW c \in list.shown, Open(c) \/ TogglePinned(c) \/ ToggleArchived(c)
  PROVE  CountsInv'
<1>1. c.archived = list.archived /\ c.archived \in BOOLEAN
  BY DEF CountsInv, Faces, IInv, Types, GoodList, Lists, Copy
<1> DEFINE Made(new) ==
             /\ new.answer = None
             /\ Archives(new) => new.patch.archived # list.archived
             /\ \A k \in calls' : k \in calls \/ k = new
             /\ \A k \in calls : k \in calls' \/ k.op = "look"
             /\ unsure \subseteq unsure'
             /\ UNCHANGED <<rows, clock, list, deferred, localOnly, latest, pages, flow,
                            failed, whole>>
<1>2. CASE Open(c)
  <2>1. PICK new : new = Call("look", c.id, <<>>, FALSE, FALSE)
    OBVIOUS
  <2>2. new.answer = None /\ ~Archives(new)
    BY <2>1 DEF Call, Archives, Writing
  <2>3. Made(new)
    BY <1>2, <2>1, <2>2 DEF Open, Move, NotLooking, Doubts, serverVars, listVars
  <2> QED
    BY <2>3, CallCounts
<1>3. CASE TogglePinned(c)
  <2>1. PICK new : new = Call("patch", c.id, [pinned |-> ~c.pinned], deferred, FALSE)
    OBVIOUS
  <2>2. new.answer = None /\ ~Archives(new)
    BY <2>1 DEF Call, Archives, Writing
  <2>3. Made(new)
    BY <1>3, <2>1, <2>2 DEF TogglePinned, Ask, Move, Doubts, serverVars, listVars
  <2> QED
    BY <2>3, CallCounts
<1>4. CASE ToggleArchived(c)
  <2>1. PICK home : home = (active = c.id /\ c.archived = list.archived)
    OBVIOUS
  <2>2. PICK new : new = Call("patch", c.id, [archived |-> ~c.archived], deferred, home)
    OBVIOUS
  <2>3. new.answer = None /\ new.patch.archived = ~c.archived
    BY <2>2 DEF Call
  <2>4. Made(new)
    BY <1>1, <1>4, <2>1, <2>2, <2>3
    DEF ToggleArchived, Ask, Move, Doubts, serverVars, listVars
  <2> QED
    BY <2>4, CallCounts
<1> QED
  BY <1>2, <1>3, <1>4

(* What the user does in the sidebar,                                      *)
LEMMA SidebarCounts ==
  ASSUME IInv, CountsInv, Sidebar
  PROVE  CountsInv'
<1>1. CASE \/ Search \/ SetSelecting
           \/ \E f \in {Anywhere, Unfiled}
                         \cup {c.folder : c \in {d \in list.loaded : d.archived = list.archived}} :
                SelectFolder(f)
           \/ \E t \in Tags : ToggleTag(t)
           \/ \E c \in list.shown : ToggleSelected(c)
  BY <1>1, ShownCounts
<1>2. CASE ShowArchived \/ NewChat
  BY <1>2, FetchCounts
<1>3. CASE LoadMore
  BY <1>3, LoadMoreCounts
<1>4. ASSUME NEW c \in list.shown, Open(c) \/ TogglePinned(c) \/ ToggleArchived(c)
      PROVE  CountsInv'
  BY <1>4, OpenCounts
<1>5. CASE \/ \E c \in list.shown, op \in Single : AskAboutOne(op, c)
           \/ \E op \in Many : AskAboutSelected(op)
  <2>1. UNCHANGED <<rows, clock, deferred, localOnly, latest, pages, calls, flow, unsure,
                    failed, whole, list>>
    BY <1>5 DEF AskAboutOne, AskAboutSelected, OpenDialog, Move, serverVars, listVars, history
  <2>2. SameBooks(list', list) /\ Faces(list')
    BY <2>1 DEF SameBooks, CountsInv, Faces
  <2> QED
    BY <2>1, <2>2, ScreenStep
<1> QED
  BY <1>1, <1>2, <1>3, <1>4, <1>5 DEF Sidebar

(* and in dialogs.                                                         *)
LEMMA DialogCounts ==
  ASSUME IInv, CountsInv, Dialog
  PROVE  CountsInv'
<1>1. CASE dialog # None /\ (Cancel \/ \E v \in Values(dialog.op) : Submit(v))
  <2>1. UNCHANGED <<rows, clock, deferred, localOnly, latest, pages, calls, flow, unsure,
                    failed, whole, list>>
    BY <1>1 DEF Cancel, Submit, serverVars, listVars, history, bounds
  <2>2. SameBooks(list', list) /\ Faces(list')
    BY <2>1 DEF SameBooks, CountsInv, Faces
  <2> QED
    BY <2>1, <2>2, ScreenStep
<1>2. ASSUME NEW b \in batches, BatchEnds(b) PROVE CountsInv'
  <2>1. UNCHANGED <<rows, clock, deferred, localOnly, latest, pages, calls, flow, unsure,
                    failed, whole>>
    BY <1>2 DEF BatchEnds, serverVars, history, bounds
  <2>2. SameBooks(list', list) /\ Faces(list')
    <3>1. GoodList(list) /\ Faces(list)
      BY DEF IInv, Types, CountsInv
    <3>2. list' = list \/ list' = [list EXCEPT !.selected = {}]
      BY <1>2 DEF BatchEnds
    <3> QED
      BY <3>1, <3>2, SelectionBooks, BooksSame
  <2> QED
    BY <2>1, <2>2, ScreenStep
<1>3. ASSUME NEW b \in batches, NEW c \in b.left, AskNext(b, c) PROVE CountsInv'
  <2>1. b.op \in Single
    BY DEF IInv, Types, DialogTypes, GoodBatch, BatchSet
  <2>2. PICK patch : patch = PatchOf(b.op, b.value, c)
    OBVIOUS
  <2>3. CallOf(b.op) = "ask" => "archived" \notin DOMAIN patch
    BY <2>1, <2>2 DEF PatchOf, CallOf, Single
  <2>4. PICK home : home = (b.op = "delete" /\ b.open = c.id)
    OBVIOUS
  <2>5. PICK new : new = Call(CallOf(b.op), c.id, patch, b.search, home)
    OBVIOUS
  <2>6. new.answer = None /\ new.op = CallOf(b.op) /\ new.patch = patch
    BY <2>5 DEF Call
  <2>7. ~Archives(new)
    BY <2>3, <2>6 DEF Archives, Writing, CallOf
  <2>8. Ask(CallOf(b.op), c.id, patch, b.search, home) /\ UNCHANGED <<bounds, dialog>>
    BY <1>3, <2>2, <2>4 DEF AskNext
  <2>9. /\ calls' = calls \cup {new} /\ unsure \subseteq unsure'
        /\ UNCHANGED <<rows, clock, list, deferred, localOnly, latest, pages, flow,
                       failed, whole>>
    BY <2>5, <2>8 DEF Ask, Doubts, serverVars, listVars, bounds
  <2> QED
    BY <2>6, <2>7, <2>9, CallCounts
<1> QED
  BY <1>1, <1>2, <1>3 DEF Dialog

-----------------------------------------------------------------------------
(* Pages.                                                                  *)

(* The server answers: that page is fresh.                                 *)
LEMMA AnswerPageCounts ==
  ASSUME IInv, CountsInv, NEW r \in pages, AnswerPage(r)
  PROVE  CountsInv'
<1>1. PICK p : p = PageOf(r)
  OBVIOUS
<1>2. PICK new : new = [r EXCEPT !.answer = p]
  OBVIOUS
<1>3. r \in PageSet
  BY DEF IInv, Types, PageTypes, GoodPage
<1>4. /\ new.answer = p /\ new.kind = r.kind /\ new.from = r.from
      /\ new.archived = r.archived /\ new.search = r.search
  BY <1>2, <1>3 DEF PageSet
<1>5. /\ pages' = (pages \ {r}) \cup {new}
      /\ UNCHANGED <<rows, clock, list, deferred, localOnly, latest, calls, flow, unsure,
                     failed, whole>>
  BY <1>1, <1>2 DEF AnswerPage, serverVars, listVars, bounds, history
<1>6. PageOf(new) = p
  BY <1>1, <1>4 DEF PageOf
<1>7. \A q : Current(q)' = Current(q)
  BY <1>5 DEF Current
<1>8. PagesFresh'
  <2>1. Quiet' = Quiet /\ Calm' = Calm
    BY <1>5 DEF Quiet, Calm
  <2> QED
    BY <1>4, <1>5, <1>6, <1>7, <2>1, ViewSame DEF CountsInv, PagesFresh
<1>9. ServerOrder' /\ WentWrong' /\ Faces(list')
  BY <1>5 DEF CountsInv, ServerOrder, WentWrong, Faces
<1>10. Watched' = Watched
  BY <1>5 DEF Watched, Asking, Writing, Idle, Calm, Shifts, Ids
<1>11. View' = View /\ Leaving' = Leaving
  BY <1>5, ViewSame DEF View, Leaving, Departed, Archives, Writing
<1>12. CountsRight'
  <2> SUFFICES ASSUME Watched'
               PROVE  Reached' /\ Counted' /\ Present' /\ Facing' /\ Archiving' /\ Appending'
    BY DEF CountsRight
  <2>1. Reached /\ Counted /\ Present /\ Facing /\ Archiving /\ Appending
    BY <1>10 DEF CountsInv, CountsRight
  <2>2. Reached'
    BY <1>5, <1>11, <2>1 DEF Reached, Brought
  <2>3. Counted' /\ Present' /\ Facing'
    BY <1>5, <1>11, <2>1 DEF Counted, Present, Facing
  <2>4. Archiving' /\ Appending'
    BY <1>4, <1>5, <2>1 DEF Archiving, Archives, Writing, Appending
  <2> QED
    BY <2>2, <2>3, <2>4
<1> QED
  BY <1>8, <1>9, <1>12 DEF CountsInv

(* A request that failed says nothing about what follows.                  *)
LEMMA PageFailsCounts ==
  ASSUME IInv, CountsInv, NEW r \in pages, PageFails(r)
  PROVE  CountsInv'
<1>1. /\ failed' /\ rows' = rows /\ clock' = clock /\ list' = Settled(list, r)
      /\ AfterReload(r)
  BY DEF PageFails, Fault, serverVars
<1>2. Faces(list')
  BY <1>1, SelectionBooks DEF IInv, Types, CountsInv
<1>3. ServerOrder' /\ WentWrong'
  BY <1>1 DEF CountsInv, ServerOrder, WentWrong
<1>4. ~Calm'
  BY <1>1 DEF Calm
<1> QED
  BY <1>2, <1>3, <1>4 DEF CountsInv, PagesFresh, CountsRight, Watched

(* So does one about a conversation.                                       *)
LEMMA CallFailsCounts ==
  ASSUME IInv, CountsInv, NEW k \in calls, CallFails(k)
  PROVE  CountsInv'
<1>1. Waits(flow, k)
  BY DEF IInv, Types, CallTypes
<1>2. /\ rows' = rows /\ clock' = clock /\ unsure' # {} /\ calls' \subseteq calls
      /\ failed => failed'
  BY DEF CallFails, GoHome, serverVars, Fault, bounds
<1>3. list' = list \/ list' = [list EXCEPT !.loading = TRUE]
  BY DEF CallFails
<1>4. Faces(list')
  BY <1>3, SelectionBooks DEF IInv, Types, CountsInv
<1>5. flow' = flow \/ flow' = None \/ (flow # None /\ flow' = [flow EXCEPT !.phase = "reload"])
  BY <1>1 DEF CallFails, Waits
<1>6. WentWrong'
  <2>1. CASE flow # None /\ flow' = [flow EXCEPT !.phase = "reload"]
    <3>1. flow \in Flows
      BY <2>1 DEF IInv, Types, FlowTypes, GoodFlow
    <3>2. flow'.phase = "reload"
      BY <2>1, <3>1 DEF Flows
    <3> QED
      BY <3>2 DEF WentWrong
  <2> QED
    BY <1>2, <1>5, <2>1 DEF CountsInv, WentWrong
<1>7. ServerOrder' /\ ~Calm'
  BY <1>2 DEF CountsInv, ServerOrder, Calm
<1> QED
  BY <1>4, <1>6, <1>7 DEF CountsInv, PagesFresh, CountsRight, Watched

-----------------------------------------------------------------------------
(* Messages and imports.                                                   *)

(* Until the server took it, a message or file changes nothing.            *)
LEMMA BeginCounts ==
  ASSUME IInv, CountsInv, NEW kind \in {"send", "import"}, Begin(kind)
  PROVE  CountsInv'
<1>1. /\ flow = None /\ flow'.phase \in {"run", "create"}
      /\ unsure \subseteq unsure'
      /\ UNCHANGED <<rows, clock, list, deferred, localOnly, latest, pages, calls, failed, whole>>
  BY DEF Begin, serverVars, listVars
<1>2. Idle /\ (Quiet' => Quiet) /\ WentWrong'
  BY <1>1 DEF Idle, Quiet, WentWrong
<1>3. SameBooks(list', list) /\ Faces(list')
  BY <1>1 DEF SameBooks, CountsInv, Faces
<1> QED
  BY <1>1, <1>2, <1>3, SameStep

(* A creation that failed,                                                 *)
LEMMA CreateFailsCounts ==
  ASSUME IInv, CountsInv, flow # None, CreateFails
  PROVE  CountsInv'
<1>1. /\ failed' /\ flow' = None
      /\ UNCHANGED <<rows, clock, list, deferred, localOnly, latest, pages, calls, whole, unsure>>
  BY DEF CreateFails, Fault, serverVars, listVars, history
<1>2. ServerOrder' /\ WentWrong' /\ ~Calm' /\ Faces(list')
  BY <1>1 DEF CountsInv, ServerOrder, WentWrong, Calm, Faces
<1> QED
  BY <1>2 DEF CountsInv, PagesFresh, CountsRight, Watched

(* one that was done,                                                      *)
LEMMA CreateCounts ==
  ASSUME IInv, CountsInv, flow # None, NEW i \in Conversations, NEW folder \in NewPlaces,
         Create(i, folder)
  PROVE  CountsInv'
<1>1. PICK row : /\ rows' = [j \in DOMAIN rows \cup {i} |-> IF j = i THEN row ELSE rows[j]]
                 /\ row.at = clock
                 /\ flow' = [flow EXCEPT !.id = i, !.row = row, !.phase = "made"]
  BY DEF Create
<1>2. /\ i \notin DOMAIN rows /\ clock \in Nat /\ clock' = clock + 1 /\ list' = list
      /\ \A j \in DOMAIN rows : rows[j] \in Copy /\ rows[j].at \in Int
  BY DEF Create, IInv, Types, ServerTypes, Copy, listVars
<1>3. ServerOrder'
  <2>1. DOMAIN rows' = DOMAIN rows \cup {i} /\ rows'[i].at = clock
        /\ \A j \in DOMAIN rows : rows'[j].at = rows[j].at
    BY <1>1, <1>2
  <2>2. \A j \in DOMAIN rows : /\ rows[j].at < clock
                               /\ \A l \in DOMAIN rows : rows[j].at = rows[l].at => j = l
    BY DEF CountsInv, ServerOrder
  <2>3. ASSUME NEW j \in DOMAIN rows', NEW l \in DOMAIN rows'
        PROVE  rows'[j].at < clock' /\ (rows'[j].at = rows'[l].at => j = l)
    BY <1>2, <2>1, <2>2
  <2> QED
    BY <2>3 DEF ServerOrder
<1>4. flow' # None /\ flow'.phase = "made"
  <2>1. flow \in Flows
    BY DEF IInv, Types, FlowTypes, GoodFlow
  <2>2. flow'.phase = "made"
    BY <1>1, <2>1 DEF Flows
  <2>3. flow' # None
    BY NextTypes, <2>1, <1>1, CreateIs, DistinctAssumption DEF IInv, GoodFlow
  <2> QED
    BY <2>2, <2>3
<1>5. ~Idle' /\ ~Quiet' /\ WentWrong' /\ Faces(list')
  BY <1>2, <1>4 DEF Idle, Quiet, WentWrong, CountsInv, Faces
<1> QED
  BY <1>3, <1>5 DEF CountsInv, PagesFresh, CountsRight, Watched

(* a message that was stored,                                              *)
LEMMA RunCounts ==
  ASSUME IInv, CountsInv, flow # None, Run
  PROVE  CountsInv'
<1>1. /\ flow.phase = "run" /\ flow.id \in DOMAIN rows /\ flow \in Flows
      /\ rows[flow.id] \in Copy /\ clock \in Nat
      /\ \A j \in DOMAIN rows : rows[j] \in Copy /\ rows[j].at \in Int
  BY DEF Run, IInv, Types, FlowTypes, GoodFlow, ServerTypes, Copy
<1>2. /\ rows' = [rows EXCEPT ![flow.id].at = clock] /\ flow' = [flow EXCEPT !.phase = "ran"]
      /\ clock' = clock + 1 /\ list' = list
  BY DEF Run, listVars
<1>3. flow'.phase = "ran" /\ flow' # None
  BY <1>1, <1>2, DistinctAssumption DEF Flows, Phases
<1>4. ServerOrder'
  <2>1. /\ DOMAIN rows' = DOMAIN rows /\ rows'[flow.id].at = clock
        /\ \A j \in DOMAIN rows : j # flow.id => rows'[j].at = rows[j].at
    BY <1>1, <1>2 DEF Copy
  <2>2. \A j \in DOMAIN rows : /\ rows[j].at < clock
                               /\ \A l \in DOMAIN rows : rows[j].at = rows[l].at => j = l
    BY DEF CountsInv, ServerOrder
  <2>3. ASSUME NEW j \in DOMAIN rows', NEW l \in DOMAIN rows'
        PROVE  rows'[j].at < clock' /\ (rows'[j].at = rows'[l].at => j = l)
    BY <1>1, <1>2, <2>1, <2>2
  <2> QED
    BY <2>3 DEF ServerOrder
<1>5. ~Idle' /\ ~Quiet' /\ WentWrong' /\ Faces(list')
  BY <1>2, <1>3 DEF Idle, Quiet, WentWrong, CountsInv, Faces
<1> QED
  BY <1>4, <1>5 DEF CountsInv, PagesFresh, CountsRight, Watched

(* and the end of its generation.                                          *)
LEMMA SettleCounts ==
  ASSUME IInv, CountsInv, flow # None, RunEnds \/ RunFails
  PROVE  CountsInv'
<1>1. PICK phase \in {"settle", "refused", "failed"} :
        /\ Settle(phase) /\ flow.phase \in {"run", "ran"}
        /\ \/ phase = "settle" /\ failed' = failed
           \/ failed'
           \/ phase = "failed" /\ flow.id \notin DOMAIN rows /\ flow.phase = "run"
              /\ failed' = failed
  BY DEF RunEnds, RunFails, Fault, bounds
<1>2. flow \in Flows /\ flow.phase \notin {"settle", "refused", "failed"}
  BY <1>1 DEF IInv, Types, FlowTypes, GoodFlow
<1>3. PICK new : new = Call("settle", flow.id, <<>>, FALSE, FALSE)
  OBVIOUS
<1>4. new.op = "settle" /\ new.id = flow.id /\ new.answer = None /\ ~Archives(new)
  BY <1>3 DEF Call, Archives, Writing
<1>5. /\ flow' = [flow EXCEPT !.phase = phase] /\ calls' = calls \cup {new}
      /\ unsure \subseteq unsure'
      /\ UNCHANGED <<rows, clock, list, deferred, localOnly, latest, pages, whole>>
  BY <1>1, <1>3 DEF Settle, serverVars, listVars
<1>6. flow'.id = flow.id /\ flow'.phase = phase /\ flow' # None
  BY <1>2, <1>5, DistinctAssumption DEF Flows, Phases
<1>7. ~Idle' /\ ~Quiet'
  BY <1>6 DEF Idle, Quiet
<1>8. \A k \in calls : k.op # "settle"
  BY <1>2 DEF IInv, Types, CallTypes, Waits
<1>9. WentWrong'
  BY <1>1, <1>4, <1>5, <1>6, <1>8 DEF WentWrong
<1>10. SameBooks(list', list) /\ Faces(list') /\ (failed => failed')
  BY <1>1, <1>5 DEF SameBooks, CountsInv, Faces
<1> QED
  BY <1>4, <1>5, <1>7, <1>9, <1>10, SameStep

(* An answer shows rows of this side.                                      *)
LEMMA SyncBooks ==
  ASSUME NEW s, GoodList(s), NEW c, NEW search, NEW counting
  PROVE  LET t == Sync(s, c, search, counting)
         IN  /\ Faces(t) /\ t.loaded = With(s, c, search) /\ t.archived = s.archived
             /\ t.total = Later(s.total + TotalChange(s, c, search, counting))
             /\ t.count = Later(s.count + CountChange(s, c, search, counting))
<1>1. s \in Lists
  BY DEF GoodList
<1>2. PICK loaded : loaded = With(s, c, search)
  OBVIOUS
<1>3. PICK n : n = [s EXCEPT !.loaded = loaded]
  OBVIOUS
<1>4. n.archived = s.archived
  BY <1>1, <1>3 DEF Lists
<1>5. PICK shown : shown = ShownAfter(s, c, loaded)
  OBVIOUS
<1>6. \A d \in shown : d.archived = s.archived
  BY <1>3, <1>4, <1>5 DEF ShownAfter, Visible, Matches
<1>7. PICK total, count : /\ total = TotalChange(s, c, search, counting)
                          /\ count = CountChange(s, c, search, counting)
  OBVIOUS
<1>8. Sync(s, c, search, counting) = Merged(s, loaded, shown, total, count)
  BY <1>2, <1>5, <1>7 DEF Sync
<1> QED
  BY <1>2, <1>6, <1>7, <1>8, MergedBooks DEF Faces

(* A new conversation shows rows of this side too.                         *)
LEMMA InsertedFaces ==
  ASSUME GoodList(list), NEW c, NEW search
  PROVE  Faces(Inserted(c, search))
<1>1. list \in Lists
  BY DEF GoodList
<1>2. PICK loaded : loaded = With(list, c, search)
  OBVIOUS
<1>3. PICK n : n = [list EXCEPT !.loaded = loaded]
  OBVIOUS
<1>4. n.archived = list.archived
  BY <1>1, <1>3 DEF Lists
<1>5. PICK shown : shown = Visible(n)
  OBVIOUS
<1>6. \A d \in shown : d.archived = list.archived
  BY <1>4, <1>5 DEF Visible, Matches
<1>7. PICK total, count : Inserted(c, search) = Merged(list, loaded, shown, total, count)
  BY <1>2, <1>3, <1>5 DEF Inserted
<1> QED
  BY <1>6, <1>7, MergedBooks DEF Faces

(* The counters are not watched before the page that follows.              *)
LEMMA CreatedCounts ==
  ASSUME IInv, CountsInv, flow # None, Created
  PROVE  CountsInv'
<1>1. /\ flow.phase = "made" /\ flow'.phase = IF flow.kind = "import" THEN "reload" ELSE "run"
      /\ GoodFlow(flow')
  BY CreatedIs DEF IInv
<1>2. PICK s : /\ s = Inserted(flow.row, flow.search) /\ Reduces(s, list)
               /\ IF flow.kind = "import" THEN list' = [s EXCEPT !.loading = TRUE]
                                          ELSE list' = s
  BY CreatedIs DEF IInv
<1>3. flow' # None /\ flow'.phase \in {"reload", "run"}
  BY <1>1, DistinctAssumption DEF GoodFlow
<1>4. Faces(list')
  <2>1. Faces(s)
    BY <1>2, InsertedFaces DEF IInv, Types
  <2> QED
    BY <1>2, <2>1, SelectionBooks DEF Reduces
<1>5. rows' = rows /\ clock' = clock
  BY DEF Created, serverVars
<1>6. ServerOrder' /\ WentWrong' /\ ~Idle'
  BY <1>3, <1>5 DEF CountsInv, ServerOrder, WentWrong, Idle
<1>7. PagesFresh'
  <2>1. CASE flow.kind = "import"
    <3>1. latest' = "reload" /\ pages' = pages \cup {Reload(flow.search)}
      BY <2>1 DEF Created
    <3>2. \A r \in pages : r.kind # "reload"
      BY <1>1 DEF IInv, Types, PageTypes, Reloading
    <3>3. Reload(flow.search).answer = None
      BY DEF Reload, Request
    <3>4. \A r \in pages' : r.answer # None => ~Current(r)'
      BY <3>1, <3>2, <3>3 DEF Current
    <3> QED
      BY <1>5, <3>4, FreshStep DEF CountsInv
  <2>2. CASE flow.kind # "import"
    <3>1. ~Quiet'
      BY <1>1, <1>3, <2>2 DEF Quiet
    <3> QED
      BY <3>1 DEF PagesFresh
  <2> QED
    BY <2>1, <2>2
<1> QED
  BY <1>4, <1>6, <1>7 DEF CountsInv, CountsRight, Watched

(* After a generation the first page is loaded again.                      *)
LEMMA ReconciledCounts ==
  ASSUME IInv, CountsInv, NEW k \in calls, k.answer # None, Reconciled(k), UNCHANGED serverVars,
         UNCHANGED bounds
  PROVE  CountsInv'
<1>1. /\ k.op = "settle" /\ flow # None /\ flow.phase \in {"settle", "refused", "failed"}
  BY DEF Reconciled, IInv, Types, CallTypes, Waits
<1>2. flow \in Flows /\ GoodList(list) /\ k.answer \in Copy
  BY <1>1, AnswerIs DEF IInv, Types, FlowTypes, GoodFlow
<1>3. rows' = rows /\ clock' = clock /\ failed' = failed
  BY DEF serverVars, bounds
<1>4. Faces(list')
  <2>1. PICK s : s = Sync(list, k.answer, deferred, FALSE)
    OBVIOUS
  <2>2. Faces(s)
    BY <1>2, <2>1, SyncBooks
  <2>3. GoodList(s)
    <3>1. PICK off : off = FALSE
      OBVIOUS
    <3>2. Reduces(Sync(list, k.answer, deferred, off), list)
      BY <1>2, SyncIs
    <3> QED
      BY <2>1, <3>1, <3>2 DEF Reduces
  <2>4. PICK v : list' = [s EXCEPT !.loading = v]
    BY <2>1 DEF Reconciled
  <2> QED
    BY <2>2, <2>3, <2>4, SelectionBooks
<1>5. CASE flow.phase = "settle"
  <2>1. /\ latest' = "reload" /\ pages' = pages \cup {Reload(flow.search)}
        /\ flow' = [flow EXCEPT !.phase = "reload"]
    BY <1>5 DEF Reconciled
  <2>2. \A r \in pages : r.kind # "reload"
    BY <1>5 DEF IInv, Types, PageTypes, Reloading
  <2>3. Reload(flow.search).answer = None
    BY DEF Reload, Request
  <2>4. \A r \in pages' : r.answer # None => ~Current(r)'
    BY <2>1, <2>2, <2>3 DEF Current
  <2>5. PagesFresh'
    BY <1>3, <2>4, FreshStep DEF CountsInv
  <2>6. flow'.phase = "reload" /\ flow' # None
    BY <1>2, <2>1, DistinctAssumption DEF Flows, Phases
  <2>7. ServerOrder' /\ WentWrong' /\ ~Idle'
    BY <1>3, <2>6 DEF CountsInv, ServerOrder, WentWrong, Idle
  <2> QED
    BY <1>4, <2>5, <2>7 DEF CountsInv, CountsRight, Watched
<1>6. CASE flow.phase # "settle"
  <2>1. failed
    BY <1>1, <1>6 DEF CountsInv, WentWrong
  <2>2. ServerOrder' /\ WentWrong' /\ ~Calm'
    BY <1>3, <2>1 DEF CountsInv, ServerOrder, WentWrong, Calm
  <2> QED
    BY <1>4, <2>2 DEF CountsInv, PagesFresh, CountsRight, Watched
<1> QED
  BY <1>5, <1>6

-----------------------------------------------------------------------------
(* Answers about conversations.                                            *)

(* The rows of a view.                                                     *)
LEMMA IdsAre ==
  ASSUME NEW cs, IsFiniteSet(cs), Distinct(cs)
  PROVE  IsFiniteSet(Ids(cs)) /\ Cardinality(Ids(cs)) = Cardinality(cs)
<1> DEFINE f == [c \in cs |-> c.id]
<1>1. f \in Bijection(cs, Ids(cs))
  <2>1. f \in [cs -> Ids(cs)]
    BY DEF Ids
  <2>2. \A c, d \in cs : f[c] = f[d] => c = d
    BY DEF Distinct
  <2>3. \A i \in Ids(cs) : \E c \in cs : f[c] = i
    BY DEF Ids
  <2> HIDE DEF f
  <2> QED
    BY <2>1, <2>2, <2>3 DEF Bijection, Injection, IsInjective, Surjection
<1> QED
  BY <1>1, FS_Bijection DEF ExistsBijection

(* A view: finitely many rows, none twice, of one side.                    *)
LEMMA ViewIs ==
  ASSUME ServerTypes, ServerOrder, NEW archived, NEW search
  PROVE  LET V == Found(archived, search) IN
         /\ V \in SUBSET Copy /\ IsFiniteSet(V) /\ Ordered(V) /\ Distinct(V)
         /\ IsFiniteSet(Ids(V)) /\ Cardinality(Ids(V)) = Cardinality(V)
         /\ \A c \in V : IsRow(c) /\ c.archived = archived /\ c.at < clock
         /\ \A i \in DOMAIN rows : rows[i] \in V <=>
              rows[i].archived = archived /\ (search => rows[i].hit \/ i \in Mentioned)
<1> DEFINE V == Found(archived, search)
           all == {rows[i] : i \in DOMAIN rows}
<1>1. IsFiniteSet(all)
  <2> DEFINE f == [i \in DOMAIN rows |-> rows[i]]
  <2>1. f \in Surjection(DOMAIN rows, all)
    BY DEF Surjection
  <2> QED
    BY <2>1, FS_Surjection DEF ServerTypes
<1>2. \A c \in all : c \in Copy /\ IsRow(c) /\ c.at < clock
  BY DEF ServerTypes, ServerOrder, IsRow
<1>3. V \subseteq all
  BY DEF Found
<1>4. Ordered(V) /\ Distinct(V)
  BY <1>2, <1>3 DEF Ordered, Distinct, IsRow, ServerOrder
<1>5. IsFiniteSet(V)
  BY <1>1, <1>3, FS_Subset
<1>6. IsFiniteSet(Ids(V)) /\ Cardinality(Ids(V)) = Cardinality(V)
  BY <1>4, <1>5, IdsAre
<1>7. \A c \in V : c.archived = archived
  BY DEF Found
<1>8. \A i \in DOMAIN rows : rows[i] \in V <=>
        rows[i].archived = archived /\ (search => rows[i].hit \/ i \in Mentioned)
  BY DEF Found, ServerTypes
<1> QED
  BY <1>2, <1>3, <1>4, <1>5, <1>6, <1>7, <1>8

(* The fields of a row that is changed.                                    *)
LEMMA PatchedFields ==
  ASSUME NEW row \in Copy, NEW patch \in Patches
  PROVE  LET p == Patched(row, patch) IN
         /\ p.at = clock
         /\ p.pinned = IF "pinned" \in DOMAIN patch THEN patch.pinned ELSE row.pinned
         /\ p.archived = IF "archived" \in DOMAIN patch THEN patch.archived ELSE row.archived
         /\ p.hit = IF "hit" \in DOMAIN patch THEN patch.hit ELSE row.hit
<1>1. CASE patch \in [pinned : BOOLEAN]
  BY <1>1 DEF Patched, Copy
<1>2. CASE patch \in [archived : BOOLEAN]
  BY <1>2 DEF Patched, Copy
<1>3. CASE patch \in [hit : BOOLEAN]
  BY <1>3 DEF Patched, Copy
<1>4. CASE patch \in [folder : Places]
  BY <1>4 DEF Patched, Copy
<1>5. CASE patch \in [tags : SUBSET Tags]
  BY <1>5 DEF Patched, Copy
<1> QED
  BY <1>1, <1>2, <1>3, <1>4, <1>5 DEF Patches

(* No row of V outside C comes before one of C.                            *)
Closed(V, C) == \A c, d \in V : c.id \in C /\ Before(d, c) => d.id \in C

(* A row that is changed moves up, and may take the place it left with it: *)
(* an initial part of the view, with the row if it moved into it.          *)
LEMMA TouchIs ==
  ASSUME NEW V \in SUBSET Copy, Distinct(V), NEW old \in V, NEW new \in Copy,
         new.id = old.id, \A d \in V : d.at < new.at, old.pinned => new.pinned,
         NEW L, old.id \in L, NEW C \in SUBSET L, Closed(V, C)
  PROVE  \E D \in SUBSET L : /\ D = C \/ D = C \cup {old.id}
                             /\ Closed((V \ {old}) \cup {new}, D)
<1> USE DEF Closed
<1>1. /\ \A c \in V : c.at \in Int /\ c.pinned \in BOOLEAN
      /\ new.at \in Int /\ new.pinned \in BOOLEAN
  BY DEF Copy
<1>2. \A c \in V : c.id = old.id => c = old
  BY DEF Distinct
<1>3. CASE new.pinned \/ \E x \in V : x.id \in C /\ ~x.pinned
  <2> DEFINE D == C \cup {old.id}
  <2>1. ASSUME NEW c \in (V \ {old}) \cup {new}, NEW d \in (V \ {old}) \cup {new},
               c.id \in D, Before(d, c)
        PROVE  d.id \in D
    <3>1. CASE d = new
      BY <3>1
    <3>2. CASE d # new /\ c = new
      <4>1. d \in V /\ d.pinned /\ ~new.pinned
        BY <1>1, <2>1, <3>2 DEF Before
      <4>2. PICK x \in V : x.id \in C /\ ~x.pinned
        BY <1>3, <4>1
      <4>3. Before(d, x)
        BY <1>1, <4>1, <4>2 DEF Before
      <4> QED
        BY <4>1, <4>2, <4>3
    <3>3. CASE d # new /\ c # new
      <4>1. c \in V /\ d \in V /\ c.id \in C
        BY <1>2, <2>1, <3>3
      <4> QED
        BY <2>1, <4>1
    <3> QED
      BY <3>1, <3>2, <3>3
  <2>2. D \in SUBSET L
    OBVIOUS
  <2> QED
    BY <2>1, <2>2
<1>4. CASE ~new.pinned /\ \A x \in V : x.id \in C => x.pinned
  <2>1. ASSUME NEW c \in (V \ {old}) \cup {new}, NEW d \in (V \ {old}) \cup {new},
               c.id \in C, Before(d, c)
        PROVE  d.id \in C
    <3>1. CASE c = new
      BY <1>4, <2>1, <3>1
    <3>2. CASE c # new
      <4>1. c \in V /\ c.pinned
        BY <1>4, <2>1, <3>2
      <4>2. d # new
        BY <1>1, <1>4, <2>1, <4>1 DEF Before
      <4> QED
        BY <2>1, <4>1, <4>2
    <3> QED
      BY <3>1, <3>2
  <2> QED
    BY <2>1
<1> QED
  BY <1>3, <1>4

(* The server takes a request: what it knew of the row is on its way.      *)
LEMMA ServedIs ==
  ASSUME Types, NEW k \in calls, Serve(k)
  PROVE  /\ \E new : /\ calls' = (calls \ {k}) \cup {new} /\ new.op = k.op /\ new.id = k.id
                     /\ new.patch = k.patch /\ new.answer # None
                     /\ k.id \in DOMAIN rows' => new.answer = rows'[k.id]
         /\ k.answer = None /\ k.id \in DOMAIN rows
         /\ UNCHANGED <<list, deferred, localOnly, latest, pages, flow, unsure, failed, whole>>
         /\ k.op \in Operations
<1>1. k \in CallSet
  BY DEF Types, CallTypes, GoodCall
<1>2. PICK answer : answer = IF k.id \in DOMAIN rows' THEN rows'[k.id] ELSE rows[k.id]
  OBVIOUS
<1>3. PICK new : new = [k EXCEPT !.answer = answer]
  OBVIOUS
<1>4. new.op = k.op /\ new.id = k.id /\ new.patch = k.patch /\ new.answer = answer
  BY <1>1, <1>3 DEF CallSet
<1>5. calls' = (calls \ {k}) \cup {new}
  BY <1>2, <1>3 DEF Serve
<1>6. ServerTypes'
  BY ServeIs
<1>7. answer \in Copy
  <2>1. ServerTypes /\ k.id \in DOMAIN rows
    BY DEF Types, Serve
  <2> QED
    BY <1>2, <1>6, <2>1 DEF ServerTypes
<1>8. answer # None
  BY <1>7, DistinctAssumption
<1>9. k.id \in DOMAIN rows' => new.answer = rows'[k.id]
  BY <1>2, <1>4
<1> QED
  BY <1>1, <1>4, <1>5, <1>8, <1>9 DEF Serve, listVars, history, bounds, CallSet

(* What a request makes of the rows.                                       *)
LEMMA ServedRows ==
  ASSUME Types, ServerOrder, NEW k \in calls, Serve(k)
  PROVE  /\ ServerOrder' /\ ServerTypes' /\ DOMAIN rows' \subseteq DOMAIN rows
         /\ clock' \in Nat /\ clock <= clock'
         /\ k.op \in {"look", "settle"} => rows' = rows
         /\ Writing(k) =>
              LET new == Patched(rows[k.id], k.patch)
              IN  /\ new \in Copy /\ new.id = k.id /\ DOMAIN rows' = DOMAIN rows
                  /\ rows'[k.id] = new
                  /\ \A i \in DOMAIN rows \ {k.id} : rows'[i] = rows[i]
         /\ k.op = "delete" =>
              /\ DOMAIN rows' = DOMAIN rows \ {k.id}
              /\ \A i \in DOMAIN rows' : rows'[i] = rows[i]
<1>1. /\ ServerTypes /\ GoodCall(k) /\ k \in CallSet /\ k.id \in DOMAIN rows
      /\ rows[k.id] \in Copy /\ rows[k.id].id = k.id /\ clock \in Nat
      /\ \A j \in DOMAIN rows : rows[j] \in Copy /\ rows[j].at \in Int
  BY DEF Types, CallTypes, GoodCall, ServerTypes, Serve, Copy
<1>2. ServerTypes'
  BY ServeIs
<1>3. \A j \in DOMAIN rows : /\ rows[j].at < clock
                             /\ \A l \in DOMAIN rows : rows[j].at = rows[l].at => j = l
  BY DEF ServerOrder
<1>4. CASE Writing(k)
  <2>1. PICK new : new = Patched(rows[k.id], k.patch)
    OBVIOUS
  <2>2. new \in Copy /\ new.id = k.id /\ new.at = clock
    BY <1>1, <1>4, <2>1, PatchedIs, PatchedFields DEF GoodCall, Writing
  <2>3. rows' = [rows EXCEPT ![k.id] = new] /\ clock' = clock + 1
    BY <1>4, <2>1 DEF Serve, Writing
  <2>4. /\ DOMAIN rows' = DOMAIN rows /\ rows'[k.id] = new
        /\ \A i \in DOMAIN rows \ {k.id} : rows'[i] = rows[i]
    BY <1>1, <2>3
  <2>5. ASSUME NEW j \in DOMAIN rows', NEW l \in DOMAIN rows'
        PROVE  rows'[j].at < clock' /\ (rows'[j].at = rows'[l].at => j = l)
    BY <1>1, <1>3, <2>2, <2>3, <2>4
  <2>6. ServerOrder'
    BY <2>5 DEF ServerOrder
  <2> QED
    BY <1>1, <1>2, <1>4, <2>1, <2>2, <2>3, <2>4, <2>6 DEF Writing
<1>5. CASE k.op \in {"delete", "clean"}
  <2>1. rows' = [i \in DOMAIN rows \ {k.id} |-> rows[i]] /\ clock' = clock
    BY <1>5 DEF Serve
  <2>2. /\ DOMAIN rows' = DOMAIN rows \ {k.id}
        /\ \A i \in DOMAIN rows' : rows'[i] = rows[i]
    BY <2>1
  <2>3. ServerOrder'
    BY <1>3, <2>1, <2>2 DEF ServerOrder
  <2> QED
    BY <1>1, <1>2, <1>5, <2>1, <2>2, <2>3 DEF Writing
<1>6. CASE k.op \in {"look", "settle"}
  <2>1. rows' = rows /\ clock' = clock
    BY <1>6 DEF Serve
  <2>2. ServerOrder'
    BY <1>3, <2>1 DEF ServerOrder
  <2> QED
    BY <1>1, <1>2, <1>6, <2>1, <2>2 DEF Writing
<1> QED
  BY <1>1, <1>4, <1>5, <1>6 DEF CallSet, Operations, Writing

(* Of a row that is loaded, watched and asked about once.                  *)
LEMMA AskedIs ==
  ASSUME IInv, CountsInv, Watched, NEW k \in calls, k.answer = None, k.id \in Ids(list.loaded)
  PROVE  /\ k.id \in Ids(View) /\ k.id \notin Leaving
         /\ k.id \in DOMAIN rows /\ rows[k.id] \in View /\ rows[k.id].id = k.id
<1>1. \A j \in calls : j.id = k.id => j = k
  BY DEF IInv, Answering, OneAtATime, Watched, Calm
<1>2. k.id \notin Leaving
  BY <1>1 DEF Leaving, Departed
<1>3. k.id \in Ids(View)
  BY <1>2 DEF CountsInv, CountsRight, Present
<1>4. PICK c \in View : c.id = k.id
  BY <1>3 DEF Ids
<1>5. IsRow(c)
  BY <1>4, ViewIs DEF View, IInv, Types, CountsInv
<1> QED
  BY <1>2, <1>3, <1>4, <1>5 DEF IsRow

(* A row that goes is leaving; one that stays moves up.                    *)
LEMMA ServeCounts ==
  ASSUME IInv, CountsInv, NEW k \in calls, Serve(k)
  PROVE  CountsInv'
<1>1. Types /\ ServerOrder /\ ServerTypes /\ Waits(flow, k) /\ GoodCall(k)
  BY DEF IInv, CountsInv, Types, CallTypes
<1>2. PICK new : /\ calls' = (calls \ {k}) \cup {new} /\ new.op = k.op /\ new.id = k.id
                 /\ new.patch = k.patch /\ new.answer # None
                 /\ k.id \in DOMAIN rows' => new.answer = rows'[k.id]
  BY <1>1, ServedIs
<1>3. /\ k.answer = None /\ k.id \in DOMAIN rows /\ k.op \in Operations
      /\ UNCHANGED <<list, deferred, localOnly, latest, pages, flow, unsure, failed, whole>>
  BY <1>1, ServedIs
<1>4. /\ ServerOrder' /\ ServerTypes' /\ DOMAIN rows' \subseteq DOMAIN rows
      /\ k.op \in {"look", "settle"} => rows' = rows
  BY <1>1, ServedRows
<1>5. PagesFresh'
  <2>1. CASE k.op \in {"look", "settle"}
    <3>1. Calm' = Calm /\ (Quiet' => Quiet) /\ \A r : Current(r)' = Current(r)
      BY <1>2, <1>3, <2>1 DEF Calm, Quiet, Current
    <3> QED
      BY <1>3, <1>4, <2>1, <3>1, FreshStep DEF CountsInv
  <2>2. CASE k.op \notin {"look", "settle"}
    <3>1. ~Quiet'
      BY <1>2, <2>2 DEF Quiet
    <3> QED
      BY <3>1 DEF PagesFresh
  <2> QED
    BY <2>1, <2>2
<1>6. WentWrong'
  BY <1>1, <1>2, <1>3, <1>4 DEF CountsInv, WentWrong, Waits
<1>7. Watched' => Watched
  BY <1>2, <1>3 DEF Watched, Asking, Writing, Idle, Calm, Shifts, Ids
<1> SUFFICES ASSUME Watched, Watched'
             PROVE  Reached' /\ Counted' /\ Present' /\ Facing' /\ Archiving' /\ Appending'
  BY <1>3, <1>4, <1>5, <1>6, <1>7 DEF CountsInv, CountsRight, Faces
<1>8. Reached /\ Counted /\ Present /\ Facing /\ Archiving /\ Appending
  BY DEF CountsInv, CountsRight
<1>9. Facing' /\ Archiving' /\ Appending'
  <2>1. ASSUME Archives(k) PROVE new.answer.archived # list.archived
    <3>1. rows[k.id] \in Copy /\ k.patch \in Patches
      BY <1>1, <1>3, <2>1 DEF ServerTypes, GoodCall, Archives, Writing
    <3>2. PICK p : p = Patched(rows[k.id], k.patch)
      OBVIOUS
    <3>3. p.archived = k.patch.archived /\ rows'[k.id] = p /\ DOMAIN rows' = DOMAIN rows
      BY <1>1, <2>1, <3>1, <3>2, PatchedFields, ServedRows DEF Archives
    <3> QED
      BY <1>2, <1>3, <1>8, <2>1, <3>3 DEF Archiving
  <2>2. Archives(new) <=> Archives(k)
    BY <1>2 DEF Archives, Writing
  <2>3. \A j \in calls : Archives(j) =>
          /\ j.patch.archived # list.archived
          /\ j.answer # None => j.answer.archived # list.archived
    BY <1>8 DEF Archiving
  <2>4. \A j \in calls' : Archives(j) =>
          /\ j.patch.archived # list.archived
          /\ j.answer # None => j.answer.archived # list.archived
    BY <1>2, <2>1, <2>2, <2>3
  <2> QED
    BY <1>3, <1>8, <2>4 DEF Facing, Archiving, Archives, Writing, Appending
<1>10. \A j \in calls : j.id = k.id => j = k
  BY DEF IInv, Answering, OneAtATime, Watched, Calm
<1>11. /\ \A i \in Leaving : i # k.id
       /\ \A i : i \in Leaving' <=> \/ i \in Leaving
                                    \/ i = k.id /\ i \in Ids(list.loaded) /\ Departed(new)
  <2>1. \A j : Departed(j)' = Departed(j)
    BY DEF Departed, Archives, Writing
  <2> QED
    BY <1>2, <1>3, <1>10, <2>1 DEF Leaving, Departed, Ids
<1>12. Departed(new) <=> k.op = "delete" \/ Archives(k)
  BY <1>2 DEF Departed, Archives, Writing
<1> DEFINE V == View  W == View'
<1>13. /\ V \in SUBSET Copy /\ IsFiniteSet(V) /\ Ordered(V) /\ Distinct(V)
       /\ \A c \in V : IsRow(c) /\ c.at < clock
       /\ \A i \in DOMAIN rows : rows[i] \in V <=>
            rows[i].archived = list.archived /\ (deferred => rows[i].hit \/ i \in Mentioned)
  BY <1>1, ViewIs DEF View
<1>14. /\ \A c \in W : c.id \in DOMAIN rows' /\ rows'[c.id] = c
       /\ \A i \in DOMAIN rows' : rows'[i] \in W <=>
            rows'[i].archived = list.archived /\ (deferred => rows'[i].hit \/ i \in Mentioned)
  <2>1. /\ W = {c \in {rows'[i] : i \in DOMAIN rows'} :
                  c.archived = list.archived /\ (deferred => c.hit \/ c.id \in Mentioned)}
    BY <1>3 DEF View, Found
  <2>2. \A i \in DOMAIN rows' : rows'[i].id = i
    BY <1>4 DEF ServerTypes
  <2> QED
    BY <2>1, <2>2
<1> HIDE DEF V, W
<1>15. CASE k.op \in {"look", "settle"}
  <2>1. W = V
    BY <1>3, <1>4, <1>15, ViewSame DEF V, W, View
  <2>2. Leaving' = Leaving
    BY <1>11, <1>12, <1>15 DEF Archives, Writing
  <2>3. Counted' /\ Present' /\ Reached'
    BY <1>3, <1>8, <2>1, <2>2 DEF Counted, Present, Reached, Brought, V, W
  <2> QED
    BY <1>9, <2>3
<1>16. CASE k.op = "delete" \/ Archives(k)
  <2>1. \A c \in W : c \in V /\ c.id # k.id
    <3>1. CASE k.op = "delete"
      <4>1. /\ DOMAIN rows' = DOMAIN rows \ {k.id}
            /\ \A i \in DOMAIN rows' : rows'[i] = rows[i]
        BY <1>1, <3>1, ServedRows
      <4> QED
        BY <1>13, <1>14, <4>1
    <3>2. CASE Archives(k)
      <4>1. PICK p : p = Patched(rows[k.id], k.patch)
        OBVIOUS
      <4>2. /\ DOMAIN rows' = DOMAIN rows /\ rows'[k.id] = p
            /\ \A i \in DOMAIN rows \ {k.id} : rows'[i] = rows[i]
        BY <1>1, <3>2, <4>1, ServedRows DEF Archives
      <4>3. p.archived # list.archived
        <5>1. rows[k.id] \in Copy /\ k.patch \in Patches
          BY <1>1, <1>3, <3>2 DEF ServerTypes, GoodCall, Archives, Writing
        <5>2. p.archived = k.patch.archived
          BY <3>2, <4>1, <5>1, PatchedFields DEF Archives
        <5> QED
          BY <1>8, <3>2, <5>2 DEF Archiving
      <4> QED
        BY <1>13, <1>14, <4>2, <4>3
    <3> QED
      BY <1>16, <3>1, <3>2
  <2>2. \A c \in V : c.id # k.id => c \in W
    <3>1. \A i \in DOMAIN rows \ {k.id} : i \in DOMAIN rows' /\ rows'[i] = rows[i]
      BY <1>1, ServeIs
    <3> QED
      BY <1>13, <1>14, <3>1 DEF IsRow
  <2>3. \A i : i \in Leaving' <=> i \in Leaving \/ (i = k.id /\ i \in Ids(list.loaded))
    BY <1>11, <1>12, <1>16
  <2>4. Present'
    BY <1>3, <1>8, <2>1, <2>2, <2>3 DEF Present, Ids, V, W
  <2>5. Ids(W) \cup Leaving' \subseteq Ids(V) \cup Leaving
    <3>1. k.id \in Ids(list.loaded) => k.id \in Ids(V) \cup Leaving
      BY <1>8 DEF Present, V
    <3> QED
      BY <2>1, <2>3, <3>1 DEF Ids
  <2>6. Counted'
    <3>1. PICK all, left : all = Ids(V) \cup Leaving /\ left = Ids(W) \cup Leaving'
      OBVIOUS
    <3>2. IsFiniteSet(all) /\ Cardinality(all) <= list.total /\ left \subseteq all
      BY <1>8, <2>5, <3>1 DEF Counted, V
    <3>3. IsFiniteSet(left) /\ Cardinality(left) <= Cardinality(all)
      BY <3>2, FS_Subset
    <3>4. Cardinality(left) \in Nat /\ Cardinality(all) \in Nat /\ list.total \in Nat
      BY <3>2, <3>3, FS_CardinalityType DEF IInv, Types, GoodList, Lists
    <3>5. IsFiniteSet(left) /\ Cardinality(left) <= list.total
      BY <3>2, <3>3, <3>4
    <3>6. Ids(W) \cap Leaving' = {}
      BY <1>8, <2>1, <2>3 DEF Counted, Ids, V
    <3> QED
      BY <1>3, <3>1, <3>5, <3>6 DEF Counted, W
  <2>7. Reached'
    BY <1>3, <1>8, <2>1 DEF Reached, Brought, V, W
  <2> QED
    BY <1>9, <2>4, <2>6, <2>7
<1>17. CASE Writing(k) /\ ~Archives(k)
  <2>1. ~Shifts(k)
    BY <1>17 DEF Watched, Asking
  <2>2. /\ k.id \in Ids(list.loaded) /\ k.id \notin localOnly
        /\ "archived" \notin DOMAIN k.patch
        /\ "pinned" \in DOMAIN k.patch => k.patch.pinned
        /\ deferred => "hit" \notin DOMAIN k.patch
    BY <1>17, <2>1 DEF Shifts, Archives
  <2>3. PICK old : old = rows[k.id]
    OBVIOUS
  <2>4. old \in V /\ old.id = k.id /\ old \in Copy
    BY <1>3, <1>13, <2>2, <2>3, AskedIs DEF V
  <2>5. PICK p : p = Patched(old, k.patch)
    OBVIOUS
  <2>6. k.patch \in Patches
    BY <1>1, <1>17 DEF GoodCall, Writing
  <2>7. /\ p \in Copy /\ p.id = k.id /\ DOMAIN rows' = DOMAIN rows /\ rows'[k.id] = p
        /\ \A i \in DOMAIN rows \ {k.id} : rows'[i] = rows[i]
    BY <1>1, <1>17, <2>3, <2>5, ServedRows
  <2>8. /\ p.at = clock /\ p.archived = old.archived /\ (old.pinned => p.pinned)
        /\ deferred => p.hit = old.hit
    BY <2>2, <2>4, <2>5, <2>6, PatchedFields
  <2>9. W = (V \ {old}) \cup {p}
    <3>1. p \in W
      <4>1. k.id \in DOMAIN rows' /\ k.id \in DOMAIN rows
        BY <1>3, <2>7
      <4> QED
        BY <1>13, <1>14, <2>3, <2>4, <2>7, <2>8, <4>1
    <3>2. \A c \in W : c = p \/ (c \in V /\ c # old)
      BY <1>13, <1>14, <2>4, <2>7
    <3>3. \A c \in V : c = old \/ c \in W
      <4>1. ASSUME NEW c \in V, c # old PROVE c \in W
        <5>1. c.id # k.id /\ c.id \in DOMAIN rows /\ rows[c.id] = c
          BY <1>13, <2>4, <4>1 DEF Distinct, IsRow
        <5> QED
          BY <1>13, <1>14, <2>7, <5>1
      <4> QED
        BY <4>1
    <3>4. old \notin W \/ old = p
      BY <3>2
    <3> QED
      BY <3>1, <3>2, <3>3, <3>4
  <2>10. Ids(W) = Ids(V)
    BY <2>4, <2>7, <2>9 DEF Ids
  <2>11. Leaving' = Leaving
    BY <1>11, <1>12, <1>17 DEF Archives, Writing
  <2>12. Counted' /\ Present'
    BY <1>3, <1>8, <2>10, <2>11 DEF Counted, Present, V, W
  <2>13. Reached'
    <3>1. PICK L : L = Ids(list.loaded) \ localOnly
      OBVIOUS
    <3>2. PICK C \in SUBSET L : /\ IsFiniteSet(C) /\ list.count <= Cardinality(C)
                                /\ \A c, d \in V : c.id \in C /\ Before(d, c) => d.id \in C
      BY <1>8, <3>1 DEF Reached, Brought, V
    <3>3. old.id \in L
      BY <2>2, <2>4, <3>1
    <3>4. PICK D \in SUBSET L :
            /\ D = C \/ D = C \cup {old.id}
            /\ \A c, d \in W : c.id \in D /\ Before(d, c) => d.id \in D
      <4>1. /\ V \in SUBSET Copy /\ Distinct(V) /\ old \in V /\ p \in Copy /\ p.id = old.id
            /\ \A d \in V : d.at < p.at
        BY <1>13, <2>4, <2>7, <2>8
      <4>2. Closed(V, C)
        BY <3>2 DEF Closed
      <4>3. \E E \in SUBSET L : (E = C \/ E = C \cup {old.id}) /\ Closed((V \ {old}) \cup {p}, E)
        BY <2>8, <3>3, <4>1, <4>2, TouchIs
      <4> QED
        BY <2>9, <4>3 DEF Closed
    <3>5. IsFiniteSet(D) /\ Cardinality(C) <= Cardinality(D)
      <4>1. Cardinality(C) \in Nat
        BY <3>2, FS_CardinalityType
      <4>2. \/ D = C
            \/ /\ IsFiniteSet(D)
               /\ Cardinality(D) = IF old.id \in C THEN Cardinality(C) ELSE Cardinality(C) + 1
        <5>1. PICK i : i = old.id
          OBVIOUS
        <5>2. D = C \/ D = C \cup {i}
          BY <3>4, <5>1
        <5> QED
          BY <3>2, <5>1, <5>2, FS_AddElement
      <4> QED
        BY <3>2, <4>1, <4>2
    <3>6. list.count <= Cardinality(D)
      <4>1. list.count \in Nat /\ Cardinality(C) \in Nat /\ Cardinality(D) \in Nat
        BY <3>2, <3>5, FS_CardinalityType DEF IInv, Types, GoodList, Lists
      <4> QED
        BY <3>2, <3>5, <4>1
    <3> QED
      BY <1>3, <3>1, <3>4, <3>5, <3>6 DEF Reached, Brought, W
  <2> QED
    BY <1>9, <2>12, <2>13
<1>18. k.op # "clean"
  BY <1>1 DEF Waits, Watched, Idle
<1> QED
  BY <1>3, <1>15, <1>16, <1>17, <1>18 DEF Operations, Writing

(* An answer is merged into the list: its row stays, leaves or enters.     *)
Stayed(k) ==
  /\ Ids(list'.loaded) = Ids(list.loaded)
  /\ list'.total = list.total /\ list'.count = list.count
LeftWith(k) ==
  /\ Departed(k) /\ k.id \in Ids(list.loaded)
  /\ Ids(list'.loaded) = Ids(list.loaded) \ {k.id} /\ localOnly' = localOnly \ {k.id}
  /\ list'.total = Later(list.total - 1)
  /\ list'.count = IF k.id \in localOnly THEN list.count ELSE Later(list.count - 1)
CameWith(k) ==
  /\ Ids(list'.loaded) = Ids(list.loaded) \cup {k.id} /\ k.id \in Ids(View)
  /\ list'.total = list.total /\ list'.count = list.count

(* What another answer was watched for, it is watched for still.           *)
LEMMA MergeWatched ==
  ASSUME IInv, NEW k \in calls, Watched', whole' => whole, Writing(k) => ~Shifts(k),
         UNCHANGED <<deferred, unsure, failed>>, Idle' => Idle,
         \A j \in calls \ {k} : j \in calls' \/ j.op = "look",
         localOnly' \in {localOnly, localOnly \ {k.id}},
         Ids(list'.loaded) \subseteq Ids(list.loaded) \cup {k.id}
  PROVE  Watched
<1>1. Calm
  BY DEF Watched, Calm
<1>2. \A j \in calls : j.id = k.id => j = k
  BY <1>1 DEF IInv, Answering, OneAtATime, Calm
<1>3. ASSUME NEW j \in calls, j # k, Writing(j) PROVE ~Shifts(j)
  <2>1. j \in calls'
    BY <1>3 DEF Writing
  <2>2. ~Shifts(j)'
    BY <1>3, <2>1 DEF Watched, Asking, Writing
  <2>3. j.id # k.id
    BY <1>2, <1>3
  <2>4. j.id \in Ids(list'.loaded) => j.id \in Ids(list.loaded)
    BY <2>3
  <2>5. j.id \in localOnly => j.id \in localOnly'
    BY <2>3
  <2> QED
    BY <2>2, <2>4, <2>5 DEF Shifts
<1> QED
  BY <1>1, <1>3 DEF Watched, Asking

(* The counters follow a row that stays, leaves or enters.                 *)
LEMMA MergeCounts ==
  ASSUME IInv, CountsInv, NEW k \in calls, k.answer # None,
         UNCHANGED <<rows, clock, deferred, pages, unsure, failed>>, latest' = None,
         whole' => whole /\ (Writing(k) => ~Shifts(k)), Idle' => Idle, WentWrong',
         calls' \subseteq calls \ {k}, \A j \in calls \ {k} : j \in calls' \/ j.op = "look",
         localOnly' \in {localOnly, localOnly \ {k.id}},
         Ids(list'.loaded) \subseteq Ids(list.loaded) \cup {k.id},
         Faces(list'), list'.archived = list.archived,
         Watched /\ whole' =>
           /\ \A c \in list'.loaded : c \in list.loaded \/ c.archived = list.archived
           /\ \/ Stayed(k) /\ (Departed(k) => k.id \notin Ids(list.loaded))
              \/ LeftWith(k)
              \/ ~Departed(k) /\ CameWith(k)
  PROVE  CountsInv'
<1>1. ServerOrder'
  BY DEF CountsInv, ServerOrder
<1>2. PagesFresh'
  <2>1. \A r \in pages' : ~Current(r)'
    BY DistinctAssumption DEF Current, IInv, Types, PageTypes, GoodPage, PageSet
  <2> QED
    BY <2>1 DEF PagesFresh
<1> SUFFICES ASSUME Watched'
             PROVE  Reached' /\ Counted' /\ Present' /\ Facing' /\ Archiving' /\ Appending'
  BY <1>1, <1>2 DEF CountsInv, CountsRight
<1>3. whole'
  BY DEF Watched
<1>4. Watched
  BY <1>3, MergeWatched
<1>5. Reached /\ Counted /\ Present /\ Facing /\ Archiving /\ Appending
  BY <1>4 DEF CountsInv, CountsRight
<1>6. Facing' /\ Archiving' /\ Appending'
  <2>1. Facing'
    BY <1>3, <1>4, <1>5 DEF Facing
  <2>2. Archiving'
    BY <1>5 DEF Archiving, Archives, Writing
  <2>3. Appending'
    BY DistinctAssumption DEF Appending
  <2> QED
    BY <2>1, <2>2, <2>3
<1>7. \A j \in calls : j.id = k.id => j = k
  BY <1>4 DEF IInv, Answering, OneAtATime, Watched, Calm
<1>8. PICK V, T : V = Ids(View) /\ T = Leaving
  OBVIOUS
<1>9. View' = View
  BY ViewSame DEF View
<1>10. Leaving' = {i \in Ids(list'.loaded) : i # k.id /\ i \in Leaving}
  <2>1. \A j : Departed(j)' = Departed(j)
    BY DEF Departed, Archives, Writing
  <2>2. ASSUME NEW i \in Ids(list'.loaded)
        PROVE  (\E j \in calls' : j.id = i /\ Departed(j)) <=> i # k.id /\ i \in Leaving
    <3>1. \A j \in calls' : j \in calls /\ j # k /\ j.id # k.id
      BY <1>7
    <3>2. \A j \in calls : Departed(j) /\ j # k => j \in calls'
      BY DEF Departed, Archives, Writing
    <3>3. i # k.id => i \in Ids(list.loaded)
      OBVIOUS
    <3> QED
      BY <3>1, <3>2, <3>3 DEF Leaving
  <2>3. Leaving' = {i \in Ids(list'.loaded) : \E j \in calls' : j.id = i /\ Departed(j)}
    BY <2>1 DEF Leaving, Ids
  <2> QED
    BY <2>2, <2>3
<1>11. k.id \in Leaving <=> k.id \in Ids(list.loaded) /\ Departed(k)
  BY <1>7 DEF Leaving
<1>12. Leaving \subseteq Ids(list.loaded)
  BY DEF Leaving
<1>13. /\ IsFiniteSet(V \cup T) /\ Cardinality(V \cup T) <= list.total /\ V \cap T = {}
       /\ Ids(list.loaded) \subseteq V \cup T
       /\ list.total \in Nat /\ list.count \in Nat
  BY <1>5, <1>8 DEF Counted, Present, IInv, Types, GoodList, Lists
<1>14. PICK C \in SUBSET Ids(list.loaded) :
         /\ C \subseteq Ids(list.loaded) \ localOnly /\ IsFiniteSet(C)
         /\ list.count <= Cardinality(C)
         /\ \A c, d \in View : c.id \in C /\ Before(d, c) => d.id \in C
  BY <1>5 DEF Reached, Brought
<1>15. CASE /\ Ids(list.loaded) \subseteq Ids(list'.loaded) /\ Leaving' = Leaving
            /\ list'.total = list.total /\ list'.count = list.count
            /\ Ids(list'.loaded) \subseteq V \cup T
  <2>1. Counted' /\ Present'
    BY <1>8, <1>9, <1>13, <1>15 DEF Counted, Present
  <2>2. Reached'
    <3>1. C \subseteq Ids(list'.loaded) \ localOnly'
      BY <1>14, <1>15
    <3> QED
      BY <1>9, <1>14, <1>15, <3>1 DEF Reached, Brought
  <2> QED
    BY <1>6, <2>1, <2>2
<1>16. CASE Stayed(k) /\ (Departed(k) => k.id \notin Ids(list.loaded))
  <2>1. Leaving' = Leaving
    BY <1>10, <1>11, <1>12, <1>16 DEF Stayed
  <2> QED
    BY <1>13, <1>15, <1>16, <2>1 DEF Stayed
<1>17. CASE ~Departed(k) /\ CameWith(k)
  <2>1. Leaving' = Leaving
    BY <1>10, <1>11, <1>12, <1>17 DEF CameWith
  <2> QED
    BY <1>8, <1>13, <1>15, <1>17, <2>1 DEF CameWith
<1>18. CASE LeftWith(k)
  <2>1. k.id \in T /\ k.id \notin V /\ Leaving' = T \ {k.id}
    BY <1>8, <1>10, <1>11, <1>12, <1>13, <1>18 DEF LeftWith
  <2>2. V \cup (T \ {k.id}) = (V \cup T) \ {k.id}
    BY <2>1
  <2>3. PICK all, i : all = V \cup T /\ i = k.id
    OBVIOUS
  <2>4. i \in all /\ IsFiniteSet(all) /\ Cardinality(all) <= list.total
    BY <1>13, <2>1, <2>3
  <2>5. IsFiniteSet(all \ {i}) /\ Cardinality(all \ {i}) = Cardinality(all) - 1
    BY <2>4, FS_RemoveElement
  <2>6. Cardinality(all) \in Nat /\ Cardinality(all \ {i}) \in Nat
    BY <2>4, <2>5, FS_CardinalityType
  <2>7. Cardinality(all \ {i}) <= list'.total
    BY <1>13, <1>18, <2>4, <2>5, <2>6 DEF LeftWith, Later
  <2>8. Counted'
    BY <1>8, <1>9, <1>13, <2>1, <2>2, <2>3, <2>5, <2>7 DEF Counted
  <2>9. Present'
    BY <1>8, <1>9, <1>13, <1>18, <2>1 DEF Present, LeftWith
  <2>10. Reached'
    <3>1. PICK D : D = C \ {i}
      OBVIOUS
    <3>2. D \subseteq Ids(list'.loaded) \ localOnly'
      BY <1>14, <1>18, <2>3, <3>1 DEF LeftWith
    <3>3. Cardinality(C) \in Nat
      BY <1>14, FS_CardinalityType
    <3>4. /\ IsFiniteSet(D)
          /\ Cardinality(D) = IF i \in C THEN Cardinality(C) - 1 ELSE Cardinality(C)
      BY <1>14, <3>1, FS_RemoveElement
    <3>5. i \in localOnly => i \notin C
      BY <1>14
    <3>6. list'.count <= Cardinality(D)
      <4>1. list'.count = IF i \in localOnly THEN list.count
                                             ELSE IF list.count - 1 > 0 THEN list.count - 1 ELSE 0
        BY <1>18, <2>3 DEF LeftWith, Later
      <4>2. Cardinality(D) \in Nat
        BY <3>4, FS_CardinalityType
      <4> QED
        BY <1>13, <1>14, <3>3, <3>4, <3>5, <4>1, <4>2
    <3>7. \A c, d \in View : c.id \in D /\ Before(d, c) => d.id \in D
      <4>1. \A d \in View : d.id # i
        BY <1>8, <2>1, <2>3 DEF Ids
      <4> QED
        BY <1>14, <3>1, <4>1
    <3> QED
      BY <1>9, <3>2, <3>4, <3>6, <3>7 DEF Reached, Brought
  <2> QED
    BY <1>6, <2>8, <2>9, <2>10
<1> QED
  BY <1>3, <1>4, <1>16, <1>17, <1>18

(* An answer about a conversation that is loaded, or not.                  *)
LEMMA SyncedBooks ==
  ASSUME Types, NEW k \in calls, k.answer # None, NEW search, NEW counting, NEW shifts,
         SyncConversationIntoList(k.answer, search, counting, shifts)
  PROVE  /\ Faces(list') /\ list'.archived = list.archived /\ latest' = None
         /\ localOnly' \in {localOnly, localOnly \ {k.id}}
         /\ Ids(list'.loaded) \subseteq Ids(list.loaded) \cup {k.id}
         /\ \A c \in list'.loaded : c \in list.loaded \/ c.archived = list.archived
         /\ whole' = (whole /\ Unfiltered(search) /\ ~shifts)
         /\ (k.id \in Ids(list.loaded) <=> Loaded(list, k.answer))
         /\ IF Stays(list, k.answer, search)
            THEN /\ Ids(list'.loaded) = Ids(list.loaded) \cup {k.id} /\ localOnly' = localOnly
            ELSE /\ Ids(list'.loaded) = Ids(list.loaded) \ {k.id}
                 /\ localOnly' = localOnly \ {k.id}
         /\ list'.total = Later(list.total + TotalChange(list, k.answer, search, counting))
         /\ list'.count = Later(list.count + CountChange(list, k.answer, search, counting))
<1>1. GoodList(list) /\ list' = Sync(list, k.answer, search, counting)
  BY DEF Types, SyncConversationIntoList
<1>2. k.answer.id = k.id
  BY DEF Types, CallTypes, GoodCall
<1>3. /\ Faces(list') /\ list'.loaded = With(list, k.answer, search)
      /\ list'.archived = list.archived
      /\ list'.total = Later(list.total + TotalChange(list, k.answer, search, counting))
      /\ list'.count = Later(list.count + CountChange(list, k.answer, search, counting))
  BY <1>1, SyncBooks
<1>4. /\ latest' = None /\ whole' = (whole /\ Unfiltered(search) /\ ~shifts)
      /\ localOnly' = IF Stays(list, k.answer, search) THEN localOnly ELSE localOnly \ {k.id}
  BY <1>2 DEF SyncConversationIntoList, StillLocal
<1>5. CASE Stays(list, k.answer, search)
  <2>1. list'.loaded = Without(list.loaded, k.id) \cup {k.answer}
    BY <1>2, <1>3, <1>5 DEF With
  <2>2. Ids(list'.loaded) = Ids(list.loaded) \cup {k.id}
    BY <1>2, <2>1 DEF Ids, Without
  <2>3. k.answer.archived = list.archived
    BY <1>5 DEF Stays, Matches
  <2> QED
    BY <1>2, <1>3, <1>4, <1>5, <2>1, <2>2, <2>3 DEF Loaded, Without
<1>6. CASE ~Stays(list, k.answer, search)
  <2>1. list'.loaded = Without(list.loaded, k.id)
    BY <1>2, <1>3, <1>6 DEF With
  <2>2. Ids(list'.loaded) = Ids(list.loaded) \ {k.id}
    BY <2>1 DEF Ids, Without
  <2> QED
    BY <1>2, <1>3, <1>4, <1>6, <2>1, <2>2 DEF Loaded, Without
<1> QED
  BY <1>5, <1>6

(* The row of an answer, in a view that is watched.                        *)
LEMMA AnsweredIs ==
  ASSUME IInv, CountsInv, Watched, NEW k \in calls, Tells(k)
  PROVE  /\ k.answer \in Copy /\ IsRow(k.answer) /\ k.answer.id = k.id
         /\ k.answer \in View <=>
              k.answer.archived = list.archived /\ (deferred => k.answer.hit \/ k.id \in Mentioned)
         /\ k.id \in Ids(View) => k.answer \in View
         /\ ~Departed(k) /\ k.id \in Ids(list.loaded) => k.answer \in View
<1>1. /\ k.answer \in Copy /\ k.answer.id = k.id /\ IsRow(k.answer)
  BY AnswerIs DEF IInv, Answering, AnswersRight, Watched, Calm, Tells, Types, CallTypes, GoodCall
<1>2. k.id \in DOMAIN rows /\ rows[k.id] = k.answer
  BY <1>1 DEF IsRow
<1>3. /\ \A c \in View : IsRow(c)
      /\ \A i \in DOMAIN rows : rows[i] \in View <=>
           rows[i].archived = list.archived /\ (deferred => rows[i].hit \/ i \in Mentioned)
  BY ViewIs DEF View, IInv, Types, CountsInv
<1>4. k.id \in Ids(View) => k.answer \in View
  BY <1>2, <1>3 DEF Ids, IsRow
<1>5. \A j \in calls : j.id = k.id => j = k
  BY DEF IInv, Answering, OneAtATime, Watched, Calm
<1>6. ~Departed(k) /\ k.id \in Ids(list.loaded) => k.id \in Ids(View)
  BY <1>5 DEF CountsInv, CountsRight, Present, Leaving
<1> QED
  BY <1>1, <1>2, <1>3, <1>4, <1>6

(* Counters are never negative.                                            *)
LEMMA CountersAre ==
  ASSUME Types
  PROVE  /\ list.total \in Nat /\ list.count \in Nat
         /\ \A n \in Nat : Later(n) = n /\ Later(n + 0) = n /\ Later(n + -1) = Later(n - 1)
  BY DEF Types, GoodList, Lists, Later

(* A change,                                                               *)
LEMMA ChangedCounts ==
  ASSUME IInv, CountsInv, NEW k \in calls, k.answer # None, Changed(k), UNCHANGED serverVars,
         UNCHANGED <<deferred, unsure, bounds>>
  PROVE  CountsInv'
<1>1. /\ Writing(k) /\ SyncConversationIntoList(k.answer, k.search, TRUE, Shifts(k))
      /\ calls' = {j \in calls \ {k} : k.home => j.op # "look"}
      /\ UNCHANGED <<pages, flow, rows, clock, deferred, unsure, failed>>
  BY DEF Changed, Writing, GoHome, serverVars, bounds
<1>2. PICK shifts, on : shifts = Shifts(k) /\ on = TRUE
  OBVIOUS
<1>3. Types
  BY DEF IInv
<1>4. PICK search, answer : search = k.search /\ answer = k.answer
  OBVIOUS
<1>5. SyncConversationIntoList(k.answer, search, on, shifts)
  BY <1>1, <1>2, <1>4
<1>6. /\ Faces(list') /\ list'.archived = list.archived /\ latest' = None
      /\ localOnly' \in {localOnly, localOnly \ {k.id}}
      /\ Ids(list'.loaded) \subseteq Ids(list.loaded) \cup {k.id}
      /\ \A c \in list'.loaded : c \in list.loaded \/ c.archived = list.archived
      /\ whole' = (whole /\ Unfiltered(search) /\ ~shifts)
      /\ (k.id \in Ids(list.loaded) <=> Loaded(list, answer))
      /\ IF Stays(list, answer, search)
         THEN /\ Ids(list'.loaded) = Ids(list.loaded) \cup {k.id} /\ localOnly' = localOnly
         ELSE /\ Ids(list'.loaded) = Ids(list.loaded) \ {k.id}
              /\ localOnly' = localOnly \ {k.id}
      /\ list'.total = Later(list.total + TotalChange(list, answer, search, on))
      /\ list'.count = Later(list.count + CountChange(list, answer, search, on))
  <2>1. /\ Faces(list') /\ list'.archived = list.archived /\ latest' = None
        /\ localOnly' \in {localOnly, localOnly \ {k.id}}
        /\ Ids(list'.loaded) \subseteq Ids(list.loaded) \cup {k.id}
        /\ \A c \in list'.loaded : c \in list.loaded \/ c.archived = list.archived
        /\ whole' = (whole /\ Unfiltered(search) /\ ~shifts)
        /\ (k.id \in Ids(list.loaded) <=> Loaded(list, k.answer))
        /\ IF Stays(list, k.answer, search)
           THEN /\ Ids(list'.loaded) = Ids(list.loaded) \cup {k.id} /\ localOnly' = localOnly
           ELSE /\ Ids(list'.loaded) = Ids(list.loaded) \ {k.id}
                /\ localOnly' = localOnly \ {k.id}
        /\ list'.total = Later(list.total + TotalChange(list, k.answer, search, on))
        /\ list'.count = Later(list.count + CountChange(list, k.answer, search, on))
    BY <1>3, <1>5, SyncedBooks
  <2> QED
    BY <1>4, <2>1
<1>7. ASSUME Watched, whole'
      PROVE  (Stayed(k) /\ (Departed(k) => k.id \notin Ids(list.loaded))) \/ LeftWith(k)
  <2>1. /\ k.id \in Ids(list.loaded) /\ search = deferred /\ list.folder = Anywhere
        /\ list.tags = {} /\ (k.id \notin localOnly \/ Archives(k))
    BY <1>1, <1>2, <1>6, <1>7 DEF Unfiltered, Shifts, Archives
  <2>2. Stays(list, answer, search) <=> answer.archived = list.archived
    BY <1>6, <2>1 DEF Stays, Matches
  <2>3. Tells(k) /\ answer.id = k.id
    BY <1>1, <1>3, <1>4 DEF Tells, Writing, Types, CallTypes, GoodCall
  <2>4. CASE ~Archives(k)
    <3>1. ~Departed(k)
      BY <1>1, <2>4 DEF Departed, Writing
    <3>2. answer.archived = list.archived
      BY <1>4, <1>7, <2>1, <2>3, <3>1, AnsweredIs
    <3>3. TotalChange(list, answer, search, on) = 0 /\ CountChange(list, answer, search, on) = 0
      BY <1>6, <2>1, <2>2, <3>2 DEF TotalChange, CountChange, Entered, Left
    <3>4. Stayed(k)
      BY <1>3, <1>6, <2>1, <2>2, <3>2, <3>3, CountersAre DEF Stayed
    <3> QED
      BY <3>1, <3>4
  <2>5. CASE Archives(k)
    <3>1. Departed(k)
      BY <2>5 DEF Departed
    <3>2. answer.archived # list.archived
      BY <1>4, <1>7, <2>5 DEF CountsInv, CountsRight, Archiving
    <3>3. /\ TotalChange(list, answer, search, on) = -1
          /\ CountChange(list, answer, search, on) = IF k.id \in localOnly THEN 0 ELSE -1
      BY <1>6, <2>1, <2>2, <2>3, <3>2 DEF TotalChange, CountChange, Entered, Left
    <3>4. LeftWith(k)
      BY <1>3, <1>6, <2>1, <2>2, <3>1, <3>2, <3>3, CountersAre DEF LeftWith
    <3> QED
      BY <3>4
  <2> QED
    BY <2>4, <2>5
<1>8. Idle' = Idle /\ WentWrong'
  BY <1>1 DEF Idle, CountsInv, WentWrong
<1>9. /\ calls' \subseteq calls \ {k}
      /\ \A j \in calls \ {k} : j \in calls' \/ j.op = "look"
      /\ whole' => whole /\ (Writing(k) => ~Shifts(k))
  BY <1>1, <1>2, <1>6
<1>10. Watched /\ whole' =>
         /\ \A c \in list'.loaded : c \in list.loaded \/ c.archived = list.archived
         /\ \/ Stayed(k) /\ (Departed(k) => k.id \notin Ids(list.loaded))
            \/ LeftWith(k)
            \/ ~Departed(k) /\ CameWith(k)
  BY <1>6, <1>7
<1> QED
  BY <1>1, <1>6, <1>8, <1>9, <1>10, MergeCounts

(* a deletion,                                                             *)
LEMMA DeletedCounts ==
  ASSUME IInv, CountsInv, NEW k \in calls, k.answer # None, Deleted(k), UNCHANGED serverVars,
         UNCHANGED <<deferred, unsure, bounds>>
  PROVE  CountsInv'
<1>1. /\ k.op \in {"delete", "clean"} /\ RemoveConversationFromList(k.id)
      /\ calls' = {j \in calls \ {k} : k.home => j.op # "look"}
      /\ flow' = IF k.op = "clean" THEN None ELSE flow
      /\ UNCHANGED <<pages, rows, clock, deferred, unsure, failed>>
  BY DEF Deleted, GoHome, serverVars, bounds
<1>2. GoodList(list) /\ Types
  BY DEF IInv, Types
<1>3. PICK i : i = k.id
  OBVIOUS
<1>4. PICK loaded, gone :
        loaded = Without(list.loaded, i) /\ gone = IF i \in Ids(list.loaded) THEN -1 ELSE 0
  OBVIOUS
<1>5. PICK shown : shown = Visible([list EXCEPT !.loaded = loaded])
  OBVIOUS
<1>6. /\ list' = Merged(list, loaded, shown, gone, IF i \in localOnly THEN 0 ELSE gone)
      /\ localOnly' = localOnly \ {i} /\ latest' = None /\ whole' = whole
  BY <1>1, <1>3, <1>4, <1>5 DEF RemoveConversationFromList
<1>7. PICK less : less = IF i \in localOnly THEN 0 ELSE gone
  OBVIOUS
<1>8. /\ list'.loaded = loaded /\ list'.shown = shown /\ list'.archived = list.archived
      /\ list'.total = Later(list.total + gone) /\ list'.count = Later(list.count + less)
  <2>1. list' = Merged(list, loaded, shown, gone, less)
    BY <1>6, <1>7
  <2> QED
    BY <1>2, <2>1, MergedBooks
<1>9. Faces(list')
  <2>1. \A c \in shown : c.archived = list.archived
    BY <1>2, <1>5 DEF Visible, Matches, GoodList, Lists
  <2> QED
    BY <1>8, <2>1 DEF Faces
<1>10. Ids(list'.loaded) = Ids(list.loaded) \ {i} /\ list'.loaded \subseteq list.loaded
  BY <1>4, <1>8 DEF Ids, Without
<1>11. CASE k.op = "clean"
  <2>1. Waits(flow, k)
    BY DEF IInv, Types, CallTypes
  <2>2. failed
    BY <1>11, <2>1 DEF Waits, CountsInv, WentWrong
  <2>3. ServerOrder' /\ WentWrong' /\ ~Calm'
    BY <1>1, <1>11, <2>2 DEF CountsInv, ServerOrder, WentWrong, Calm
  <2> QED
    BY <1>9, <2>3 DEF CountsInv, PagesFresh, CountsRight, Watched
<1>12. CASE k.op = "delete"
  <2>1. ~Writing(k) /\ Departed(k)
    BY <1>12 DEF Writing, Departed
  <2>2. \/ Stayed(k) /\ (Departed(k) => k.id \notin Ids(list.loaded))
        \/ LeftWith(k)
        \/ ~Departed(k) /\ CameWith(k)
    <3>1. CASE i \in Ids(list.loaded)
      BY <1>2, <1>3, <1>4, <1>6, <1>7, <1>8, <1>10, <2>1, <3>1, CountersAre DEF LeftWith
    <3>2. CASE i \notin Ids(list.loaded)
      BY <1>2, <1>3, <1>4, <1>6, <1>7, <1>8, <1>10, <3>2, CountersAre DEF Stayed
    <3> QED
      BY <3>1, <3>2
  <2>3. Idle' = Idle /\ WentWrong'
    BY <1>1, <1>12 DEF Idle, CountsInv, WentWrong
  <2>4. /\ calls' \subseteq calls \ {k}
        /\ \A j \in calls \ {k} : j \in calls' \/ j.op = "look"
        /\ whole' => whole /\ (Writing(k) => ~Shifts(k))
    BY <1>1, <1>6, <2>1
  <2>5. Watched /\ whole' =>
          /\ \A c \in list'.loaded : c \in list.loaded \/ c.archived = list.archived
          /\ \/ Stayed(k) /\ (Departed(k) => k.id \notin Ids(list.loaded))
             \/ LeftWith(k)
             \/ ~Departed(k) /\ CameWith(k)
    BY <1>10, <2>2
  <2>6. localOnly' \in {localOnly, localOnly \ {k.id}}
        /\ Ids(list'.loaded) \subseteq Ids(list.loaded) \cup {k.id}
    BY <1>3, <1>6, <1>10
  <2> QED
    BY <1>1, <1>6, <1>8, <1>9, <2>3, <2>4, <2>5, <2>6, MergeCounts
<1> QED
  BY <1>1, <1>11, <1>12

(* and a conversation that was opened.                                     *)
LEMMA LookedCounts ==
  ASSUME IInv, CountsInv, NEW k \in calls, k.answer # None, Looked(k), UNCHANGED serverVars,
         UNCHANGED <<deferred, unsure, bounds>>
  PROVE  CountsInv'
<1>1. /\ k.op = "look" /\ SyncConversationIntoList(k.answer, deferred, FALSE, FALSE)
      /\ calls' = calls \ {k} /\ UNCHANGED <<pages, flow, rows, clock, deferred, unsure, failed>>
  BY DEF Looked, GoHome, serverVars, bounds
<1>2. PICK off, answer : off = FALSE /\ answer = k.answer
  OBVIOUS
<1>3. Types
  BY DEF IInv
<1>4. ~Writing(k) /\ ~Departed(k)
  BY <1>1 DEF Writing, Departed, Archives
<1>5. /\ Faces(list') /\ list'.archived = list.archived /\ latest' = None
      /\ localOnly' \in {localOnly, localOnly \ {k.id}}
      /\ Ids(list'.loaded) \subseteq Ids(list.loaded) \cup {k.id}
      /\ \A c \in list'.loaded : c \in list.loaded \/ c.archived = list.archived
      /\ whole' = (whole /\ Unfiltered(deferred) /\ ~off)
      /\ (k.id \in Ids(list.loaded) <=> Loaded(list, answer))
      /\ IF Stays(list, answer, deferred)
         THEN /\ Ids(list'.loaded) = Ids(list.loaded) \cup {k.id} /\ localOnly' = localOnly
         ELSE /\ Ids(list'.loaded) = Ids(list.loaded) \ {k.id}
              /\ localOnly' = localOnly \ {k.id}
      /\ list'.total = Later(list.total + TotalChange(list, answer, deferred, off))
      /\ list'.count = Later(list.count + CountChange(list, answer, deferred, off))
  <2>1. SyncConversationIntoList(k.answer, deferred, off, off)
    BY <1>1, <1>2
  <2>2. /\ Faces(list') /\ list'.archived = list.archived /\ latest' = None
        /\ localOnly' \in {localOnly, localOnly \ {k.id}}
        /\ Ids(list'.loaded) \subseteq Ids(list.loaded) \cup {k.id}
        /\ \A c \in list'.loaded : c \in list.loaded \/ c.archived = list.archived
        /\ whole' = (whole /\ Unfiltered(deferred) /\ ~off)
        /\ (k.id \in Ids(list.loaded) <=> Loaded(list, k.answer))
        /\ IF Stays(list, k.answer, deferred)
           THEN /\ Ids(list'.loaded) = Ids(list.loaded) \cup {k.id} /\ localOnly' = localOnly
           ELSE /\ Ids(list'.loaded) = Ids(list.loaded) \ {k.id}
                /\ localOnly' = localOnly \ {k.id}
        /\ list'.total = Later(list.total + TotalChange(list, k.answer, deferred, off))
        /\ list'.count = Later(list.count + CountChange(list, k.answer, deferred, off))
    BY <1>3, <2>1, SyncedBooks
  <2> QED
    BY <1>2, <2>2
<1>6. ASSUME Watched, whole' PROVE Stayed(k) \/ CameWith(k)
  <2>1. list.folder = Anywhere /\ list.tags = {}
    BY <1>5, <1>6 DEF Unfiltered
  <2>2. Tells(k) /\ answer.id = k.id
    BY <1>1, <1>2, <1>3 DEF Tells, Types, CallTypes, GoodCall
  <2>3. CASE k.id \in Ids(list.loaded)
    <3>1. answer.archived = list.archived
      BY <1>2, <1>4, <1>6, <2>2, <2>3, AnsweredIs
    <3>2. Stays(list, answer, deferred)
      BY <1>5, <2>1, <2>3, <3>1 DEF Stays, Matches
    <3>3. TotalChange(list, answer, deferred, off) = 0
          /\ CountChange(list, answer, deferred, off) = 0
      BY <1>5, <2>3, <3>2 DEF TotalChange, CountChange, Entered, Left
    <3> QED
      BY <1>3, <1>5, <2>3, <3>2, <3>3, CountersAre DEF Stayed
  <2>4. CASE k.id \notin Ids(list.loaded)
    <3>1. TotalChange(list, answer, deferred, off) = 0
          /\ CountChange(list, answer, deferred, off) = 0
      BY <1>2, <1>5, <2>4 DEF TotalChange, CountChange, Entered, Left
    <3>2. CASE ~Stays(list, answer, deferred)
      BY <1>3, <1>5, <2>4, <3>1, <3>2, CountersAre DEF Stayed
    <3>3. CASE Stays(list, answer, deferred)
      <4>1. ~deferred /\ answer.archived = list.archived
        BY <1>5, <2>1, <2>4, <3>3 DEF Stays, Matches
      <4>2. answer \in View
        BY <1>2, <1>6, <2>2, <4>1, AnsweredIs
      <4>3. k.id \in Ids(View)
        BY <2>2, <4>2 DEF Ids
      <4> QED
        BY <1>3, <1>5, <3>1, <3>3, <4>3, CountersAre DEF CameWith
    <3> QED
      BY <3>2, <3>3
  <2> QED
    BY <2>3, <2>4
<1>7. Idle' = Idle /\ WentWrong'
  BY <1>1 DEF Idle, CountsInv, WentWrong
<1>8. /\ calls' \subseteq calls \ {k}
      /\ \A j \in calls \ {k} : j \in calls' \/ j.op = "look"
      /\ whole' => whole /\ (Writing(k) => ~Shifts(k))
  BY <1>1, <1>4, <1>5
<1>9. Watched /\ whole' =>
        /\ \A c \in list'.loaded : c \in list.loaded \/ c.archived = list.archived
        /\ \/ Stayed(k) /\ (Departed(k) => k.id \notin Ids(list.loaded))
           \/ LeftWith(k)
           \/ ~Departed(k) /\ CameWith(k)
  BY <1>4, <1>5, <1>6
<1> QED
  BY <1>1, <1>5, <1>7, <1>8, <1>9, MergeCounts

(* Any answer.                                                             *)
LEMMA ReceiveCounts ==
  ASSUME IInv, CountsInv, NEW k \in calls, Receive(k)
  PROVE  CountsInv'
  BY ChangedCounts, DeletedCounts, LookedCounts, ReconciledCounts DEF Receive

-----------------------------------------------------------------------------
(* Pages that are applied.                                                 *)

(* What a request asks for: more of the query it is counted for, or the    *)
(* first page.                                                             *)
Asked == \A r \in pages : IF r.kind = "append" THEN r.search = r.key ELSE r.from = 0

(* No step asks for anything else.                                         *)
LEMMA AskedStep ==
  ASSUME Types, Asked, [Next]_vars
  PROVE  Asked'
<1> DEFINE Sound(r) == IF r.kind = "append" THEN r.search = r.key ELSE r.from = 0
<1>1. ASSUME \A r \in pages' : r \in pages \/ Sound(r) PROVE Asked'
  BY <1>1 DEF Asked
<1>2. \A archived, key, search, from :
        /\ Sound(Request("effect", archived, key, search, 0))
        /\ Sound(Request("append", archived, key, key, from))
        /\ Sound(Reload(search))
  BY DEF Request, Reload
<1> HIDE DEF Sound
<1>3. CASE vars' = vars
  BY <1>1, <1>3 DEF vars
<1>4. CASE Defer
  BY <1>1, <1>2, <1>4 DEF Defer, Fetch
<1>5. CASE Pages
  <2>1. PICK r \in pages : AnswerPage(r) \/ pages' = pages \ {r}
    BY <1>5 DEF Pages, ApplyPage, PageFails
  <2>2. CASE AnswerPage(r)
    <3>1. PICK p : p = PageOf(r)
      OBVIOUS
    <3>2. PICK new : new = [r EXCEPT !.answer = p]
      OBVIOUS
    <3>3. pages' = (pages \ {r}) \cup {new}
      BY <2>2, <3>1, <3>2 DEF AnswerPage
    <3>4. r \in PageSet
      BY DEF Types, PageTypes, GoodPage
    <3>5. new.kind = r.kind /\ new.key = r.key /\ new.search = r.search /\ new.from = r.from
      BY <3>2, <3>4 DEF PageSet
    <3>6. Sound(new)
      BY <3>5 DEF Asked, Sound
    <3> QED
      BY <1>1, <3>3, <3>6
  <2> QED
    BY <1>1, <2>1, <2>2
<1>6. CASE Calls
  <2>1. pages' = pages \/ \E search : pages' = pages \cup {Reload(search)}
    BY <1>6 DEF Calls, Serve, Receive, Changed, Deleted, Looked, Reconciled, CallFails
  <2> QED
    BY <1>1, <1>2, <2>1
<1>7. CASE Flow
  <2>1. pages' = pages \/ \E search : pages' = pages \cup {Reload(search)}
    BY <1>7 DEF Flow, Begin, Create, Created, CreateFails, Run, RunEnds, RunFails, Settle
  <2> QED
    BY <1>1, <1>2, <2>1
<1>8. CASE Sidebar
  <2>1. \/ pages' = pages \/ LoadMore \/ \E s, search : Fetch(s, search)
    BY <1>8 DEF Sidebar, Search, ShowArchived, SetSelecting, NewChat, SelectFolder, ToggleTag,
                ToggleSelected, Open, TogglePinned, ToggleArchived, AskAboutOne,
                AskAboutSelected, OpenDialog, Ask, Reduce
  <2>2. CASE LoadMore
    BY <1>1, <1>2, <2>2 DEF LoadMore
  <2>3. CASE \E s, search : Fetch(s, search)
    BY <1>1, <1>2, <2>3 DEF Fetch
  <2> QED
    BY <1>1, <2>1, <2>2, <2>3
<1>9. CASE Dialog
  BY <1>1, <1>9 DEF Dialog, Cancel, Submit, BatchEnds, AskNext, Ask
<1> QED
  BY <1>3, <1>4, <1>5, <1>6, <1>7, <1>8, <1>9 DEF Next

(* The rows of a page, in the order of its view.                           *)
LEMMA PageIs ==
  ASSUME NEW r
  PROVE  LET V == Found(r.archived, r.search)
         IN  /\ PageOf(r).rows = {c \in V : Place(V, c) \in r.from .. (r.from + PageSize - 1)}
             /\ PageOf(r).total = Cardinality(V)
  BY DEF PageOf, Place

(* What a page makes of the list: one that is appended,                    *)
LEMMA AppendBooks ==
  ASSUME NEW s, GoodList(s), NEW p \in Answers, NEW count \in Nat
  PROVE  LET t == AppendPage(s, p, count)
         IN  /\ Faces(t) /\ t.archived = s.archived /\ t.total = p.total /\ t.count = count
             /\ t.loaded = {c \in s.loaded : c.id \notin Ids(p.rows)} \cup p.rows
<1>1. PICK new : new = {c \in s.loaded : c.id \notin Ids(p.rows)} \cup p.rows
  OBVIOUS
<1>2. PICK t : t = [s EXCEPT !.loaded = new, !.total = p.total, !.count = count]
  OBVIOUS
<1>3. s \in Lists /\ p.total \in Nat /\ new \in SUBSET Copy
  BY <1>1 DEF GoodList, Lists, Answers
<1>4. /\ t \in Lists /\ t.loaded = new /\ t.total = p.total /\ t.count = count
      /\ t.archived = s.archived
  BY <1>2, <1>3 DEF Lists
<1>5. AppendPage(s, p, count) = Derive(t)
  BY <1>1, <1>2 DEF AppendPage
<1> QED
  BY <1>1, <1>4, <1>5, DeriveBooks DEF SameBooks

(* and a first page.                                                       *)
LEMMA FirstBooks ==
  ASSUME NEW s, GoodList(s), NEW p \in Answers, IsFiniteSet(p.rows), NEW open, NEW search
  PROVE  LET t == FirstPage(s, p, open, search)
         IN  /\ Faces(t) /\ t.archived = s.archived /\ t.total = p.total
             /\ t.count = Cardinality(p.rows)
             /\ t.loaded = p.rows \cup Kept(s, p, open, search)
<1>1. PICK new : new = p.rows \cup Kept(s, p, open, search)
  OBVIOUS
<1>2. PICK n : n = [s EXCEPT !.loaded = new]
  OBVIOUS
<1>3. s \in Lists /\ p.total \in Nat /\ new \in SUBSET Copy /\ Cardinality(p.rows) \in Nat
  BY <1>1, FS_CardinalityType DEF GoodList, Lists, Answers, Kept
<1>4. n \in Lists /\ n.loaded = new /\ n.archived = s.archived
  BY <1>2, <1>3 DEF Lists
<1>5. PICK k, folder, count :
        k = KeepTags(n) /\ folder = KeptFolder(n) /\ count = Cardinality(p.rows)
  OBVIOUS
<1>6. k \in Lists /\ SameBooks(k, n) /\ folder \in Places \cup {Anywhere}
  BY <1>4, <1>5, KeepTagsBooks, KeepTagsIs
<1>7. PICK t : t = [k EXCEPT !.folder = folder, !.total = p.total, !.count = count]
  OBVIOUS
<1>8. /\ t \in Lists /\ t.loaded = new /\ t.total = p.total /\ t.count = count
      /\ t.archived = s.archived
  BY <1>3, <1>4, <1>5, <1>6, <1>7 DEF Lists, SameBooks
<1>9. FirstPage(s, p, open, search) = Derive(t)
  BY <1>1, <1>2, <1>5, <1>7 DEF FirstPage
<1> QED
  BY <1>1, <1>5, <1>8, <1>9, DeriveBooks DEF SameBooks

(* A page that does not count.                                             *)
LEMMA StalePageCounts ==
  ASSUME IInv, CountsInv, NEW r \in pages, ApplyPage(r), ~Current(r)
  PROVE  CountsInv'
<1>1. /\ list' = Settled(list, r) /\ whole' = (whole /\ r.kind # "reload")
      /\ AfterReload(r) /\ pages' \subseteq pages
      /\ UNCHANGED <<rows, clock, latest, deferred, localOnly, failed>>
  BY DEF ApplyPage, serverVars, bounds
<1>2. SameBooks(list', list) /\ Faces(list')
  BY <1>1, SelectionBooks DEF IInv, Types, CountsInv
<1>3. CASE r.kind # "reload"
  <2>1. UNCHANGED <<calls, flow, unsure>>
    BY <1>1, <1>3 DEF AfterReload
  <2>2. Idle' = Idle /\ Quiet' = Quiet /\ WentWrong'
    BY <1>1, <2>1 DEF Idle, Quiet, CountsInv, WentWrong
  <2> QED
    BY <1>1, <1>2, <1>3, <2>1, <2>2, SameStep
<1>4. CASE r.kind = "reload"
  <2>1. /\ unsure' = unsure /\ flow' = None /\ Reloading
        /\ \A k \in calls : k \in calls' \/ k.op = "look"
    <3>1. unsure' = unsure /\ flow' = None /\ Reloading
      BY <1>1, <1>4, AfterReloadIs DEF IInv
    <3>2. \A k \in calls : k \in calls' \/ k.op = "look"
      BY <1>1, <1>4 DEF AfterReload
    <3> QED
      BY <3>1, <3>2
  <2>2. (Quiet' => Quiet) /\ Calm' = Calm
    BY <1>1, <2>1 DEF Quiet, Reloading, Calm
  <2>3. \A q : Current(q)' = Current(q)
    BY <1>1, <1>2 DEF Current, SameBooks
  <2>4. PagesFresh'
    BY <1>1, <2>2, <2>3, FreshStep DEF CountsInv
  <2>5. ServerOrder' /\ WentWrong' /\ ~whole'
    BY <1>1, <1>4, <2>1 DEF CountsInv, ServerOrder, WentWrong
  <2> QED
    BY <1>2, <2>4, <2>5 DEF CountsInv, CountsRight, Watched
<1> QED
  BY <1>3, <1>4

(* The state in which a page counts, and all is known.                     *)
LEMMA QuietIs ==
  ASSUME IInv, CountsInv, NEW r \in pages, ApplyPage(r), Current(r)
  PROVE  /\ UNCHANGED <<rows, clock, latest, deferred, failed, unsure>>
         /\ pages' = pages \ {r} /\ localOnly' = localOnly \ Ids(r.answer.rows)
         /\ PagesFresh' /\ ServerOrder' /\ WentWrong'
         /\ list'.archived = list.archived /\ Faces(list')
         /\ list'.loaded = IF r.kind = "append"
              THEN {c \in list.loaded : c.id \notin Ids(r.answer.rows)} \cup r.answer.rows
              ELSE r.answer.rows \cup Kept(list, r.answer, active, r.search)
         /\ list'.total = r.answer.total
         /\ list'.count = IF r.kind = "append" THEN r.from + Cardinality(r.answer.rows)
                                               ELSE Cardinality(r.answer.rows)
         /\ Watched' => /\ Calm /\ \A k \in calls \cup calls' : k.op \in {"look", "settle"}
                        /\ flow = None \/ flow.phase \in {"create", "reload"}
                        /\ r.answer = PageOf(r) /\ Leaving = {} /\ Leaving' = {}
                        /\ r.kind = "append" => Watched
<1>1. /\ pages' = pages \ {r} /\ AfterReload(r) /\ r.answer # None
      /\ UNCHANGED <<rows, clock, latest, deferred, failed>>
      /\ localOnly' = localOnly \ Ids(r.answer.rows)
      /\ whole' = /\ IF r.kind = "append" THEN whole ELSE r.search = deferred
                  /\ \A k \in calls : k.op \in {"look", "settle"}
  BY DEF ApplyPage, serverVars, bounds
<1>2. /\ unsure' = unsure /\ (r.kind # "reload" => flow' = flow /\ calls' = calls)
      /\ r.kind = "reload" => flow' = None /\ Reloading
      /\ \A k \in calls : k \in calls' \/ k.op = "look"
      /\ \A k \in calls' : k \in calls \/ k.op = "look"
  <2>1. /\ unsure' = unsure /\ (r.kind = "reload" => flow' = None /\ Reloading)
        /\ \A k \in calls' : k \in calls \/ k.op = "look"
    BY <1>1, AfterReloadIs DEF IInv
  <2>2. /\ r.kind # "reload" => flow' = flow /\ calls' = calls
        /\ \A k \in calls : k \in calls' \/ k.op = "look"
    BY <1>1 DEF AfterReload
  <2> QED
    BY <2>1, <2>2
<1>3. PICK p : p = r.answer
  OBVIOUS
<1>4. /\ GoodList(list) /\ r \in PageSet /\ p \in Answers /\ IsFiniteSet(p.rows)
      /\ Distinct(p.rows) /\ Cardinality(p.rows) \in Nat
  BY <1>1, <1>3, FS_CardinalityType DEF IInv, Types, PageTypes, GoodPage, PageSet
<1>5. /\ list'.archived = list.archived /\ Faces(list')
      /\ list'.loaded = IF r.kind = "append"
           THEN {c \in list.loaded : c.id \notin Ids(p.rows)} \cup p.rows
           ELSE p.rows \cup Kept(list, p, active, r.search)
      /\ list'.total = p.total
      /\ list'.count = IF r.kind = "append" THEN r.from + Cardinality(p.rows)
                                            ELSE Cardinality(p.rows)
  <2>1. CASE r.kind = "append"
    <3>1. PICK count \in Nat : count = r.from + Cardinality(p.rows)
      BY <1>4 DEF PageSet
    <3>2. PICK s : s = AppendPage(list, p, count)
      OBVIOUS
    <3>3. /\ Faces(s) /\ s.archived = list.archived /\ s.total = p.total /\ s.count = count
          /\ s.loaded = {c \in list.loaded : c.id \notin Ids(p.rows)} \cup p.rows
      BY <1>4, <3>2, AppendBooks
    <3>4. GoodList(s)
      BY <1>4, <3>2, AppendPageIs DEF Reduces
    <3>5. list' = Settled(s, r)
      BY <1>3, <2>1, <3>1, <3>2 DEF ApplyPage
    <3>6. SameBooks(list', s) /\ Faces(list')
      BY <3>3, <3>4, <3>5, SelectionBooks
    <3> QED
      BY <2>1, <3>1, <3>3, <3>6 DEF SameBooks
  <2>2. CASE r.kind # "append"
    <3>1. PICK search : search = r.search
      OBVIOUS
    <3>2. PICK s : s = FirstPage(list, p, active, search)
      OBVIOUS
    <3>3. /\ Faces(s) /\ s.archived = list.archived /\ s.total = p.total
          /\ s.count = Cardinality(p.rows)
          /\ s.loaded = p.rows \cup Kept(list, p, active, search)
      BY <1>4, <3>2, FirstBooks
    <3>4. GoodList(s)
      BY <1>4, <3>2, FirstPageIs DEF Reduces
    <3>5. list' = Settled(s, r)
      BY <1>3, <2>2, <3>1, <3>2 DEF ApplyPage
    <3>6. SameBooks(list', s) /\ Faces(list')
      BY <3>3, <3>4, <3>5, SelectionBooks
    <3> QED
      BY <2>2, <3>1, <3>3, <3>6 DEF SameBooks
  <2> QED
    BY <2>1, <2>2
<1>6. Calm' = Calm /\ (Quiet' => Quiet)
  BY <1>1, <1>2 DEF Calm, Quiet, Reloading
<1>7. \A q : Current(q)' = Current(q)
  BY <1>1, <1>5 DEF Current
<1>8. PagesFresh'
  BY <1>1, <1>6, <1>7, FreshStep DEF CountsInv
<1>9. ServerOrder' /\ WentWrong'
  <2>1. flow' = None \/ (flow' = flow /\ calls' = calls)
    BY <1>2
  <2> QED
    BY <1>1, <2>1 DEF CountsInv, ServerOrder, WentWrong
<1>10. ASSUME Watched'
       PROVE  /\ Calm /\ \A k \in calls \cup calls' : k.op \in {"look", "settle"}
              /\ flow = None \/ flow.phase \in {"create", "reload"}
              /\ r.answer = PageOf(r) /\ Leaving = {} /\ Leaving' = {}
              /\ r.kind = "append" => Watched
  <2>1. Calm /\ whole' /\ Idle'
    BY <1>6, <1>10 DEF Watched
  <2>2. \A k \in calls \cup calls' : k.op \in {"look", "settle"}
    BY <1>1, <1>2, <2>1
  <2>3. flow = None \/ flow.phase \in {"create", "reload"}
    BY <1>2, <2>1 DEF Idle, Reloading
  <2>4. r.answer = PageOf(r)
    BY <1>1, <2>1, <2>2, <2>3 DEF CountsInv, PagesFresh, Quiet
  <2>5. \A k \in calls \cup calls' : ~Departed(k)
    BY <2>2 DEF Departed, Archives, Writing
  <2>6. Leaving = {} /\ Leaving' = {}
    <3>1. \A k : Departed(k)' = Departed(k)
      BY DEF Departed, Archives, Writing
    <3> QED
      BY <2>5, <3>1 DEF Leaving
  <2>7. r.kind = "append" => Watched
    <3>1. r.kind = "append" => whole /\ Idle
      BY <1>1, <1>2, <2>1 DEF Idle
    <3>2. Asking
      BY <2>2 DEF Asking, Writing
    <3> QED
      BY <2>1, <3>1, <3>2 DEF Watched
  <2> QED
    BY <2>1, <2>2, <2>3, <2>4, <2>6, <2>7
<1> QED
  BY <1>1, <1>2, <1>3, <1>5, <1>8, <1>9, <1>10

(* The rows that follow the first n of a view.                             *)
Following(V, n) == {c \in V : Place(V, c) \in n .. (n + PageSize - 1)}

(* With them what pages brought is an initial part again.                  *)
LEMMA NextRows ==
  ASSUME NEW V \in SUBSET Copy, IsFiniteSet(V), Ordered(V), Distinct(V),
         NEW C \in SUBSET Ids(V), IsFiniteSet(C), Closed(V, C),
         NEW n \in Nat, n <= Cardinality(C)
  PROVE  LET R == Following(V, n)
             D == C \cup Ids(R)
         IN  /\ IsFiniteSet(R) /\ Cardinality(R) \in Nat /\ R \subseteq V
             /\ IsFiniteSet(D) /\ Closed(V, D) /\ D \subseteq Ids(V)
             /\ n + Cardinality(R) <= Cardinality(D)
<1>1. PICK R \in SUBSET V : R = {c \in V : Place(V, c) \in n .. (n + PageSize - 1)}
  OBVIOUS
<1>2. PICK D : D = C \cup Ids(R)
  OBVIOUS
<1>3. IsFiniteSet(R) /\ IsFiniteSet(Ids(R)) /\ Cardinality(R) \in Nat /\ PageSize \in Int
  <2>1. IsFiniteSet(R) /\ Distinct(R)
    BY FS_Subset DEF Distinct
  <2> QED
    BY <2>1, IdsAre, FS_CardinalityType, BoundsAssumption
<1>4. IsFiniteSet(D)
  BY <1>2, <1>3, FS_Union
<1>5. \A c \in V : Place(V, c) \in Int
  BY PlacesAre
<1>6. ASSUME NEW E \in SUBSET Ids(V), NEW S, S = {c \in V : c.id \in E}
      PROVE  S \subseteq V /\ IsFiniteSet(S) /\ Ids(S) = E /\ Cardinality(S) = Cardinality(E)
  <2>1. S \in SUBSET V
    BY <1>6
  <2>2. IsFiniteSet(S) /\ Distinct(S)
    BY <2>1, FS_Subset DEF Distinct
  <2>3. Ids(S) = E
    BY <1>6 DEF Ids
  <2> QED
    BY <2>1, <2>2, <2>3, IdsAre
<1>7. PICK S : S = {c \in V : c.id \in C}
  OBVIOUS
<1>8. S \subseteq V /\ IsFiniteSet(S) /\ Cardinality(S) = Cardinality(C) /\ Cardinality(S) \in Nat
  BY <1>6, <1>7, FS_CardinalityType
<1>9. ASSUME NEW c \in V, Place(V, c) < n PROVE c.id \in C
  <2> SUFFICES ASSUME c.id \notin C PROVE FALSE
    OBVIOUS
  <2>1. PICK T \in SUBSET V : T = {d \in V : Before(d, c)}
    OBVIOUS
  <2>2. S \subseteq T
    <3>1. ASSUME NEW s \in S PROVE Before(s, c)
      <4>1. s \in V /\ s # c
        BY <1>7, <3>1
      <4>2. ~Before(c, s)
        BY <1>7, <3>1 DEF Closed
      <4> QED
        BY <4>1, <4>2, BeforeIs
    <3> QED
      BY <1>8, <2>1, <3>1
  <2>3. IsFiniteSet(T)
    BY FS_Subset
  <2>4. Cardinality(S) <= Cardinality(T) /\ Cardinality(T) \in Nat
    BY <2>2, <2>3, FS_Subset, FS_CardinalityType
  <2>5. Cardinality(T) = Place(V, c)
    BY <2>1 DEF Place
  <2> QED
    BY <1>8, <1>9, <2>4, <2>5
<1>10. D \in SUBSET Ids(V)
  BY <1>2 DEF Ids
<1>11. Closed(V, D)
  <2> SUFFICES ASSUME NEW c \in V, NEW d \in V, c.id \in D, Before(d, c) PROVE d.id \in D
    BY DEF Closed
  <2>1. CASE c.id \in C
    BY <1>2, <2>1 DEF Closed
  <2>2. CASE c.id \notin C
    <3>1. c \in R
      BY <1>2, <2>2 DEF Ids, Distinct
    <3>2. Place(V, d) < Place(V, c)
      BY PlacesAre
    <3>3. Place(V, d) < n \/ Place(V, d) \in n .. (n + PageSize - 1)
      BY <1>1, <1>3, <1>5, <3>1, <3>2
    <3> QED
      BY <1>1, <1>2, <1>9, <3>3 DEF Ids
  <2> QED
    BY <2>1, <2>2
<1>12. n + Cardinality(R) <= Cardinality(D)
  <2>1. Cardinality(S) <= Cardinality(V)
    BY <1>8, FS_Subset
  <2>2. Cardinality(V) \in Nat
    BY FS_CardinalityType
  <2>3. n <= Cardinality(V)
    BY <1>8, <2>1, <2>2
  <2>4. PICK first \in SUBSET V : first = {c \in V : Place(V, c) < n}
    OBVIOUS
  <2>5. IsFiniteSet(first) /\ Cardinality(first) = n
    BY <2>3, <2>4, FirstAre
  <2>6. first \cap R = {}
    BY <1>1, <1>3, <1>5, <2>4
  <2>7. IsFiniteSet(first \cup R) /\ Cardinality(first \cup R) = n + Cardinality(R)
    <3>1. /\ IsFiniteSet(first \cup R)
          /\ Cardinality(first \cup R) =
               Cardinality(first) + Cardinality(R) - Cardinality(first \cap R)
      BY <1>3, <2>5, FS_Union
    <3>2. Cardinality(first \cap R) = 0
      BY <2>6, FS_EmptySet
    <3> QED
      BY <1>3, <2>5, <3>1, <3>2
  <2>8. PICK T : T = {c \in V : c.id \in D}
    OBVIOUS
  <2>9. IsFiniteSet(T) /\ Cardinality(T) = Cardinality(D)
    BY <1>6, <1>10, <2>8
  <2>10. first \cup R \subseteq T
    BY <1>2, <1>9, <2>4, <2>8 DEF Ids
  <2>11. Cardinality(first \cup R) <= Cardinality(T)
    BY <2>9, <2>10, FS_Subset
  <2> QED
    BY <2>7, <2>9, <2>11
<1> QED
  BY <1>1, <1>2, <1>3, <1>4, <1>10, <1>11, <1>12 DEF Following

(* Books that a page has brought up to date.                               *)
LEMMA PagedCounts ==
  ASSUME NEW C, C \subseteq Ids(list'.loaded) \ localOnly', IsFiniteSet(C),
         list'.count <= Cardinality(C), Closed(View, C), View' = View,
         \A c \in list'.loaded : c.archived = list'.archived /\ c.id \in Ids(View),
         IsFiniteSet(Ids(View)), Cardinality(Ids(View)) <= list'.total, Leaving' = {},
         \A k \in calls' : k.op \in {"look", "settle"},
         latest' = "append" => \A r \in pages' : r.kind # "append"
  PROVE  Reached' /\ Counted' /\ Present' /\ Facing' /\ Archiving' /\ Appending'
<1>1. Reached'
  <2>1. \A c, d \in View : c.id \in C /\ Before(d, c) => d.id \in C
    BY DEF Closed
  <2>2. C \in SUBSET Ids(list'.loaded)
    OBVIOUS
  <2> QED
    BY <2>1, <2>2 DEF Reached, Brought
<1>2. Ids(View) \cup {} = Ids(View)
  OBVIOUS
<1>3. Counted' /\ Present'
  BY <1>2 DEF Counted, Present, Ids
<1>4. Facing' /\ Appending'
  BY DEF Facing, Appending
<1>5. Archiving'
  BY DEF Archiving, Archives, Writing
<1> QED
  BY <1>1, <1>3, <1>4, <1>5

(* An appended page brings the rows that follow,                           *)
LEMMA AppendedCounts ==
  ASSUME IInv, CountsInv, Asked, NEW r \in pages, ApplyPage(r), Current(r), r.kind = "append"
  PROVE  CountsInv'
<1>1. PICK p : p = r.answer
  OBVIOUS
<1>2. /\ UNCHANGED <<rows, clock, latest, deferred, failed, unsure>>
      /\ pages' = pages \ {r} /\ localOnly' = localOnly \ Ids(p.rows)
      /\ PagesFresh' /\ ServerOrder' /\ WentWrong'
      /\ list'.archived = list.archived /\ Faces(list')
      /\ list'.loaded = {c \in list.loaded : c.id \notin Ids(p.rows)} \cup p.rows
      /\ list'.total = p.total /\ list'.count = r.from + Cardinality(p.rows)
      /\ Watched' => /\ Calm /\ \A k \in calls \cup calls' : k.op \in {"look", "settle"}
                     /\ p = PageOf(r) /\ Leaving = {} /\ Leaving' = {} /\ Watched
  BY <1>1, QuietIs
<1> SUFFICES ASSUME Watched'
             PROVE  Reached' /\ Counted' /\ Present' /\ Facing' /\ Archiving' /\ Appending'
  BY <1>2 DEF CountsInv, CountsRight
<1>3. /\ Calm /\ \A k \in calls \cup calls' : k.op \in {"look", "settle"}
      /\ p = PageOf(r) /\ Leaving = {} /\ Leaving' = {} /\ Watched
  BY <1>2
<1>4. Reached /\ Counted /\ Present /\ Facing /\ Archiving /\ Appending
  BY <1>3 DEF CountsInv, CountsRight
<1>5. /\ r.archived = list.archived /\ r.search = deferred /\ latest = "append"
      /\ r.from = list.count
  BY <1>4 DEF Current, Asked, Appending
<1>6. PICK V : V = View
  OBVIOUS
<1>7. /\ V \in SUBSET Copy /\ IsFiniteSet(V) /\ Ordered(V) /\ Distinct(V)
      /\ IsFiniteSet(Ids(V)) /\ Cardinality(Ids(V)) = Cardinality(V)
      /\ \A c \in V : c.archived = list.archived
  BY <1>6, ViewIs DEF View, IInv, Types, CountsInv
<1>8. PICK n : n = list.count
  OBVIOUS
<1>9. n \in Nat
  BY <1>8 DEF IInv, Types, GoodList, Lists
<1>10. PICK R : R = Following(V, n)
  OBVIOUS
<1>11. p.rows = R /\ p.total = Cardinality(V)
  BY <1>3, <1>5, <1>6, <1>8, <1>10, PageIs DEF Following, View
<1>12. PICK C \in SUBSET Ids(list.loaded) :
         /\ C \subseteq Ids(list.loaded) \ localOnly /\ IsFiniteSet(C) /\ n <= Cardinality(C)
         /\ Closed(V, C)
  <2>1. PICK C \in SUBSET Ids(list.loaded) : Brought(C)
    BY <1>4 DEF Reached
  <2>2. Closed(V, C)
    BY <1>6, <2>1 DEF Brought, Closed
  <2> QED
    BY <1>8, <2>1, <2>2 DEF Brought
<1>13. Ids(list.loaded) \subseteq Ids(V)
  BY <1>3, <1>4, <1>6 DEF Present
<1>14. PICK D : D = C \cup Ids(R)
  OBVIOUS
<1>15. /\ IsFiniteSet(D) /\ Closed(V, D) /\ R \subseteq V
       /\ n + Cardinality(R) <= Cardinality(D)
  <2>1. C \in SUBSET Ids(V)
    BY <1>13
  <2> QED
    BY <1>7, <1>9, <1>10, <1>12, <1>14, <2>1, NextRows
<1>16. list'.count <= Cardinality(D) /\ list'.total = Cardinality(V)
  BY <1>2, <1>5, <1>8, <1>11, <1>15
<1>17. D \subseteq Ids(list'.loaded) \ localOnly'
  BY <1>2, <1>11, <1>12, <1>14 DEF Ids
<1>18. \A c \in list'.loaded : c.archived = list'.archived /\ c.id \in Ids(View)
  <2>1. \A c \in list.loaded : c.archived = list.archived /\ c.id \in Ids(V)
    BY <1>4, <1>13 DEF Facing, Ids
  <2>2. \A c \in R : c.archived = list.archived /\ c.id \in Ids(V)
    BY <1>7, <1>15 DEF Ids
  <2> QED
    BY <1>2, <1>6, <1>11, <2>1, <2>2
<1>19. View' = View
  BY <1>2, ViewSame DEF View
<1>20. Cardinality(Ids(View)) <= list'.total
  <2>1. Cardinality(V) \in Nat
    BY <1>7, FS_CardinalityType
  <2> QED
    BY <1>6, <1>7, <1>16, <2>1
<1>21. \A q \in pages' : q.kind # "append"
  BY <1>2 DEF IInv, Types, PageTypes
<1> QED
  BY <1>3, <1>6, <1>7, <1>15, <1>16, <1>17, <1>18, <1>19, <1>20, <1>21, PagedCounts

(* and a first page those that come first.                                 *)
LEMMA FirstPageCounts ==
  ASSUME IInv, CountsInv, Asked, NEW r \in pages, ApplyPage(r), Current(r), r.kind # "append"
  PROVE  CountsInv'
<1>1. PICK p : p = r.answer
  OBVIOUS
<1>2. /\ UNCHANGED <<rows, clock, latest, deferred, failed, unsure>>
      /\ pages' = pages \ {r} /\ localOnly' = localOnly \ Ids(p.rows)
      /\ PagesFresh' /\ ServerOrder' /\ WentWrong'
      /\ list'.archived = list.archived /\ Faces(list')
      /\ list'.loaded = p.rows \cup Kept(list, p, active, r.search)
      /\ list'.total = p.total /\ list'.count = Cardinality(p.rows)
      /\ Watched' => /\ Calm /\ \A k \in calls \cup calls' : k.op \in {"look", "settle"}
                     /\ flow = None \/ flow.phase \in {"create", "reload"}
                     /\ p = PageOf(r) /\ Leaving = {} /\ Leaving' = {}
  BY <1>1, QuietIs
<1> SUFFICES ASSUME Watched'
             PROVE  Reached' /\ Counted' /\ Present' /\ Facing' /\ Archiving' /\ Appending'
  BY <1>2 DEF CountsInv, CountsRight
<1>3. /\ Calm /\ \A k \in calls \cup calls' : k.op \in {"look", "settle"}
      /\ flow = None \/ flow.phase \in {"create", "reload"}
      /\ p = PageOf(r) /\ Leaving' = {}
  BY <1>2
<1>4. r.archived = list.archived /\ r.search = deferred /\ latest = r.kind /\ r.from = 0
  <2>1. whole'
    BY DEF Watched
  <2> QED
    BY <2>1 DEF Current, Asked, ApplyPage
<1>5. PICK V : V = View
  OBVIOUS
<1>6. /\ V \in SUBSET Copy /\ IsFiniteSet(V) /\ Ordered(V) /\ Distinct(V)
      /\ IsFiniteSet(Ids(V)) /\ Cardinality(Ids(V)) = Cardinality(V)
      /\ \A c \in V : c.archived = list.archived
      /\ \A i \in DOMAIN rows : rows[i] \in V <=>
           rows[i].archived = list.archived /\ (deferred => rows[i].hit \/ i \in Mentioned)
  BY <1>5, ViewIs DEF View, IInv, Types, CountsInv
<1>7. PICK R, n, C : R = Following(V, n) /\ n = 0 /\ C = {}
  OBVIOUS
<1>8. p.rows = R /\ p.total = Cardinality(V)
  BY <1>3, <1>4, <1>5, <1>7, PageIs DEF Following, View
<1>9. PICK D : D = C \cup Ids(R)
  OBVIOUS
<1>10. /\ IsFiniteSet(D) /\ Closed(V, D) /\ R \subseteq V /\ Cardinality(R) \in Nat
       /\ n + Cardinality(R) <= Cardinality(D)
  <2>1. /\ C \in SUBSET Ids(V) /\ IsFiniteSet(C) /\ n <= Cardinality(C) /\ n \in Nat
        /\ Closed(V, C)
    BY <1>7, FS_EmptySet DEF Closed
  <2> QED
    BY <1>6, <1>7, <1>9, <2>1, NextRows
<1>11. list'.count <= Cardinality(D) /\ list'.total = Cardinality(V)
  BY <1>2, <1>7, <1>8, <1>10
<1>12. D \subseteq Ids(list'.loaded) \ localOnly'
  BY <1>2, <1>7, <1>8, <1>9 DEF Ids
<1>13. \A c \in list'.loaded : c.archived = list'.archived /\ c.id \in Ids(View)
  <2>1. \A c \in R : c.archived = list.archived /\ c.id \in Ids(V)
    BY <1>6, <1>10 DEF Ids
  <2>2. ASSUME NEW c \in Kept(list, p, active, r.search)
        PROVE  c.archived = list.archived /\ c.id \in Ids(V)
    <3>1. c \in list.loaded /\ c.archived = list.archived /\ (deferred => c.hit)
      BY <1>4, <2>2 DEF Kept, Matches
    <3>2. ~Changing(c.id)
      BY <1>3 DEF Changing, Written, Writes, Runs, Running
    <3>3. IsRow(c)
      BY <1>3, <3>1, <3>2 DEF IInv, Copies, LoadedRight, Right, Calm
    <3>4. c \in V
      BY <1>6, <3>1, <3>3 DEF IsRow
    <3> QED
      BY <3>1, <3>4 DEF Ids
  <2> QED
    BY <1>2, <1>5, <1>8, <2>1, <2>2
<1>14. View' = View
  BY <1>2, ViewSame DEF View
<1>15. Cardinality(Ids(View)) <= list'.total
  <2>1. Cardinality(V) \in Nat
    BY <1>6, FS_CardinalityType
  <2> QED
    BY <1>5, <1>6, <1>11, <2>1
<1>16. latest' # "append"
  BY <1>2, <1>4
<1> QED
  BY <1>3, <1>5, <1>6, <1>10, <1>11, <1>12, <1>13, <1>14, <1>15, <1>16, PagedCounts

(* At first no page was applied.                                           *)
LEMMA InitCounts ==
  ASSUME Init
  PROVE  CountsInv /\ Asked
<1>1. ~whole /\ flow = None /\ rows = Start /\ clock = 1 + Cardinality(DOMAIN Start)
      /\ list.shown = {} /\ \A r \in pages : r.answer = None /\ r.kind = "effect" /\ r.from = 0
  BY DEF Init
<1>2. ServerOrder
  <2>1. Cardinality(DOMAIN Start) \in Nat
    BY StartAssumption, FS_CardinalityType
  <2>2. \A i \in DOMAIN Start : Start[i].at \in Int
    BY StartAssumption DEF Copy
  <2> QED
    BY <1>1, <2>1, <2>2, StartAssumption DEF ServerOrder
<1> QED
  BY <1>1, <1>2 DEF CountsInv, Asked, Faces, PagesFresh, CountsRight, Watched, WentWrong

(* Any step.                                                               *)
LEMMA NextCounts ==
  ASSUME IInv, CountsInv, Asked, [Next]_vars
  PROVE  CountsInv'
<1>1. CASE vars' = vars
  <2>1. UNCHANGED <<rows, clock, deferred, localOnly, latest, pages, calls, flow, unsure,
                    failed, whole, list>>
    BY <1>1 DEF vars, serverVars, listVars, history, bounds
  <2>2. SameBooks(list', list) /\ Faces(list')
    BY <2>1 DEF SameBooks, CountsInv, Faces
  <2> QED
    BY <2>1, <2>2, ScreenStep
<1>2. CASE Pages
  <2>1. PICK r \in pages : AnswerPage(r) \/ ApplyPage(r) \/ PageFails(r)
    BY <1>2 DEF Pages
  <2> QED
    BY <2>1, AnswerPageCounts, StalePageCounts, AppendedCounts, FirstPageCounts, PageFailsCounts
<1>3. CASE Calls
  BY <1>3, ServeCounts, ReceiveCounts, CallFailsCounts DEF Calls
<1>4. CASE Flow
  BY <1>4, BeginCounts, CreateCounts, CreatedCounts, CreateFailsCounts, RunCounts, SettleCounts
  DEF Flow
<1> QED
  BY <1>1, <1>2, <1>3, <1>4, FetchCounts, SidebarCounts, DialogCounts DEF Next

(* The invariant holds: while the counters are watched, the count is not   *)
(* more than the rows that pages brought, all of which come first.         *)
THEOREM CountsInvariance == Spec => [](CountsInv /\ Asked)
<1>1. Init => CountsInv /\ Asked
  BY InitCounts
<1>2. IInv /\ CountsInv /\ Asked /\ [Next]_vars => (CountsInv /\ Asked)'
  BY NextCounts, AskedStep DEF IInv
<1> QED
  BY <1>1, <1>2, Invariance, PTL DEF Spec

(* Each conversation of the view is loaded, or more are offered: what      *)
(* pages brought is as many as the whole view when the count reaches the   *)
(* total, and nothing else is loaded.                                      *)
THEOREM NothingIsLost == Spec => []NothingLost
<1>1. IInv /\ CountsInv => NothingLost
  <2> SUFFICES ASSUME IInv, CountsInv, AtRest, whole, ~failed, unsure = {},
                      NEW c \in Found(list.archived, list.search),
                      ~(list.count < list.total)
               PROVE  c.id \in Ids(list.loaded)
    BY DEF NothingLost
  <2>1. Watched /\ c \in View /\ Leaving = {}
    BY DEF AtRest, Watched, Calm, Idle, Asking, View, Leaving
  <2>2. Reached /\ Counted /\ Present
    BY <2>1 DEF CountsInv, CountsRight
  <2>3. PICK C \in SUBSET Ids(list.loaded) : IsFiniteSet(C) /\ list.count <= Cardinality(C)
    BY <2>2 DEF Reached, Brought
  <2>4. PICK all : all = Ids(View)
    OBVIOUS
  <2>5. /\ IsFiniteSet(all) /\ Cardinality(all) <= list.total /\ C \subseteq all
        /\ c.id \in all
    BY <2>1, <2>2, <2>4 DEF Counted, Present, Ids
  <2>6. /\ Cardinality(C) \in Nat /\ Cardinality(all) \in Nat
        /\ list.count \in Nat /\ list.total \in Nat
    BY <2>3, <2>5, FS_CardinalityType DEF IInv, Types, GoodList, Lists
  <2>7. Cardinality(all) <= Cardinality(C)
    BY <2>3, <2>5, <2>6
  <2>8. C = all
    BY <2>3, <2>5, <2>6, <2>7, FS_Subset
  <2> QED
    BY <2>5, <2>8
<1> QED
  BY <1>1, Invariance, CountsInvariance, PTL

=============================================================================
