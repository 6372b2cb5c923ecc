----------------------------- MODULE EntryOrder -----------------------------
(* The entry list as it is drawn: useFilteredEntries filters and sorts, the  *)
(* list groups what is left by day, and a click with Shift selects a run.    *)
(* The run is counted in the sorted list and the user sees the groups, so    *)
(* the two have to be in one order, whatever is sorted by and whichever date *)
(* is missing. The groups are made when the list or a setting changes and    *)
(* not at midnight.                                                          *)
(*                                                                           *)
(* Rows are in the order of the vault; titles run against it. No entry is    *)
(* dated after the clock: a device whose clock is ahead may send one, which  *)
(* would be grouped with the oldest.                                         *)
EXTENDS Integers, Sequences, FiniteSets, SequencesExt, TLC

CONSTANTS MaxRows,   \* entries
          MaxNow,    \* half days
          Dates,     \* dates of the entries that arrive; Missing is one of them
          MaxTouches, \* changes of entries
          MaxViews   \* changes of the filter, the search or the order

VARIABLES rows,      \* the entries: row -> dates and marks; absent rows are not in the domain
          now,       \* the clock, in half days
          view,      \* filterCategory, what the search finds, entrySortOrder, groupByDate
          groupedAt, \* when the groups were made
          chosen,    \* selectedEntryIds
          strayed,   \* rows a click with Shift added from outside the run on the screen
          steps      \* changes of entries and of the view so far

orderVars == <<rows, now, view, groupedAt, chosen, strayed, steps>>

Rows == 1..MaxRows
Missing == 0
DayOf(t) == t \div 2
Ids_ == DOMAIN rows

\* the first row carries the tag that is filtered by
Entry(r, c, u, p) ==
  [created |-> c, updated |-> u, pinned |-> p, favorite |-> FALSE, tagged |-> r = 1]

-----------------------------------------------------------------------------
(* useFilteredEntries.                                                       *)

InCategory(r) ==
  \/ view.filter = "all"
  \/ view.filter = "favorites" /\ rows[r].favorite
  \/ view.filter = "tag" /\ rows[r].tagged
Passes(r) == r \in Ids_ \cap view.found /\ InCategory(r)
Matching == {r \in Ids_ : Passes(r)}

SortDate(r) ==
  LET first == IF view.sort = "created" THEN rows[r].created ELSE rows[r].updated
      other == IF view.sort = "created" THEN rows[r].updated ELSE rows[r].created
  IN IF first = Missing THEN other ELSE first

\* localeCompare, or the later date first; sort() keeps the order of equals
Sooner(a, b) ==
  IF view.sort = "title" THEN a > b
  ELSE SortDate(a) > SortDate(b) \/ (SortDate(a) = SortDate(b) /\ a < b)
Before(a, b) ==
  \/ rows[a].pinned /\ ~rows[b].pinned
  \/ rows[a].pinned = rows[b].pinned /\ Sooner(a, b)
FilteredEntries == SortSeq(SelectSeq([r \in Rows |-> r], Passes), Before)

-----------------------------------------------------------------------------
(* The groups of the list.                                                   *)

\* getDate
GroupDate(r) ==
  LET first == IF view.sort = "created" THEN rows[r].created ELSE rows[r].updated
      other == IF view.sort = "created" THEN rows[r].updated ELSE rows[r].created
  IN IF first = Missing THEN other ELSE first
IsToday(t) == t # Missing /\ DayOf(t) = DayOf(groupedAt)
IsYesterday(t) == t # Missing /\ DayOf(t) = DayOf(groupedAt) - 1
IsGroupByDate == view.grouped /\ view.sort # "title"

Sections ==
  LET Group(Test(_)) == SelectSeq(FilteredEntries, Test)
      Pinned(r) == rows[r].pinned
      Unpinned(r) == ~Pinned(r)
      Today(r) == Unpinned(r) /\ IsToday(GroupDate(r))
      Yesterday(r) == Unpinned(r) /\ IsYesterday(GroupDate(r))
      Earlier(r) == Unpinned(r) /\ ~Today(r) /\ ~Yesterday(r)
  IN IF IsGroupByDate
       THEN <<Group(Pinned), Group(Today), Group(Yesterday), Group(Earlier)>>
       ELSE <<Group(Pinned), Group(Unpinned)>>
Displayed == FlattenSeq(Sections)

-----------------------------------------------------------------------------
(* Clicks.                                                                   *)

IndexIn(s, r) == CHOOSE i \in 1..Len(s) : s[i] = r
Run(s, a, b) ==
  LET i == IndexIn(s, a)
      j == IndexIn(s, b)
  IN SubSeq(s, IF i < j THEN i ELSE j, IF i < j THEN j ELSE i)
Pick(ids) == chosen' = ids /\ UNCHANGED <<rows, now, view, groupedAt, steps>>

\* a click without a key, with Control, with Shift on a list with a last selection
ItemClick(r) == r \in Matching /\ Pick(<<r>>) /\ UNCHANGED strayed
MultiClick(r) ==
  /\ r \in Matching /\ UNCHANGED strayed
  /\ Pick(IF Contains(chosen, r) THEN Remove(chosen, r) ELSE Append(chosen, r))
RangeClick(r) ==
  /\ r \in Matching /\ chosen # <<>> /\ Last(chosen) \in Matching
  /\ LET run == Run(FilteredEntries, Last(chosen), r)
         more == SelectSeq(run, LAMBDA x : ~Contains(chosen, x))
     IN /\ Pick(chosen \o more)
        /\ strayed' = strayed \cup (ToSet(more) \ ToSet(Run(Displayed, Last(chosen), r)))

\* clearSelection, and bulk operations when they end
ClearSelection == Pick(<<>>) /\ UNCHANGED strayed

-----------------------------------------------------------------------------
(* What changes the list.                                                    *)

Change(rs) ==
  /\ steps.touches < MaxTouches /\ steps' = [steps EXCEPT !.touches = @ + 1]
  /\ rows' = rs /\ groupedAt' = now /\ UNCHANGED <<now, view, chosen, strayed>>

\* a synchronisation or an import: dates of any age, or none
EntryArrives ==
  \E r \in Rows \ Ids_, c, u \in Dates :
    Change([x \in Ids_ \cup {r} |-> IF x \in Ids_ THEN rows[x] ELSE Entry(r, c, u, FALSE)])
EntryGoes == \E r \in Ids_ : Change([x \in Ids_ \ {r} |-> rows[x]])
EntryUpdated == \E r \in Ids_ : Change([rows EXCEPT ![r].updated = now])
TogglePin == \E r \in Ids_ : Change([rows EXCEPT ![r].pinned = ~@])
ToggleFavorite == \E r \in Ids_ : Change([rows EXCEPT ![r].favorite = ~@])

TimePasses == now < MaxNow /\ now' = now + 1 /\ UNCHANGED <<rows, view, groupedAt, chosen, strayed, steps>>

Look(v) ==
  /\ v # view /\ steps.views < MaxViews /\ steps' = [steps EXCEPT !.views = @ + 1]
  /\ view' = v /\ groupedAt' = now /\ UNCHANGED <<rows, now, chosen, strayed>>
SetFilterCategory == \E f \in {"all", "favorites", "tag"} : Look([view EXCEPT !.filter = f])
SetSearchTerm == \E found \in {Rows} \cup {Rows \ {r} : r \in Rows} : Look([view EXCEPT !.found = found])

\* an order by date brings the groups back, groups bring an order by date
SetSortOrder ==
  \E s \in {"title", "updated", "created"} :
    Look([view EXCEPT !.sort = s, !.grouped = @ \/ s # "title"])
ToggleGroupByDate ==
  Look([view EXCEPT !.grouped = ~IsGroupByDate,
                    !.sort = IF ~IsGroupByDate /\ @ = "title" THEN "updated" ELSE @])

OrderInit ==
  /\ \E c \in Dates, u \in [1..MaxRows - 1 -> Dates], p \in 0..1 :
       rows = [r \in 1..MaxRows - 1 |-> Entry(r, c, u[r], r = p)]
  /\ now = 5 /\ groupedAt = 5 /\ chosen = <<>> /\ strayed = {}
  /\ view = [filter |-> "all", found |-> Rows, sort |-> "updated", grouped |-> TRUE]
  /\ steps = [touches |-> 0, views |-> 0]

OrderNext ==
  \/ \E r \in Rows : ItemClick(r) \/ MultiClick(r) \/ RangeClick(r)
  \/ ClearSelection \/ EntryArrives \/ EntryGoes \/ EntryUpdated \/ TogglePin
  \/ ToggleFavorite \/ TimePasses \/ SetFilterCategory \/ SetSearchTerm \/ SetSortOrder
  \/ ToggleGroupByDate

-----------------------------------------------------------------------------
\* Every entry that passes the filter is on the screen once, and a click with
\* Shift takes what lies between the two rows on the screen, however the list
\* was sorted, grouped and changed since (PasswordList, useFilteredEntries).
RangeAsShown ==
  /\ strayed = {}
  /\ LET rows_ == Displayed IN ToSet(rows_) = Matching /\ Len(rows_) = Cardinality(Matching)

=============================================================================
