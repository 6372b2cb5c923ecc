---------------------------- MODULE MobileLayers ----------------------------
(* The narrow layout puts everything into one column: an entry replaces the  *)
(* list, and the drawer, the generator and the settings lie over it. The     *)
(* back gesture of the phone has to take away what lies on top. AppLayout    *)
(* therefore pushes an entry onto the history of the webview whenever one of *)
(* them changes, and takes one layer away when an entry is popped; with no   *)
(* entry left the gesture leaves the page.                                   *)
(*                                                                           *)
(* Entries are loaded by EntryList; here one is shown, replaced by a newer   *)
(* object, or gone at any moment. Entries pushed before the layout was       *)
(* mounted are not counted: a page that was left is not returned to by the   *)
(* gesture.                                                                  *)
EXTENDS Integers

CONSTANTS ShownEntries,      \* objects selectedEntry may be
          MaxPushed   \* entries on the history

NoEntry == "none"

VARIABLES page,      \* "layout", or "other": the login page or the choice of a vault
          layers,    \* isMobile, selectedEntry, the drawer, the generator, the settings
          depth,     \* entries pushed since the layout was mounted
          tab,       \* mobileTab
          filter,    \* filterCategory
          searching, \* mobileSearchVisible
          typing     \* isKeyboardOpen

layerVars == <<page, layers, depth, tab, filter, searching, typing>>
listVars == <<tab, filter, searching, typing>>

SomethingOpen(l) == l.selected # NoEntry \/ l.drawer \/ l.generator \/ l.settings

\* the effect that pushes: after each change of what it depends on
Pushed(next) == IF next # layers /\ next.mobile /\ SomethingOpen(next) THEN 1 ELSE 0

Become(next) ==
  /\ page = "layout" /\ layers' = next
  /\ depth + Pushed(next) <= MaxPushed /\ depth' = depth + Pushed(next)
  /\ UNCHANGED page

\* nothing lies over the list or the entry
Uncovered == layers.mobile /\ ~layers.drawer /\ ~layers.generator /\ ~layers.settings

-----------------------------------------------------------------------------
(* The header of the list, the bar at the bottom, the drawer and the sheet.  *)

OpenDrawer ==
  /\ Uncovered /\ layers.selected = NoEntry
  /\ Become([layers EXCEPT !.drawer = TRUE]) /\ UNCHANGED listVars

\* the search term stays when its field goes
ToggleSearch ==
  /\ page = "layout" /\ Uncovered /\ layers.selected = NoEntry /\ searching' = ~searching
  /\ UNCHANGED <<page, layers, depth, tab, filter, typing>>

ChangeTab(category, name) ==
  /\ Uncovered /\ ~typing /\ filter' = category /\ tab' = name
  /\ Become([layers EXCEPT !.selected = NoEntry]) /\ UNCHANGED <<searching, typing>>

NavVault == ChangeTab("all", "entries")
NavFavorites == ChangeTab("favorites", "favorites")
NavGenerator ==
  /\ Uncovered /\ ~typing
  /\ Become([layers EXCEPT !.generator = TRUE]) /\ UNCHANGED listVars

NavSettings ==
  /\ Uncovered /\ ~typing
  /\ Become([layers EXCEPT !.settings = TRUE]) /\ UNCHANGED listVars

FocusChanges ==
  /\ page = "layout" /\ layers.mobile /\ typing' = ~typing
  /\ UNCHANGED <<page, layers, depth, tab, filter, searching>>

\* the tab of the bar stays as it was
DrawerFilter(category) ==
  /\ layers.mobile /\ layers.drawer /\ filter' = category
  /\ Become([layers EXCEPT !.drawer = FALSE]) /\ UNCHANGED <<tab, searching, typing>>

CloseDrawer ==
  /\ layers.mobile /\ layers.drawer
  /\ Become([layers EXCEPT !.drawer = FALSE]) /\ UNCHANGED listVars

DrawerSettings ==
  /\ layers.mobile /\ layers.drawer
  /\ Become([layers EXCEPT !.drawer = FALSE, !.settings = TRUE]) /\ UNCHANGED listVars

CloseSheet ==
  /\ layers.mobile /\ layers.generator
  /\ Become([layers EXCEPT !.generator = FALSE]) /\ UNCHANGED listVars

-----------------------------------------------------------------------------
(* What else changes a layer.                                                *)

\* a row is clicked, the entry is loaded again or changed, or it is gone
SelectedEntryChanges(e) ==
  /\ e # layers.selected
  /\ Become([layers EXCEPT !.selected = e]) /\ UNCHANGED listVars

BackToVault ==
  /\ Uncovered /\ layers.selected # NoEntry
  /\ Become([layers EXCEPT !.selected = NoEntry]) /\ UNCHANGED listVars

\* a tag of the entry that is shown
DetailTagFilter ==
  /\ Uncovered \/ (~layers.mobile /\ ~layers.settings)
  /\ layers.selected # NoEntry /\ filter' = "tag"
  /\ Become([layers EXCEPT !.selected = IF layers.mobile THEN NoEntry ELSE @])
  /\ UNCHANGED <<tab, searching, typing>>

\* the sidebar of the wide layout
SidebarSettings ==
  /\ ~layers.mobile
  /\ Become([layers EXCEPT !.settings = ~@]) /\ UNCHANGED listVars

CloseSettings ==
  /\ layers.settings
  /\ Become([layers EXCEPT !.settings = FALSE]) /\ UNCHANGED listVars

\* the state of the drawer and of the sheet outlives the wide layout
WindowResized == Become([layers EXCEPT !.mobile = ~@]) /\ UNCHANGED listVars

\* useState of AppLayout; the settings and the entry belong to providers above it
Unmounted == [layers EXCEPT !.drawer = FALSE, !.generator = FALSE]
Leave(next) ==
  /\ page' = "other" /\ layers' = next /\ depth' = 0
  /\ tab' = "entries" /\ searching' = FALSE /\ typing' = FALSE /\ UNCHANGED filter

Lock ==
  /\ page = "layout"
  /\ Leave([Unmounted EXCEPT !.settings = FALSE, !.selected = NoEntry])

\* the effects of the new layout run once
Mount ==
  /\ page = "other" /\ page' = "layout"
  /\ depth' = IF layers.mobile /\ SomethingOpen(layers) THEN 1 ELSE 0
  /\ UNCHANGED <<layers, listVars>>

-----------------------------------------------------------------------------
(* The back gesture.                                                         *)

HandlePopState ==
  IF ~layers.mobile THEN layers
  ELSE IF layers.drawer THEN [layers EXCEPT !.drawer = FALSE]
  ELSE IF layers.generator THEN [layers EXCEPT !.generator = FALSE]
  ELSE IF layers.settings THEN [layers EXCEPT !.settings = FALSE]
  ELSE [layers EXCEPT !.selected = NoEntry]

\* what stays open pushes again
Back ==
  /\ page = "layout"
  /\ IF depth = 0 THEN Leave(Unmounted)
     ELSE /\ layers' = HandlePopState /\ depth' = depth - 1 + Pushed(HandlePopState)
          /\ UNCHANGED <<page, listVars>>

LayerInit ==
  /\ page = "layout" /\ depth = 0 /\ tab = "entries" /\ filter = "all"
  /\ searching = FALSE /\ typing = FALSE
  /\ \E mobile \in BOOLEAN :
       layers = [mobile |-> mobile, selected |-> NoEntry, drawer |-> FALSE,
                 generator |-> FALSE, settings |-> FALSE]

LayerNext ==
  \/ OpenDrawer \/ ToggleSearch \/ NavVault \/ NavFavorites \/ NavGenerator \/ NavSettings
  \/ FocusChanges \/ CloseDrawer \/ DrawerSettings \/ CloseSheet \/ BackToVault
  \/ DetailTagFilter
  \/ SidebarSettings \/ CloseSettings \/ WindowResized \/ Lock \/ Mount \/ Back
  \/ \E category \in {"all", "favorites", "tag"} : DrawerFilter(category)
  \/ \E e \in ShownEntries \cup {NoEntry} : SelectedEntryChanges(e)

LayerSpec == LayerInit /\ [][LayerNext]_layerVars

-----------------------------------------------------------------------------
(* Properties.                                                               *)

\* Whatever is open in the narrow layout, however it was opened, replaced or kept
\* over a change of the window, a lock or a return to the page, the back gesture
\* finds an entry of the layout to pop and does not leave the page under it.
BackStaysInside == page = "layout" /\ layers.mobile /\ SomethingOpen(layers) => depth > 0

-----------------------------------------------------------------------------
(* What every step keeps, for the proofs.                                    *)

Layers == [mobile : BOOLEAN, selected : ShownEntries \cup {NoEntry}, drawer : BOOLEAN,
           generator : BOOLEAN, settings : BOOLEAN]

LayerInv == layers \in Layers /\ depth \in Nat /\ BackStaysInside

=============================================================================
