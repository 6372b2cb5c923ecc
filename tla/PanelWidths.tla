----------------------------- MODULE PanelWidths -----------------------------
(* The two panels beside the detail pane and the handles that resize them:   *)
(* usePanelResize. A drag changes the widths before they are settings, a     *)
(* settings change during a drag is not applied, and the window may be       *)
(* resized or left in the middle of one. Widths are whole pixels.            *)
EXTENDS Integers

CONSTANTS Viewports,   \* window widths
          Positions,   \* pointer positions
          StoredWidths, \* widths the settings may hold
          MaxDrags     \* drags

VARIABLES viewport,    \* window.innerWidth
          widths,      \* widths.current, applied to the page
          settings,    \* settings.sidebarWidth, passwordListWidth
          drag,        \* drag.current: the target, where it began, the width then
          selectable,  \* document.body.style.userSelect is the page's own
          drags        \* drags so far

panelVars == <<viewport, widths, settings, drag, selectable, drags>>

NoDrag == [target |-> "none", x |-> 0, width |-> 0]
Least(a, b) == IF a < b THEN a ELSE b
Most(a, b) == IF a > b THEN a ELSE b

\* mutant of PanelWidths: the list is fitted before the sidebar has been
ListFirst(sidebar, list, window) ==
  LET width == Most(768, window)
      sidebarMax == Least(350, width - 260 - 220)
  IN [sidebar |-> Least(sidebarMax, Most(180, sidebar)),
      list |-> Least(Least(450, width - Most(180, sidebar) - 260), Most(220, list))]

PanelWidths(sidebar, list, window) ==
  LET width == Most(768, window)
      sidebarMax == Least(350, width - 260 - 220)
      safe == Least(sidebarMax, Most(180, sidebar))
  IN [sidebar |-> safe,
      list |-> Least(Least(450, width - safe - 260), Most(220, list))]

Applied(w, window) == PanelWidths(w.sidebar, w.list, window)

\* handleSidebarResizeStart, handleListResizeStart
Start(target, x) ==
  /\ drag = NoDrag /\ drags < MaxDrags /\ drags' = drags + 1 /\ selectable' = FALSE
  /\ drag' = [target |-> target, x |-> x,
              width |-> IF target = "sidebar" THEN widths.sidebar ELSE widths.list]
  /\ UNCHANGED <<viewport, widths, settings>>

Move(x) ==
  /\ drag # NoDrag
  /\ LET value == drag.width + x - drag.x
     IN widths' = Applied(IF drag.target = "sidebar" THEN [widths EXCEPT !.sidebar = value]
                          ELSE [widths EXCEPT !.list = value], viewport)
  /\ UNCHANGED <<viewport, settings, drag, selectable, drags>>

\* the effect of changed settings: nothing during a drag
Follows(w) == IF w = settings THEN widths ELSE Applied(w, viewport)

\* the button is released or the window loses the focus
Finish ==
  /\ drag # NoDrag /\ drag' = NoDrag /\ selectable' = TRUE
  /\ settings' = widths /\ widths' = Follows(widths) /\ UNCHANGED <<viewport, drags>>

\* the window changes its size: a drag ends first
Resize(window) ==
  /\ window # viewport /\ viewport' = window /\ drag' = NoDrag /\ selectable' = TRUE
  /\ settings' = IF drag = NoDrag THEN settings ELSE widths
  /\ widths' = Applied(widths, window) /\ UNCHANGED drags

\* the settings are changed elsewhere
UpdateWidths(w) ==
  /\ settings' = w
  /\ widths' = IF drag = NoDrag THEN Follows(w) ELSE widths
  /\ UNCHANGED <<viewport, drag, selectable, drags>>

\* the vault is locked or left: the layout goes away in the middle of a drag
LeaveLayout ==
  /\ drag' = NoDrag /\ selectable' = TRUE /\ widths' = Applied(settings, viewport)
  /\ UNCHANGED <<viewport, settings, drags>>

PanelsInit ==
  /\ viewport \in Viewports /\ settings \in [sidebar : StoredWidths, list : StoredWidths]
  /\ widths = Applied(settings, viewport) /\ drag = NoDrag /\ selectable = TRUE /\ drags = 0

PanelsNext ==
  \/ \E x \in Positions : Move(x) \/ \E t \in {"sidebar", "list"} : Start(t, x)
  \/ Finish \/ LeaveLayout \/ \E v \in Viewports : Resize(v)
  \/ \E w \in [sidebar : StoredWidths, list : StoredWidths] : UpdateWidths(w)

PanelsSpec == PanelsInit /\ [][PanelsNext]_panelVars

-----------------------------------------------------------------------------
\* Whatever is stored, dragged or resized, both panels keep a usable width and
\* leave the detail pane its own, and the page can be selected again as soon as
\* no drag is under way.
PanelsFit ==
  /\ widths.sidebar \in 180..350 /\ widths.list \in 220..450
  /\ widths.sidebar + widths.list + 260 <= Most(768, viewport)
  /\ selectable = (drag = NoDrag)

-----------------------------------------------------------------------------
(* What every step keeps, for the proofs. The widths are numbers, which the  *)
(* drag needs to start from.                                                 *)

WidthsAreNumbers ==
  /\ viewport \in Int /\ widths \in [sidebar : Int, list : Int]
  /\ settings \in [sidebar : Int, list : Int]
  /\ drag \in [target : {"none", "sidebar", "list"}, x : Int, width : Int]

Fits(w, window) ==
  /\ w \in [sidebar : Int, list : Int]
  /\ w.sidebar \in 180..350 /\ w.list \in 220..450
  /\ w.sidebar + w.list + 260 <= Most(768, window)

SelectionBack == selectable = (drag = NoDrag)

PanelsInv == WidthsAreNumbers /\ Fits(widths, viewport) /\ SelectionBack

=============================================================================
