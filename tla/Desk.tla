-------------------------------- MODULE Desk --------------------------------
(***************************************************************************)
(* Where a window lies: the pointer's drag and edge resize, maximise and   *)
(* restore, the change of the logical desktop's size, and the spatial      *)
(* desktop's springs. One window and one axis: the code treats y as it     *)
(* treats x, with the task bar off the far end. Distances are in units of  *)
(* the test instance, so MinW, Grab and Step stand for WIN_MIN_W, 40 pixels *)
(* and sp_spring's 16 pixels; a window is never wider than the desktop it  *)
(* was made on.                                                            *)
(***************************************************************************)
EXTENDS Integers, FiniteSets

CONSTANTS Widths,    \* logical desktop widths SYS_DESKTOP_SETTINGS can choose
          MinW,       \* WIN_MIN_W
          Grab,      \* what a shrunken desktop keeps of a window in reach
          Spatial,   \* g_sp_enabled
          Masses,    \* sp_mass, 1 to 16
          Zooms,     \* zoom in 1024ths
          Places,    \* where a spatial window may start
          Near,      \* a spring this near, and this slow, snaps (16)
          Stiff,     \* divides the pull, per unit of mass (8)
          Items,     \* DESK_NLAUNCH programs in the launcher's menu
          Rows,      \* DESK_MENU_VIS of them shown at once
          MaxMoves   \* bound: pointer presses and settings changes

\* What the constants have to satisfy.
DeskAssumption ==
  /\ MinW \in Nat \ {0} /\ Grab \in Nat /\ Near \in Nat /\ Stiff \in Nat \ {0}
  /\ Widths \subseteq Nat /\ \A d \in Widths : d >= MinW + Grab
  /\ Spatial \in BOOLEAN /\ Items \in Nat /\ Rows \in Nat \ {0}

VARIABLES w,       \* the window's place, width, saved place, spring
          desk,    \* desk_w()
          cur,     \* g_cur_x
          grab,    \* what the pointer holds
          shrunk,  \* ghost: the desktop changed while the pointer held it
          menu,    \* the launcher: closed, or the first entry it shows
         mass, zoom, left

vars == <<w, desk, cur, grab, shrunk, menu, mass, zoom, left>>
Closed == 0

Clamp(v, lo, hi) == LET h == IF hi < lo THEN lo ELSE hi IN
                    IF v < lo THEN lo ELSE IF v > h THEN h ELSE v
\* C's division: towards zero.
Div(a, b) == IF a >= 0 THEN a \div b ELSE -((-a) \div b)
Abs(a) == IF a < 0 THEN -a ELSE a
Biggest(a, b) == IF a < b THEN b ELSE a

\* sp_unproject, for distances
Unproject(d) == Div(d * 1024, zoom)

Loose == [part |-> "none", at |-> 0, x |-> 0, w |-> 0, moved |-> FALSE]

Init ==
  /\ desk \in Widths /\ mass \in Masses /\ zoom \in Zooms
  /\ \E x \in IF Spatial THEN Places ELSE 0..(desk - MinW), wd \in MinW..desk :
       /\ x + wd <= desk \/ Spatial
       /\ w = [x |-> x, w |-> wd, max |-> FALSE, rx |-> 0, rw |-> 0,
               tx |-> x, v |-> 0, pulled |-> FALSE]
  /\ cur \in {0, desk - 1} /\ grab = Loose /\ shrunk = FALSE /\ menu = Closed
  /\ left = MaxMoves

-----------------------------------------------------------------------------
\* wm_toggle_maximize
Toggled ==
  IF w.max THEN [w EXCEPT !.w = w.rw, !.x = Clamp(w.rx, 0, desk - w.rw), !.max = FALSE]
  ELSE [w EXCEPT !.rx = w.x, !.rw = w.w, !.x = 0, !.w = desk, !.max = TRUE]

\* Where the pointer is on a window: its edges can be pulled unless it is
\* maximised, the maximise control acts on release, a double click at once.
Over == cur >= w.x /\ cur < w.x + w.w
Handles == {"max", "title", "double"}
         \cup (IF ~w.max /\ cur = w.x THEN {"left"} ELSE {})
         \cup (IF ~w.max /\ cur = w.x + w.w - 1 THEN {"right"} ELSE {})

Press ==
  /\ grab = Loose /\ menu = Closed /\ left > 0 /\ left' = left - 1 /\ Over
  /\ \E part \in Handles :
       /\ grab' = [part |-> part, at |-> cur, x |-> w.x, w |-> w.w, moved |-> FALSE]
       /\ w' = IF part = "double" THEN Toggled ELSE w
  /\ UNCHANGED <<desk, cur, shrunk, menu, mass, zoom>>

\* wm_pointer_motion, with the pointer kept on the desktop by wimp_input_step.
FarEdge(r) == Clamp(r, grab.x + MinW, desk)
NearEdge(l) == Clamp(l, 0, grab.x + grab.w - MinW)


Moved(c) ==
  LET d == IF Spatial /\ ~w.max THEN Unproject(c - grab.at) ELSE c - grab.at
      l == NearEdge(grab.x + d)
      r == FarEdge(grab.x + grab.w + d)
  IN  CASE grab.part = "left"  -> [w EXCEPT !.x = l, !.w = grab.x + grab.w - l]
        [] grab.part = "right" -> [w EXCEPT !.x = grab.x, !.w = r - grab.x]
        [] grab.part = "title" /\ ~w.max /\ Spatial ->
             [w EXCEPT !.tx = grab.x + d, !.pulled = TRUE]
        [] grab.part = "title" /\ ~w.max /\ ~Spatial ->
             [w EXCEPT !.x = Clamp(c - (grab.at - grab.x), 0, desk - w.w)]
        [] OTHER -> w

Motion ==
  \E c \in 0..(desk - 1) :
  /\ c # cur /\ cur' = c
  /\ w' = Moved(c) /\ grab' = [grab EXCEPT !.moved = grab.part # "none"]
  /\ UNCHANGED <<desk, shrunk, menu, mass, zoom, left>>

Release ==
  /\ grab # Loose /\ grab' = Loose
  /\ w' = IF grab.part = "max" /\ Over THEN Toggled ELSE w
  /\ UNCHANGED <<desk, cur, shrunk, menu, mass, zoom, left>>

\* SYS_DESKTOP_SETTINGS brings windows and pointer back onto the desktop.
Settings ==
  \E d \in Widths \ {desk} :
  /\ left > 0 /\ left' = left - 1
  /\ desk' = d
  /\ w' = [w EXCEPT !.x = IF @ > d - Grab THEN d - Grab ELSE IF @ < 0 THEN 0 ELSE @]
  /\ cur' = IF cur >= d THEN d - 1 ELSE cur
  /\ shrunk' = (shrunk \/ (grab # Loose))
  /\ UNCHANGED <<grab, menu, mass, zoom>>

-----------------------------------------------------------------------------
(* sp_spring, once per tick while a pulled window is not where it should be. *)
Speed(p, v, t) == Div((v + Div(t - p, Stiff * mass)) * 3, 4)
Sprung(u) ==
  LET v == Speed(u.x, u.v, u.tx)  x == u.x + v
      snap == Abs(u.tx - x) < Near /\ Abs(v) < Near
  IN  [u EXCEPT !.x = IF snap THEN u.tx ELSE x, !.v = IF snap THEN 0 ELSE v,
                !.pulled = ~(IF snap THEN TRUE ELSE x = u.tx)]

Tick ==
  /\ Spatial /\ w.pulled /\ ~w.max
  /\ w' = Sprung(w)
  /\ UNCHANGED <<desk, cur, grab, shrunk, menu, mass, zoom, left>>

(* The launcher takes the press before any window: its button, the arrows    *)
(* of an open menu, an entry (desk_launch starts it pinned to core 0), or    *)
(* anywhere else, which closes it.                                           *)
Shown == menu..(IF menu + Rows - 1 < Items THEN menu + Rows - 1 ELSE Items)

PressLauncher ==
  /\ grab = Loose /\ Items > 0 /\ left > 0 /\ left' = left - 1
  /\ \/ menu' = IF menu = Closed THEN 1 ELSE Closed
     \/ /\ menu # Closed
        /\ \/ menu > 1 /\ menu' = menu - 1
           \/ menu + Rows - 1 < Items /\ menu' = menu + 1
           \/ menu' = Closed
  /\ UNCHANGED <<w, desk, cur, grab, shrunk, mass, zoom>>

Next == PressLauncher \/ Press \/ Motion \/ Release \/ Settings \/ Tick
Spec == Init /\ [][Next]_vars

-----------------------------------------------------------------------------
(* A window keeps its smallest width and some of it stays on the desktop,    *)
(* where the pointer can get at it, whatever drags, resizes, restores and    *)
(* changes of the desktop follow each other. (A change while the pointer     *)
(* holds an edge is the exception: wm_pointer_motion goes on from the place  *)
(* the window had before.)                                                   *)
Reachable ==
  (~Spatial /\ ~shrunk) => /\ w.w >= MinW
                           /\ w.x >= 0 /\ w.x < desk

(* A spring comes to rest, and where it rests it is closer to its target     *)
(* than two units of pull, 2 * Stiff * mass (with mass 1: it is there). A    *)
(* heavy window does stay short of where it was dropped.                     *)
Resting == Sprung(w) = w
SpringRests ==
  (w.pulled /\ Resting /\ ~w.max) => Abs(w.tx - w.x) < Biggest(Near, 2 * Stiff * mass)

(* An open launcher shows entries, and the arrows lead to those it hides.    *)
MenuShown == menu # Closed => /\ Shown # {} /\ Shown \subseteq 1..Items
                              /\ Cardinality(Shown) = IF Items < Rows THEN Items ELSE Rows

DeskSound == MenuShown /\ Reachable /\ SpringRests
=============================================================================
