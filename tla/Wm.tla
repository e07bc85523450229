--------------------------------- MODULE Wm ---------------------------------
(***************************************************************************)
(* The window table of kernel64.c under g_wm_lock: creation in two locked  *)
(* sections with the surface mapped in between, focus and stacking, the    *)
(* pointer's press and release, the keyboard, the event queues, the        *)
(* widgets the kernel draws, paired buffers, and the compositor, which     *)
(* copies the table under the lock and draws after it let go.              *)
(*                                                                         *)
(* Where a window lies on the screen is Desk's subject; here the pointer   *)
(* is over any set of visible windows, and in any region of the topmost.   *)
(***************************************************************************)
EXTENDS Naturals, FiniteSets, Sequences, SequencesExt

CONSTANTS Win,       \* NWMWIN ids
          Widget,    \* NWIDGET entries
          Proc,      \* processes with PCAP_WIMP
          Depth,     \* events a window's queue holds (8)
          MaxCalls,  \* bound: system calls and pointer or key events
          Apart      \* do applications run beside the compositor, on other
                     \* cores? The launcher pins what it starts to core 0

\* What the constants have to satisfy.
WmAssumption == /\ Win \subseteq Nat \ {0} /\ Widget \subseteq Nat \ {0}
                /\ Depth \in Nat \ {0} /\ Apart \in BOOLEAN

VARIABLES win,      \* g_wmwin
          order,    \* used windows by ascending z
          focus,    \* g_wm_focus, 0 for -1
          hold,     \* g_wm_capture, g_wm_drag, g_wm_control
          click,    \* g_wm_click_win
          wg,       \* g_wg
          app,      \* what each process is in the middle of
          snap,     \* windows the compositor copied and has yet to draw
          copying,  \* the one it draws
          left      \* calls left

vars == <<win, order, focus, hold, click, wg, app, snap, copying, left>>

NoWin == [used |-> FALSE, owner |-> "none", min |-> FALSE, max |-> FALSE,
          shown |-> FALSE, paired |-> FALSE, front |-> 0, queue |-> <<>>,
          widget |-> 0, focused |-> FALSE]
NoWidget == [win |-> 0, kind |-> "none", enabled |-> TRUE]
NoHold == [win |-> 0, drag |-> FALSE, control |-> "none"]
Idle == [at |-> "user", win |-> 0, paired |-> FALSE, draws |-> 0]

Init ==
  /\ win = [w \in Win |-> NoWin] /\ order = <<>>
  /\ focus = 0 /\ hold = NoHold /\ click = 0
  /\ wg = [g \in Widget |-> NoWidget]
  /\ app = [p \in Proc |-> Idle]
  /\ snap = {} /\ copying = <<>>
  /\ left = MaxCalls

-----------------------------------------------------------------------------
Visible(ws) == {w \in Win : ws[w].used /\ ~ws[w].min}
Topmost(ord, S) == IF S = {} THEN 0
                   ELSE LET seen == SelectSeq(ord, LAMBDA w : w \in S) IN Last(seen)
Raised(ord, w) == Append(SelectSeq(ord, LAMBDA v : v # w), w)

\* wm_focus: anything that cannot hold the focus leaves it with nobody.
Held(ws, w) == IF w # 0 /\ w \in Visible(ws) THEN w ELSE 0
Marked(ws, f) == [w \in Win |-> [ws[w] EXCEPT !.focused = (w = f)]]

\* wm_queue_event drops what a full queue cannot take.
Queued(ws, w, e) == IF Len(ws[w].queue) >= Depth THEN ws
                    ELSE [ws EXCEPT ![w].queue = Append(@, e)]
Event(ws, w, kind, g) == [kind |-> kind, wg |-> g, owner |-> ws[w].owner]

\* Is the core that a step of p needs free? Unless Apart, applications share
\* the compositor's core, and a frame or a call is not interrupted there.
Free(p) == Apart \/ (/\ snap = {} /\ copying = <<>>
                     /\ \A o \in Proc \ {p} : app[o].at = "user")
Compositor == Apart \/ \A o \in Proc : app[o].at = "user"

Pay == left > 0 /\ left' = left - 1
Screen == <<snap, copying>>
Pointer == <<hold, click>>

\* wm_destroy: widgets, pointer state and queue go with the window, and the
\* focus moves to the topmost that is left.
\* Mutant: the window's widgets stay in their table.
KeepWidgets(S) == wg
Orphaned(S) == [g \in Widget |-> IF wg[g].win \in S THEN NoWidget ELSE wg[g]]

Released(S) == IF hold.win \in S THEN NoHold ELSE hold

Destroy(S) ==
  LET ws  == [w \in Win |-> IF w \in S THEN NoWin ELSE win[w]]
      ord == SelectSeq(order, LAMBDA w : w \notin S)
      f   == IF focus \in S \cup {0} THEN Topmost(ord, Visible(ws)) ELSE focus
  IN  /\ win' = Marked(ws, f) /\ order' = ord /\ focus' = f
      /\ wg' = Orphaned(S)
      /\ hold' = Released(S)
      /\ click' = IF click \in S THEN 0 ELSE click

-----------------------------------------------------------------------------
(* SYS_WIN_CREATE, its two locked sections and the mapping between them. The *)
(* record is cleared to zero, so it remembers the first widget, whose-ever.   *)
Claim(p) ==
  /\ app[p] = Idle /\ Free(p) /\ Pay
  /\ \E paired \in BOOLEAN :
       LET free == {w \in Win : ~win[w].used} IN
       /\ free # {}
       /\ LET w == CHOOSE v \in free : \A u \in free : v <= u IN
            /\ win' = [win EXCEPT ![w] = [NoWin EXCEPT
                        !.used = TRUE, !.owner = p, !.widget = 1]]
            /\ order' = Append(order, w)
            /\ app' = [app EXCEPT ![p] = [Idle EXCEPT !.at = "map", !.win = w,
                                                      !.paired = paired]]
  /\ UNCHANGED <<focus, hold, click, wg, snap, copying>>

Publish(p) ==
  LET w  == app[p].win
      ws == [win EXCEPT ![w].shown = TRUE, ![w].paired = app[p].paired,
                        ![w].front = 0]
  IN
  /\ app[p].at = "map"
  /\ focus' = Held(ws, w) /\ win' = Marked(ws, Held(ws, w))
  /\ app' = [app EXCEPT ![p] = Idle]
  /\ UNCHANGED <<order, hold, click, wg, snap, copying, left>>

\* SYS_WIN_DAMAGE: a paired window shows the buffer just drawn, and the
\* application gets the other one back.
Damage(p) ==
  \E w \in Win :
  /\ app[p].at = "user" /\ Free(p) /\ Pay
  /\ win[w].used /\ win[w].owner = p
  /\ win' = IF win[w].paired THEN [win EXCEPT ![w].front = 1 - @] ELSE win
  /\ app' = [app EXCEPT ![p].draws = 0]
  /\ UNCHANGED <<order, focus, hold, click, wg, snap, copying>>

\* The application draws into the buffer that is not shown.
Draw(p) ==
  \E w \in Win :
  /\ app[p] = Idle /\ Free(p)
  /\ win[w].used /\ win[w].owner = p /\ win[w].paired
  /\ app' = [app EXCEPT ![p].draws = w]
  /\ UNCHANGED <<win, order, focus, hold, click, wg, snap, copying, left>>

Poll(p) ==
  \E w \in Win :
  /\ app[p].at = "user" /\ Free(p)
  /\ win[w].used /\ win[w].owner = p /\ win[w].queue # <<>>
  /\ win' = [win EXCEPT ![w].queue = Tail(@)]
  /\ UNCHANGED <<order, focus, hold, click, wg, app, snap, copying, left>>

\* SYS_UI_CREATE and SYS_UI_SET (enable or disable).
UiCreate(p) ==
  \E w \in Win, kind \in {"label", "button"} :
  /\ app[p].at = "user" /\ Free(p) /\ Pay
  /\ win[w].used /\ win[w].owner = p
  /\ LET free == {g \in Widget : wg[g].win = 0} IN
       /\ free # {}
       /\ wg' = [wg EXCEPT ![CHOOSE g \in free : \A h \in free : g <= h] =
                   [win |-> w, kind |-> kind, enabled |-> TRUE]]
  /\ UNCHANGED <<win, order, focus, hold, click, app, snap, copying>>

UiSet(p) ==
  \E g \in Widget :
  /\ app[p].at = "user" /\ Free(p) /\ Pay
  /\ wg[g].win # 0 /\ win[wg[g].win].used /\ win[wg[g].win].owner = p
  /\ wg' = [wg EXCEPT ![g].enabled = ~@]
  /\ UNCHANGED <<win, order, focus, hold, click, app, snap, copying>>

\* wimp_teardown_kproc, from every exit path; the slot is taken over by the
\* next process.
Exit(p) ==
  /\ Free(p) /\ app[p].at = "user" /\ Pay
  /\ Destroy({w \in Win : win[w].used /\ win[w].owner = p})
  /\ app' = [app EXCEPT ![p] = Idle]
  /\ UNCHANGED <<snap, copying>>

-----------------------------------------------------------------------------
(* wimp_pointer. A control acts on release, over the same window.            *)
Regions == {"close", "max", "min", "edge", "title", "content"}
Control(r) == r \in {"close", "max", "min"}

Interactive(w) == {g \in Widget : /\ wg[g].win = w /\ wg[g].enabled
                                  /\ wg[g].kind = "button"}

\* A click inside the content: a widget takes it, or it goes to the
\* application and no widget is focused.
Inside(ws, w) ==
  {Queued([ws EXCEPT ![w].widget = g], w, Event(ws, w, "widget", g)) : g \in Interactive(w)}
  \cup {Queued([ws EXCEPT ![w].widget = 0], w, Event(ws, w, "click", 0))}

Press ==
  \E over \in SUBSET Visible(win), r \in Regions :
  LET w == Topmost(order, over)  ws == Marked(win, w) IN
  /\ Compositor /\ snap = {} /\ copying = <<>> /\ Pay
  /\ hold.win = 0 /\ over # {}
  /\ order' = Raised(order, w) /\ focus' = w
  /\ \/ /\ Control(r) /\ hold' = [NoHold EXCEPT !.win = w, !.control = r]
        /\ click' = 0 /\ win' = ws
     \/ /\ r = "edge" /\ hold' = [NoHold EXCEPT !.win = w]
        /\ click' = 0 /\ win' = ws
     \/ /\ r = "title" /\ click # w
        /\ hold' = [NoHold EXCEPT !.win = w, !.drag = TRUE]
        /\ win' = ws /\ UNCHANGED click
     \/ /\ r = "title" /\ click = w            \* double click
        /\ hold' = [NoHold EXCEPT !.win = w]
        /\ win' = [ws EXCEPT ![w].max = ~@] /\ click' = 0
     \/ /\ r = "content" /\ win' \in Inside(ws, w)
        /\ click' = 0 /\ UNCHANGED hold
  /\ UNCHANGED <<wg, app, snap, copying>>

\* Beside every window: the taskbar chip of one restores it.
PressChip ==
  /\ Compositor /\ snap = {} /\ copying = <<>> /\ Pay
  /\ hold.win = 0 /\ click' = 0
  /\ \/ \E w \in Win :
          /\ win[w].used
          /\ win' = Marked([win EXCEPT ![w].min = FALSE], w)
          /\ order' = Raised(order, w) /\ focus' = w
     \/ UNCHANGED <<win, order, focus>>
  /\ UNCHANGED <<hold, wg, app, snap, copying>>

Release ==
  \E over \in SUBSET Visible(win), moved \in BOOLEAN, same \in BOOLEAN :
  LET w == hold.win  hit == Topmost(order, over) IN
  /\ Compositor /\ snap = {} /\ copying = <<>> /\ w # 0
  /\ \/ /\ hold.control = "close" /\ hit = w /\ same
        /\ Destroy({w})
     \/ /\ hold.control = "max" /\ hit = w /\ same
        /\ win' = [win EXCEPT ![w].max = ~@]
        /\ hold' = NoHold /\ click' = 0 /\ UNCHANGED <<order, focus, wg>>
     \/ /\ hold.control = "min" /\ hit = w /\ same
        /\ LET ws == [win EXCEPT ![w].min = TRUE] f == Topmost(order, Visible(ws)) IN
             win' = Marked(ws, f) /\ focus' = f
        /\ hold' = NoHold /\ click' = 0 /\ UNCHANGED <<order, wg>>
     \/ /\ hold.drag
        /\ click' = IF moved THEN 0 ELSE w
        /\ hold' = NoHold /\ UNCHANGED <<win, order, focus, wg>>
     \/ /\ ~hold.drag /\ (hold.control = "none" \/ hit # w \/ ~same)
        /\ hold' = NoHold /\ UNCHANGED <<win, order, focus, wg, click>>
  /\ UNCHANGED <<app, snap, copying, left>>

\* wimp_key: Tab walks the enabled widgets, Space presses the focused one,
\* and what no widget takes is queued for the focused window.
Focused(w) == LET g == win[w].widget IN
              IF g # 0 /\ wg[g].win = w THEN g ELSE 0

Key ==
  \E key \in {"tab", "space"} :
  /\ Compositor /\ snap = {} /\ copying = <<>> /\ Pay
  /\ focus # 0 /\ win[focus].used
  /\ \/ /\ key = "tab" /\ Interactive(focus) # {}
        /\ \E g \in Interactive(focus) : win' = [win EXCEPT ![focus].widget = g]
     \/ /\ key = "space" /\ Focused(focus) # 0 /\ wg[Focused(focus)].enabled
        /\ wg[Focused(focus)].kind = "button"
        /\ win' = Queued(win, focus, Event(win, focus, "widget", Focused(focus)))
     \/ /\ key = "tab" => Interactive(focus) = {}
        /\ key = "space" => Focused(focus) = 0
        /\ win' = Queued(win, focus, Event(win, focus, "key", 0))
  /\ UNCHANGED <<order, focus, hold, click, wg, app, snap, copying>>

-----------------------------------------------------------------------------
(* wimp_compose: the visible windows with a surface are copied under the     *)
(* lock, and drawn from the copies, bottom first.                            *)
Source(w) == IF win[w].paired THEN win[w].front ELSE 0
\* Widgets are painted from the live table, not from the copy.
Painted(w) == {g \in Widget : wg[g].win = w}

Snapshot ==
  /\ Compositor /\ snap = {} /\ copying = <<>> /\ Pay
  /\ snap' = {<<w, win[w].owner, Source(w)>> :
                w \in {v \in Visible(win) : win[v].shown}}
  /\ snap' # {}
  /\ UNCHANGED <<win, order, focus, hold, click, wg, app, copying>>

DrawWindow ==
  /\ snap # {} /\ \E s \in snap : copying' = Append(s, Painted(s[1])) /\ snap' = snap \ {s}
  /\ UNCHANGED <<win, order, focus, hold, click, wg, app, left>>

Flip ==
  /\ snap = {} /\ copying # <<>> /\ copying' = <<>>
  /\ UNCHANGED <<win, order, focus, hold, click, wg, app, snap, left>>

-----------------------------------------------------------------------------
Next ==
  \/ \E p \in Proc : \/ Claim(p) \/ Publish(p) \/ Damage(p) \/ Draw(p) \/ Poll(p)
                     \/ UiCreate(p) \/ UiSet(p) \/ Exit(p)
  \/ Press \/ PressChip \/ Release \/ Key \/ Snapshot \/ DrawWindow \/ Flip
Spec == Init /\ [][Next]_vars

-----------------------------------------------------------------------------
(* The keyboard focus, the pointer's grab and the remembered click name      *)
(* windows that exist, the focus one that can be seen, and exactly the       *)
(* focused window is drawn as such.                                          *)
FocusSound ==
  /\ focus # 0 => focus \in Visible(win)
  /\ \A w \in Win : win[w].focused <=> w = focus
  /\ hold.win # 0 => win[hold.win].used
  /\ click # 0 => win[click].used
  /\ ToSet(order) = {w \in Win : win[w].used}

(* A widget never outlives its window, and whoever polls a window gets what  *)
(* was meant for it: no event, and no widget, of an earlier owner of the id. *)
InputSound ==
  /\ \A g \in Widget : wg[g].win # 0 => win[wg[g].win].used
  /\ \A w \in Win : \A i \in 1..Len(win[w].queue) :
       LET e == win[w].queue[i] IN
       e.owner = win[w].owner /\ (e.wg # 0 => wg[e.wg].win = w)


(* The compositor never draws from a buffer the application is drawing into, *)
(* and paints a window with the widgets of the process it copied: no         *)
(* half-drawn frame reaches the screen while owners are pinned to its core.  *)
HalfFrameHidden ==
  copying # <<>> =>
    LET w == copying[1]  p == copying[2] IN
    /\ ~(/\ app[p].draws = w /\ win[w].used /\ win[w].owner = p
          /\ copying[3] = 1 - win[w].front)
    /\ \A g \in copying[4] : win[wg[g].win].owner = p

DesktopSound == FocusSound /\ InputSound /\ (~Apart => HalfFrameHidden)
=============================================================================
