------------------------------- MODULE Canvas -------------------------------
(***************************************************************************)
(* The canvas: a camera over a world of windows, driven by mouse and       *)
(* keyboard, and the spring physics that lay the windows out.              *)
(*                                                                         *)
(* A pass is a sequence of frames; a frame reads the mouse, reads the      *)
(* keyboard and then moves camera and windows by the ticks that went by.   *)
(* Arithmetic is the code's 16.16 fixed point.  The world has one          *)
(* dimension: the code does the same for x and for y, except that windows  *)
(* are pushed apart along the axis where they overlap less, which is this  *)
(* one.  Drawing reads this state and changes none of it.                  *)
(***************************************************************************)
EXTENDS Integers, Sequences, FiniteSets, FiniteSetsExt, SequencesExt

CONSTANTS NWin,       \* windows, numbered from 0
          Width,      \* g_fb_width
          Start,      \* window -> its world position, in pixels
          Tile,       \* window -> where "tile windows" puts it, in pixels
          Size,       \* window -> its width, in pixels
          Surfaces,   \* window -> width of its application's surface, 0 without one
          Inputs,     \* what a frame may be given: [dx, dz, btn, key]
          Commands,   \* keys that stand for a command typed to the accelerator
          Ticks,      \* timer ticks a frame takes
          QueueMax,   \* events a surface's queue holds
          Quiet,      \* frames after which a canvas without input is at rest
          MaxInputs   \* bound: frames with input

VARIABLES cam,    \* [x, v, zoom, zt, anchor, fling, glide, tx]
          win,    \* window -> [x, v, t]
          ui,     \* [cur, drag, held, focus, hud, toApp]
          queue,  \* window -> events of its surface: screen column or a key
          pc,     \* "mouse", "keys", "step": where in the frame the pass is
          key,    \* the key typed in this frame
          pin,    \* history: [on, at]: the world point under the anchor of a zoom
          fitted, \* history: nothing but a zoom to fit happened since
          still,  \* frames without input since the last one with
          inputs  \* frames with input so far

vars == <<cam, win, ui, queue, pc, key, pin, fitted, still, inputs>>

Wins == 0 .. NWin - 1
One == 65536

-----------------------------------------------------------------------------
(* Fixed point.  TLC has 32 bits, so products and quotients are put together
   from parts; the results are those of the code's 64-bit operations. *)

FXI(n) == n * One

\* FXMUL: an arithmetic shift, so the result is rounded down.
FXMUL(a, b) ==
  LET low == a % One
      fraction == ((low \div 256) * b + ((low % 256) * b) \div 256) \div 256
  IN  (a \div One) * b + fraction

Digit(q, b) == <<q[1] * 16 + (q[2] * 16) \div b, (q[2] * 16) % b>>

Quotient(a, b) == Digit(Digit(Digit(Digit(<<a \div b, a % b>>, b), b), b), b)[1]

\* FXDIV: C's division, rounded towards zero.
FXDIV(a, b) == IF a < 0 THEN -Quotient(-a, b) ELSE Quotient(a, b)

Abs(v) == IF v < 0 THEN -v ELSE v

Clamp(v, lo, hi) == IF v < lo THEN lo ELSE IF v > hi THEN hi ELSE v

ClampZ(z) == Clamp(z, One \div 8, FXI(4))

ToScreen(c, wx) == FXMUL(wx - c.x, c.zoom) \div One + Width \div 2

ToWorld(c, sx) == c.x + FXDIV(FXI(sx - Width \div 2), c.zoom)

Scaled(c, v) == FXMUL(FXI(v), c.zoom) \div One

-----------------------------------------------------------------------------
NoInput == [dx |-> 0, dz |-> 0, btn |-> FALSE, key |-> "none"]

Init ==
  /\ cam = [x |-> 0, v |-> 0, zoom |-> One, zt |-> One, anchor |-> Width \div 2,
            fling |-> 0, glide |-> FALSE, tx |-> 0]
  /\ win = [i \in Wins |-> [x |-> FXI(Start[i]), v |-> 0, t |-> FXI(Start[i])]]
  /\ ui = [cur |-> Width \div 2, drag |-> "no", held |-> -1, focus |-> 0,
           hud |-> FALSE, toApp |-> FALSE]
  /\ queue = [i \in Wins |-> <<>>]
  /\ pc = "mouse"
  /\ key = "none"
  /\ pin = [on |-> FALSE, at |-> 0]
  /\ fitted = FALSE
  /\ still = 0
  /\ inputs = 0

-----------------------------------------------------------------------------
(* The mouse. *)

\* The order in which windows are asked: the focused one, then by number.
Order == [k \in Wins |-> IF k = 0 THEN ui.focus ELSE IF k <= ui.focus THEN k - 1 ELSE k]

\* The first window in that order for which P holds, or -1.
FirstIn(P(_)) ==
  LET hit == {k \in Wins : P(Order[k])} IN IF hit = {} THEN -1 ELSE Order[Min(hit)]

Pick(sx) ==
  LET wx == ToWorld(cam, sx)
      Under(i) == wx >= win[i].x /\ wx < win[i].x + FXI(Size[i])
  IN  FirstIn(Under)

\* surface_route: the client area of a surface, and the column of a screen
\* column in it.
Left(i) == ToScreen(cam, win[i].x) + 8
Client(i) == Scaled(cam, Size[i]) - 16

OverSurface(sx) ==
  LET Under(i) == Surfaces[i] > 0 /\ Client(i) > 0 /\ sx >= Left(i) /\ sx < Left(i) + Client(i)
  IN  FirstIn(Under)

Column(i, sx) == ((sx - Left(i)) * Surfaces[i]) \div Client(i)

Queued(i, e) == IF Len(queue[i]) < QueueMax THEN [queue EXCEPT ![i] = Append(@, e)] ELSE queue

\* canvas_zoom_to: the zoom eases towards a target and keeps the world point
\* under the anchor where it is.
ZoomTo(c, sx, factor) ==
  [c EXCEPT !.anchor = sx, !.zt = ClampZ(FXMUL(c.zt, factor)), !.glide = FALSE]

\* The history of the anchored point: set by a zoom of a camera at rest, given
\* up when the camera moves otherwise.
Pins(zoomed, dragged) ==
  IF cam'.v # 0 \/ cam'.glide \/ dragged THEN [pin EXCEPT !.on = FALSE]
  ELSE IF zoomed THEN [on |-> TRUE, at |-> ToWorld(cam', cam'.anchor)] ELSE pin

\* Wheel first, then buttons.
Wheeled(sx, dz) ==
  IF dz = 0 THEN cam
  ELSE ZoomTo(cam, sx, IF dz < 0 THEN One + One \div 5 ELSE (One * 5) \div 6)

\* A press on a window takes it in hand and gives it the focus; if a surface is
\* under the cursor it gets a click.  A press on the ground takes the canvas.
Press(sx, c) ==
  LET i == Pick(sx)
      s == OverSurface(sx)
      routed == i >= 0 /\ s >= 0
  IN
  /\ ui' = [ui EXCEPT !.cur = sx, !.held = i,
                      !.focus = IF i >= 0 THEN i ELSE @,
                      !.drag = IF routed THEN "surface" ELSE IF i >= 0 THEN "window" ELSE "canvas"]
  /\ queue' = IF routed THEN Queued(s, [at |-> Column(s, sx)]) ELSE queue
  /\ cam' = [c EXCEPT !.fling = 0]
  /\ UNCHANGED win

DragWindow(sx, c, dx) ==
  LET d == FXDIV(FXI(dx), c.zoom) IN
  /\ win' = [win EXCEPT ![ui.held] = [x |-> @.x + d, v |-> 0, t |-> @.t + d]]
  /\ cam' = c
  /\ ui' = [ui EXCEPT !.cur = sx]
  /\ UNCHANGED queue

\* C's division by four, towards zero.
Quarter(v) == IF v < 0 THEN -((-v) \div 4) ELSE v \div 4

DragCanvas(sx, c, dx) ==
  LET d == FXDIV(FXI(dx), c.zoom) IN
  /\ cam' = [c EXCEPT !.x = @ - d, !.v = 0, !.glide = FALSE, !.fling = Quarter(@ - 3 * d)]
  /\ ui' = [ui EXCEPT !.cur = sx]
  /\ UNCHANGED <<win, queue>>

Held(sx, c) ==
  /\ cam' = c
  /\ ui' = [ui EXCEPT !.cur = sx]
  /\ UNCHANGED <<win, queue>>

Release(sx, c) ==
  /\ cam' = [c EXCEPT !.v = IF ui.drag = "canvas" THEN c.fling ELSE @, !.fling = 0]
  /\ ui' = [ui EXCEPT !.cur = sx, !.drag = "no", !.held = -1]
  /\ UNCHANGED <<win, queue>>

Mouse(in) ==
  LET sx == Clamp(ui.cur + in.dx, 0, Width - 1)
      c == Wheeled(sx, in.dz)
  IN
  /\ pc = "mouse" /\ (inputs < MaxInputs \/ in = NoInput)
  /\ pc' = "keys" /\ key' = in.key
  /\ inputs' = IF in = NoInput THEN inputs ELSE inputs + 1
  /\ still' = IF in = NoInput THEN Min({still + 1, Quiet}) ELSE 0
  /\ \/ in.btn /\ ui.drag = "no" /\ Press(sx, c)
     \/ in.btn /\ ui.drag = "window" /\ DragWindow(sx, c, in.dx)
     \/ in.btn /\ ui.drag = "canvas" /\ DragCanvas(sx, c, in.dx)
     \/ in.btn /\ ui.drag = "surface" /\ Held(sx, c)
     \/ ~in.btn /\ Release(sx, c)
  /\ pin' = Pins(in.dz # 0, cam'.x # cam.x)
  /\ fitted' = (fitted /\ in = NoInput)

-----------------------------------------------------------------------------
(* The keyboard: to an application while it has been given the keys, else to the
   accelerator while that is open, else to the canvas. *)

Rest == UNCHANGED <<win, queue>>

FocusOn(i) ==
  /\ ui' = [ui EXCEPT !.focus = i]
  /\ cam' = [cam EXCEPT !.glide = TRUE, !.tx = win[i].x + FXI(Size[i] \div 2)]

\* canvas_zoom_fit, for windows that stand as w says.
Fit(c) ==
  LET lo == Min({win[i].x : i \in Wins})
      hi == Max({win[i].x + FXI(Size[i]) : i \in Wins})
  IN  [c EXCEPT !.glide = TRUE, !.tx = (lo + hi) \div 2,
                !.zt = ClampZ(FXDIV(FXI(Width - 90), hi - lo))]

ToApp(k) ==
  /\ ui.toApp
  /\ IF k = "esc" \/ Surfaces[ui.focus] = 0
     THEN ui' = [ui EXCEPT !.toApp = FALSE] /\ queue' = queue
     ELSE ui' = ui /\ queue' = Queued(ui.focus, [key |-> k])
  /\ UNCHANGED <<cam, win>>

\* ccmd_exec, and the accelerator closes.
Run(id) ==
  LET shut == [ui EXCEPT !.hud = FALSE]
      mid == Width \div 2
  IN
  /\ CASE id = "fit" -> cam' = Fit(cam) /\ win' = win /\ ui' = shut
       [] id = "in" -> cam' = ZoomTo(cam, mid, One + One \div 2) /\ win' = win /\ ui' = shut
       [] id = "out" -> cam' = ZoomTo(cam, mid, (One * 2) \div 3) /\ win' = win /\ ui' = shut
       [] id = "center" -> /\ cam' = [cam EXCEPT !.tx = 0, !.zt = One, !.glide = TRUE]
                           /\ win' = win /\ ui' = shut
       [] id = "tile" -> /\ win' = [i \in Wins |-> [win[i] EXCEPT !.t = FXI(Tile[i])]]
                         /\ cam' = Fit(cam) /\ ui' = shut
       [] id = "focus" -> /\ cam' = [cam EXCEPT !.glide = TRUE, !.tx = win[0].x + FXI(Size[0] \div 2)]
                          /\ win' = win /\ ui' = [shut EXCEPT !.focus = 0]
       [] OTHER -> cam' = cam /\ win' = win /\ ui' = shut
  /\ UNCHANGED queue

ToHud(k) ==
  /\ ~ui.toApp /\ ui.hud
  /\ \/ k = "esc" /\ ui' = [ui EXCEPT !.hud = FALSE] /\ UNCHANGED <<cam, win, queue>>
     \/ k \in Commands /\ Run(k)
     \/ k \notin Commands \cup {"esc"} /\ UNCHANGED <<cam, win, ui, queue>>

Impulse(d) == [cam EXCEPT !.v = @ + d * FXDIV(FXI(11), cam.zoom), !.glide = FALSE]

ToCanvas(k) ==
  /\ ~ui.toApp /\ ~ui.hud
  /\ UNCHANGED <<win, queue>>
  /\ CASE k = "a" -> cam' = Impulse(-1) /\ ui' = ui
       [] k = "d" -> cam' = Impulse(1) /\ ui' = ui
       [] k = "e" -> cam' = ZoomTo(cam, ui.cur, One + One \div 4) /\ ui' = ui
       [] k = "q" -> cam' = ZoomTo(cam, ui.cur, (One * 4) \div 5) /\ ui' = ui
       [] k = "tab" -> FocusOn((ui.focus + 1) % NWin)
       [] k = "f" -> cam' = Fit(cam) /\ ui' = ui
       [] k = "slash" -> cam' = cam /\ ui' = [ui EXCEPT !.hud = TRUE]
       [] k = "enter" -> cam' = cam /\ ui' = [ui EXCEPT !.toApp = Surfaces[ui.focus] > 0]
       [] OTHER -> UNCHANGED <<cam, ui>>

Keyboard ==
  /\ pc = "keys" /\ pc' = "step" /\ key' = "none"
  /\ IF key = "none" THEN UNCHANGED <<cam, win, ui, queue>>
     ELSE ToApp(key) \/ ToHud(key) \/ ToCanvas(key)
  /\ pin' = Pins(cam'.zt # cam.zt /\ ~cam'.glide, FALSE)
  /\ fitted' = IF key = "none" THEN fitted ELSE cam' = Fit(cam) /\ win' = win
  /\ UNCHANGED <<still, inputs>>

-----------------------------------------------------------------------------
(* The step: camera_step_dt and physics_step_dt, tick by tick. *)

Glided(c) ==
  LET dx == c.tx - c.x
      dz == c.zt - c.zoom
  IN  IF Abs(dx) < One /\ Abs(dz) < One \div 256
      THEN [c EXCEPT !.x = c.tx, !.zoom = c.zt, !.v = 0, !.glide = FALSE]
      ELSE [c EXCEPT !.x = @ + FXMUL(dx, 7656), !.v = 0,
                     !.zoom = ClampZ(@ + FXMUL(dz, 8780))]

Coasted(c) ==
  LET v == FXMUL(c.v, 61478)
  IN  [c EXCEPT !.x = @ + FXMUL(c.v, One \div 2), !.v = IF Abs(v) < One \div 32 THEN 0 ELSE v]

Eased(z, zt) ==
  ClampZ(IF Abs(zt - z) < One \div 256 THEN zt ELSE z + FXMUL(zt - z, 8780))

\* Mutant: the camera stays where it is while the zoom changes.
Unanchored(c, z) == [c EXCEPT !.zoom = z]

\* The camera moves so that the world point under the anchor stays under it.
Anchored(c, z) ==
  [c EXCEPT !.zoom = z,
            !.x = ToWorld(c, c.anchor) - FXDIV(FXI(c.anchor - Width \div 2), z)]

CameraTick(c) ==
  IF c.glide THEN Glided(c)
  ELSE LET d == Coasted(c)
       IN  IF d.zoom = d.zt THEN d ELSE Anchored(d, Eased(d.zoom, d.zt))

Sprung(w) ==
  LET v == FXMUL(w.v + FXMUL(w.t - w.x, 5190), 59345)
  IN  [w EXCEPT !.v = v, !.x = @ + FXMUL(v, One \div 2)]

\* Two windows that overlap are pushed apart, half the overlap each.
PushedApart(ws, i, j) ==
  LET a == ws[i].x \div One
      b == ws[j].x \div One
      over == Min({a + Size[i], b + Size[j]}) - Max({a, b})
      p == IF over > 0 THEN FXI(over \div 2 + 1) ELSE 0
      d == IF a < b THEN p ELSE -p
  IN  [ws EXCEPT ![i].x = @ - d, ![j].x = @ + d]

Pairs == SetToSortSeq({q \in Wins \X Wins : q[1] < q[2]},
                      LAMBDA q, r : q[1] < r[1] \/ (q[1] = r[1] /\ q[2] < r[2]))

PhysicsTick(ws) ==
  FoldLeft(LAMBDA x, q : PushedApart(x, q[1], q[2]), [i \in Wins |-> Sprung(ws[i])], Pairs)

\* What x has become after the ticks of a step.
Repeated(F(_), x) ==
  LET f[k \in 0 .. Ticks] == IF k = 0 THEN {x} ELSE {F(y) : y \in f[k - 1]} IN f[Ticks]

CameraStep(c) == Repeated(CameraTick, c)
PhysicsStep(ws) == Repeated(PhysicsTick, ws)

Step ==
  /\ pc = "step" /\ pc' = "mouse"
  /\ cam' \in CameraStep(cam)
  /\ win' \in PhysicsStep(win)
  /\ pin' = Pins(FALSE, FALSE)
  /\ UNCHANGED <<ui, queue, key, fitted, still, inputs>>

\* SYS_SURFACE_POLL.
Poll(i) ==
  /\ pc = "mouse" /\ queue[i] # <<>>
  /\ queue' = [queue EXCEPT ![i] = Tail(@)]
  /\ UNCHANGED <<cam, win, ui, pc, key, pin, fitted, still, inputs>>

Next == (\E in \in Inputs \cup {NoInput} : Mouse(in)) \/ Keyboard \/ Step \/ \E i \in Wins : Poll(i)

Spec == Init /\ [][Next]_vars

-----------------------------------------------------------------------------
\* The wheel zooms at the cursor: while the zoom eases to its target, and
\* afterwards, the world point that was under the cursor is still under it, to the
\* pixel, unless the camera was moved.
ZoomAtCursor == pin.on => Abs(ToScreen(cam, pin.at) - cam.anchor) <= 1

\* A canvas nobody touches comes to rest: no velocity, no glide, and the zoom is
\* the one asked for.
ComesToRest == still = Quiet /\ ui.drag = "no" => cam.v = 0 /\ ~cam.glide /\ cam.zoom = cam.zt

\* An event a surface gets lies inside the surface.
InSurface == \A i \in Wins : \A k \in DOMAIN queue[i] :
               "at" \in DOMAIN queue[i][k] => queue[i][k].at \in 0 .. Surfaces[i] - 1

\* After a zoom to fit has come to rest every window is on the screen.
FitShows ==
  fitted /\ still = Quiet =>
    \A i \in Wins : /\ ToScreen(cam, win[i].x) >= 0
                    /\ ToScreen(cam, win[i].x + FXI(Size[i])) <= Width

CanvasSound == ZoomAtCursor /\ ComesToRest /\ InSurface /\ FitShows
=============================================================================
