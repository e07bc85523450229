------------------------------ MODULE MCDevices ------------------------------
(***************************************************************************)
(* The machine - processors, threads of the kernel, allocators, devices -  *)
(* and what the user sees of it.  The base is Occ with the programs below. *)
(* The other parts are independent of it and of each other: a behaviour    *)
(* runs one part, chosen at the start, so that one run covers them all and *)
(* the parts share the variables x1, x2, ...                               *)
(***************************************************************************)
EXTENDS Occ, TLC

TyInt == [u |-> FALSE, size |-> 8, n |-> 0]
TyU8 == [u |-> TRUE, size |-> 1, n |-> 0]
TyU64 == [u |-> TRUE, size |-> 8, n |-> 0]
TyChar == [u |-> FALSE, size |-> 1, n |-> 0]
Arr(t, n) == [t EXCEPT !.n = n]
V(x) == <<"var", x>>
N(n) == <<"num", n>>
B(op, a, b) == <<"bin", op, a, b>>
Set1(x, e) == <<"expr", <<"asg", x, e>>>>
IntVar(x) == <<"let", Ops(<<"int">>), x, 0, TyInt>>
Main(ss) == <<<<"main", <<>>, ss>>>>
Given(file, fs, legal, init) == [file |-> file, funs |-> fs, legal |-> legal, init |-> init]
P(file, fs, legal) == Given(file, fs, legal, <<>>)

\* Two operators over three operands of different types.
Operands == <<IntVar("a"), <<"let", Ops(<<"u8">>), "b", 0, TyU8>>, <<"let", Ops(<<"u64">>), "c", 0, TyU64>>,
              Set1(V("a"), <<"-", N(7)>>), Set1(V("b"), N(2)), Set1(V("c"), N(40003))>>
MCPairs == {<<o, p>> : o \in {"||", "&&", "|", "&", "==", "<", ">=", "<<", ">>", "+", "-", "*", "/", "%"},
                       p \in {"&&", "^", "!=", "<", ">>", "-", "*", "%"}}
Shapes(o, p) == {B(p, B(o, V("a"), V("b")), V("c")), B(o, V("c"), B(p, V("a"), V("b"))), B(p, B(o, V("b"), N(3)), V("a"))}
MCExprs == UNION {{P("none", Main(Operands \o <<<<"return", e>>>>), TRUE) : e \in Shapes(q[1], q[2])} : q \in MCPairs}

Inc(x) == <<"asg", V(x), B("+", V(x), N(1))>>
Add(x, e) == Set1(V(x), B("+", V(x), e))
Zero == <<IntVar("i"), IntVar("s"), Set1(V("i"), N(0)), Set1(V("s"), N(0))>>
\* Loops with a break or continue at every place, and a switch inside.
Exits == {<<"break">>, <<"continue">>}
Arms1(x, y) == <<<<"case", 1>>, Add("s", N(10)), x, <<"case", 2>>, Add("s", N(20)), <<"default">>, Add("s", N(1)), y>>
MCLoops ==
    {P("none", Main(Zero \o <<<<"for", <<"asg", V("i"), N(0)>>, B("<", V("i"), N(4)), Inc("i"),
                                 <<<<"if", B("==", V("i"), N(k)), <<x>>, <<>>>>, Add("s", V("i"))>>>>,
                              <<"return", V("s")>>>>), TRUE) : x \in Exits, k \in 0..3}
      \cup {P("none", Main(Zero \o <<<<"for", <<"asg", V("i"), N(0)>>, B("<", V("i"), N(4)), Inc("i"),
                                 <<<<"switch", V("i"), Arms1(x, y)>>, Add("s", N(100))>>>>,
                              <<"return", V("s")>>>>), TRUE) : x \in Exits, y \in Exits}
      \cup {P("none", Main(Zero \o <<<<"while", B("<", V("i"), N(5)),
                                 <<<<"expr", Inc("i")>>, <<"if", B("==", V("i"), N(2)), <<<<"continue">>>>, <<>>>>,
                                   <<"if", B("==", V("i"), N(4)), <<<<"break">>>>, <<Add("s", V("i"))>>>>>>>>,
                              <<"return", B("+", V("s"), V("i"))>>>>), TRUE)}

Calls == <<<<"f", <<"x", "y">>, <<Set1(V("g"), B("+", V("g"), V("x"))), <<"return", B("-", V("x"), V("y"))>>>>>>,
           <<"r", <<"n">>, <<<<"if", B("<", V("n"), N(1)), <<<<"return", N(1)>>>>, <<>>>>,
                             <<"return", B("*", V("n"), <<"call", "r", <<B("-", V("n"), N(1))>>>>)>>>>>>>>
MCMemory ==
    {P("globals", Calls \o Main(<<IntVar("a"), Set1(V("a"), <<"call", "f", <<N(9), <<"call", "f", <<N(4), N(1)>>>>>>>>),
                                  <<"return", B("+", V("a"), B("*", V("g"), <<"call", "r", <<N(3)>>>>))>>>>), TRUE),
     P("globals", Main(<<<<"let", Ops(<<"char">>), "t", 5, Arr(TyChar, 5)>>, <<"let", Ops(<<"int">>), "v", 2, Arr(TyInt, 2)>>, IntVar("i"),
                         <<"for", <<"asg", V("i"), N(0)>>, B("<", V("i"), N(5)), Inc("i"), <<Set1(<<"idx", "t", V("i")>>, V("i"))>>>>,
                         Set1(<<"idx", "v", N(0)>>, N(300)), Set1(<<"idx", "v", N(1)>>, <<"idx", "t", N(2)>>),
                         Set1(<<"idx", "w", <<"idx", "v", N(1)>>>>, <<"idx", "v", N(0)>>),
                         <<"return", B("+", B("+", <<"idx", "v", N(0)>>, B("*", N(7), <<"idx", "w", N(2)>>)), <<"sizeof", V("t")>>)>>>>), TRUE),
     P("structs", Main(<<<<"let", Ops(<<"struct">>) \o <<Id("S")>>, "s", 0, TyInt>>,
                         Set1(<<".", "s", "k">>, N(777)), Set1(<<".", "s", "c">>, N(3)), Set1(<<".", "s", "d">>, N(5)),
                         <<"return", B("+", <<".", "s", "k">>, B("*", N(10), B("-", <<".", "s", "c">>, <<".", "s", "d">>)))>>>>), TRUE),
     P("globals", Main(<<IntVar("a"), <<"let", Ops(<<"int", "*">>), "p", 0, TyInt>>, Set1(V("a"), N(5)), Set1(V("p"), <<"&", V("a")>>),
                         <<"return", B("+", <<"*", V("p")>>, N(1))>>>>), TRUE)}

MCText ==
    {Given(x[1], Main(<<<<"return", B("+", V("K"), V("L"))>>>>), TRUE, ("K" :> x[2]) @@ ("L" :> x[3])) :
        x \in {<<"cond1", 4, 0>>, <<"cond2", 1, 2>>, <<"guard", 0, 2>>}}
      \cup {P("open", Main(<<<<"return", N(0)>>>>), FALSE), P("deep", Main(<<<<"return", N(0)>>>>), FALSE)}
MCRefused == {P("none", <<<<"notmain", <<>>, <<<<"return", N(0)>>>>>>>>, FALSE),
              P("none", Main(<<<<"return", <<"call", "nobody", <<>>>>>>>>), FALSE),
              P("none", Main(<<<<"break">>>>), FALSE),
              P("none", Main(<<<<"switch", N(1), <<<<"case", 1>>, <<"continue">>>>>>>>), FALSE),
              P("none", Main(<<<<"return", N(1)>>>>) \o Main(<<<<"return", N(2)>>>>), FALSE)}
MCPrograms == MCExprs \cup MCLoops \cup MCMemory \cup MCText \cup MCRefused
MCStores == {P("none", Main(<<IntVar("a"), <<"let", Ops(<<"int", "*">>), "p", 0, TyInt>>, Set1(V("p"), <<"&", V("a")>>),
                              Set1(<<"*", V("p")>>, N(4)), <<"return", V("a")>>>>), TRUE)}

Def(x, n) == <<"define", x, <<Num(n)>>>>
Txt(ts) == <<"text", ts>>
MCFiles == ("none" :> <<>>)
    @@ ("globals" :> <<Txt(<<Op("int"), Id("g"), Op(";"), Op("int"), Id("w"), Op("["), Num(3), Op("]"), Op(";")>>)>>)
    @@ ("structs" :> <<Txt(<<Op("struct"), Id("S"), Op("{"), Op("char"), Id("c"), Op(";"), Op("int"), Id("k"), Op(";"),
                             Op("char"), Id("d"), Op(";"), Op("}"), Op(";")>>)>>)
    @@ ("cond1" :> <<<<"ifdef", "X">>, Def("K", 1), <<"else">>, <<"ifndef", "X">>, <<"define", "K", <<Id("J")>>>>,
                     <<"else">>, Def("K", 9), <<"endif">>, <<"endif">>, Def("J", 4), Txt(<<Op("int"), Id("L"), Op(";")>>),
                     <<"text", <<Op("int"), Id("K2"), Op("="), Id("K"), Op(";")>>>>,
                     Txt(<<Op("int"), Id("K1"), Op(";")>>), <<"undef", "K">>, Txt(<<Op("int"), Id("K"), Op("="), Id("J"), Op(";")>>)>>)
    @@ ("cond2" :> <<Def("X", 1), <<"ifdef", "X">>, Txt(<<Op("int"), Id("K"), Op("="), Id("X"), Op(";")>>), <<"else">>,
                     Txt(<<Op("int"), Id("K"), Op("="), Num(7), Op(";")>>), <<"endif">>, <<"include", "guard2">>, <<"include", "guard2">>>>)
    @@ ("guard" :> <<<<"include", "guard2">>, Txt(<<Op("int"), Id("K"), Op(";")>>), <<"include", "guard2">>>>)
    @@ ("guard2" :> <<<<"ifndef", "H">>, Def("H", 1), Txt(<<Op("int"), Id("L"), Op("="), Num(2), Op(";")>>), <<"endif">>>>)
    @@ ("open" :> <<<<"ifdef", "X">>, Txt(<<Op("int"), Id("K"), Op(";")>>)>>)
    @@ ("deep" :> <<<<"include", "deep">>>>)
MCGlobals == ("g" :> TyInt) @@ ("w" :> Arr(TyInt, 3)) @@ ("K" :> TyInt) @@ ("L" :> TyInt)
             @@ ("c" :> TyChar) @@ ("k" :> TyInt) @@ ("d" :> TyChar)

CONSTANTS Parts

VARIABLES part, x1, x2, x3, x4, x5, x6, x7, x8, x9, x10, x11, x12, x13, x14, x15, x16, x17
xvars == <<x1, x2, x3, x4, x5, x6, x7, x8, x9, x10, x11, x12, x13, x14, x15, x16, x17>>
benchVars == <<part, xvars, vars>>

\* A window that slides in from outside the view and one that is in it.
Places == [i \in 0 .. 1 |-> IF i = 0 THEN -116 ELSE 30]
Tiles == [i \in 0 .. 1 |-> IF i = 0 THEN 40 ELSE -80]
Widths == [i \in 0 .. 1 |-> IF i = 0 THEN 60 ELSE 90]
Surfs == [i \in 0 .. 1 |-> IF i = 0 THEN 16 ELSE 0]
Report(x, z, b, k) == [dx |-> x, dz |-> z, btn |-> b, key |-> k]
Reports ==
    {Report(dx, dz, btn, "none") : dx \in {0, -70}, dz \in {0, 1}, btn \in BOOLEAN}
    \cup {Report(0, -1, FALSE, "none")}
    \cup {Report(0, 0, FALSE, k) : k \in {"a", "f", "q", "tab", "slash", "fit", "tile", "enter"}}

\* Buses with free functions, a bridge, bound drivers and one that lacks an offer.
PciFn(b, br, drv, self, off) ==
    [bdf |-> b, bridge |-> br, bar |-> TRUE, driver |-> drv, self |-> self, offers |-> off]
Offered == {"common", "version1", "features"}
Buses == {<<PciFn(1, FALSE, "none", FALSE, {}), PciFn(2, FALSE, "rng", FALSE, Offered)>>,
          <<PciFn(3, TRUE, "none", FALSE, {}), PciFn(2, FALSE, "fixed", TRUE, {}), PciFn(1, FALSE, "none", FALSE, {})>>,
          <<PciFn(1, FALSE, "rng", FALSE, {"common"}), PciFn(2, FALSE, "none", FALSE, {}), PciFn(3, FALSE, "fixed", TRUE, {})>>}
Tables == {{"table", "checksum", "unit", "depth", "enabled"}, {"table", "checksum"}}

\* Two hosts: pages, pictures across hosts, a redirection within and one down to plain http.
HomeA == <<"a", "home">>
HomeB == <<"b", "home">>
Pages ==
    [u \in {"a", "b"} \X {"home", "old", "pic", "down"} |->
        CASE u = HomeA -> [kind |-> "page", images |-> <<<<"pic">>, <<"b", "pic">>>>, links |-> <<<<"old">>>>]
          [] u = HomeB -> [kind |-> "page", images |-> <<<<"a", "pic">>>>, links |-> <<<<"a", "home">>>>]
          [] u = <<"a", "old">> -> [kind |-> "moved", to |-> <<"home">>]
          [] u = <<"a", "down">> -> [kind |-> "moved", to |-> <<"b", "home">>]
          [] u[2] = "pic" -> [kind |-> "image"]
          [] OTHER -> [kind |-> "page", images |-> <<>>, links |-> <<>>]]
Addresses == {HomeA, HomeB, <<"a", "down">>}

Windows == INSTANCE Wm WITH
    Win <- {1, 2}, Widget <- {1, 2}, Proc <- {"a", "b"}, Depth <- 1, MaxCalls <- 4,
    Apart <- TRUE, win <- x1, order <- x2, focus <- x3, hold <- x4, click <- x5, wg <- x6,
    app <- x7, snap <- x8, copying <- x9, left <- x10
Pinned == INSTANCE Wm WITH
    Win <- {1, 2}, Widget <- {1}, Proc <- {"a", "b"}, Depth <- 1, MaxCalls <- 4,
    Apart <- FALSE, win <- x1, order <- x2, focus <- x3, hold <- x4, click <- x5, wg <- x6,
    app <- x7, snap <- x8, copying <- x9, left <- x10
Flat == INSTANCE Desk WITH
    Widths <- {4, 6}, MinW <- 2, Grab <- 2, Spatial <- FALSE, Masses <- {1}, Zooms <- {1024},
    Places <- {0}, Near <- 16, Stiff <- 8, Items <- 3, Rows <- 2, MaxMoves <- 3, w <- x1,
    desk <- x2, cur <- x3, grab <- x4, shrunk <- x5, menu <- x6, mass <- x7, zoom <- x8,
    left <- x9
Space == INSTANCE Desk WITH
    Widths <- {6}, MinW <- 4, Grab <- 2, Spatial <- TRUE, Masses <- {1, 2}, Zooms <- {128},
    Places <- {0}, Near <- 16, Stiff <- 8, Items <- 0, Rows <- 2, MaxMoves <- 1, w <- x1,
    desk <- x2, cur <- x3, grab <- x4, shrunk <- x5, menu <- x6, mass <- x7, zoom <- x8,
    left <- x9
Drawn == INSTANCE Surfaces WITH
    Slot <- {1, 2}, Proc <- {"p", "q"}, Sizes <- {1, 2}, FreeMax <- 2, QueueMax <- 1,
    Again <- FALSE, Several <- FALSE, Restart <- FALSE, MaxMade <- 3, MaxFlips <- 2,
    MaxPasses <- 2, MaxEvents <- 1, surf <- x1, queue <- x2, recycled <- x3, maps <- x4,
    target <- x5, flip <- x6, comp <- x7, alive <- x8, chunks <- x9, n <- x10
Looped == INSTANCE Canvas WITH
    NWin <- 2, Width <- 200, Start <- Places, Tile <- Tiles, Size <- Widths,
    Surfaces <- Surfs, Inputs <- Reports, Commands <- {"fit", "tile"}, Ticks <- 32,
    QueueMax <- 1, Quiet <- 12, MaxInputs <- 2, cam <- x1, win <- x2, ui <- x3, queue <- x4,
    pc <- x5, key <- x6, pin <- x7, fitted <- x8, still <- x9, inputs <- x10
Granted == INSTANCE Passthru WITH
    Slot <- {1, 2}, Capable <- {1, 2}, Buses <- Buses, MaxFn <- 2, MaxKdev <- 2,
    MaxGrants <- 2, Page <- {7}, Flags <- {{}, {"dma"}}, Dmar <- Tables, MaxGen <- 1,
    MaxCalls <- 3, table <- x1, dev <- x2, ctx <- x3, proc <- x4, pages <- x5, pc <- x6,
    rng <- x7, unbind <- x8, slip <- x9, calls <- x10
Screen == INSTANCE Media WITH
    Proc <- {"p", "q"}, Slot <- {1, 2}, Refused <- {"create", "attach", "set"},
    Overlap <- FALSE, MaxCalls <- 3, gpu <- x1, host <- x2, res <- x3, nextid <- x4,
    scan <- x5, ctl <- x6, tx <- x7, stream <- x8, owner <- x9, call <- x10, held <- x11,
    fired <- x12, calls <- x13
Probed == INSTANCE Probe WITH
    Drivers <- {"blk", "net", "gpu", "snd", "rng"}, Late <- {"quiesce"}, QMax <- {0, 4, 99},
    Starved <- TRUE, drv <- x1, dev <- x2, made <- x3, at <- x4, bound <- x5, ready <- x6,
    ring <- x7, quiet <- x8
Usb == INSTANCE Input WITH
    Callers <- {"canvas"}, Keys <- {"a", "b"}, Ps2 <- {}, Stalls <- TRUE, MaxPolls <- 2,
    MaxPress <- 1, MaxPort <- 1, Size <- 5, Cap <- 2, Hasty <- FALSE, ring <- x1, hc <- x2,
    bell <- x3, evt <- x4, setup <- x5, call <- x6, keys <- x7, report <- x8, prev <- x9,
    kbd <- x10, ctrl <- x11, held <- x12, typed <- x13, taken <- x14, got <- x15,
    presses <- x16, n <- x17
Ps2 == INSTANCE Input WITH
    Callers <- {"canvas", "tty"}, Keys <- {}, Ps2 <- {"c", "1"}, Stalls <- FALSE,
    MaxPolls <- 0, MaxPress <- 2, MaxPort <- 0, Size <- 5, Cap <- 2, Hasty <- FALSE,
    ring <- x1, hc <- x2, bell <- x3, evt <- x4, setup <- x5, call <- x6, keys <- x7,
    report <- x8, prev <- x9, kbd <- x10, ctrl <- x11, held <- x12, typed <- x13,
    taken <- x14, got <- x15, presses <- x16, n <- x17
Browsed == INSTANCE Web WITH
    NTabs <- 2, NHist <- 2, NMarks <- 1, NPool <- 1, Secure <- {"a"}, Content <- Pages,
    TypedIn <- Addresses, MaxHops <- 1, MaxEvents <- 3, MaxJobs <- 3, tab <- x1,
    active <- x2, taken <- x3, marks <- x4, saved <- x5, job <- x6, jobTab <- x7,
    events <- x8, jobs <- x9

\* Bytes of pages of 4: a ragged low range, an empty one, one across the older
\* pool's window, and one above it with ragged ends.
Usable(b, n) == [base |-> b, len |-> n]
Reported == <<Usable(2, 9), Usable(13, 2), Usable(16, 32), Usable(51, 22)>>
Pool == INSTANCE Buddy WITH
    Ranges <- Reported, MaxRanges <- 3, PageSize <- 4, Large <- 4, LegacyLow <- 2,
    LegacyHigh <- 6, MaxOrder <- 3, User <- {1, 2}, MaxCalls <- 6, usable <- x1,
    mapped <- x2, mark <- x3, order <- x4, area <- x5, nr_free <- x6, held <- x7, call <- x8,
    calls <- x9, booted <- x10
Segments == INSTANCE Shm WITH
    Proc <- {1, 2}, Entry <- {1, 2}, Seg <- {1}, Pages <- {1, 2}, Window <- 2,
    Frame <- {11, 12, 13}, QLen <- 1, Execs <- FALSE, Refuses <- FALSE, MaxCalls <- 4,
    refs <- x1, entry <- x2, seg <- x3, page <- x4, win <- x5, top <- x6, att <- x7,
    queue <- x8, pid <- x9, call <- x10, calls <- x11

\* Five processors: one never answers, one is disabled, one is beyond MAX_CPUS.
Cpu(i, e) == [id |-> i, enabled |-> e]
Processors == <<Cpu("b", TRUE), Cpu("x", TRUE), Cpu("d", TRUE), Cpu("o", FALSE), Cpu("y", TRUE)>>

Parallel == INSTANCE Smp WITH
    Madt <- Processors, Bsp <- "b", MaxCpus <- 4, Dead <- {"d"}, Late <- FALSE, Busy <- TRUE,
    Commands <- <<"parallel">>, Units <- 2, bsp <- x1, mail <- x2, ap <- x3, online <- x4,
    go <- x5, workdone <- x6, job <- x7, counter <- x8, page <- x9, seen <- x10, took <- x11
Command == INSTANCE Smp WITH
    Madt <- Processors, Bsp <- "b", MaxCpus <- 4, Dead <- {"d"}, Late <- FALSE,
    Busy <- FALSE, Commands <- <<"smp">>, Units <- 2, bsp <- x1, mail <- x2, ap <- x3,
    online <- x4, go <- x5, workdone <- x6, job <- x7, counter <- x8, page <- x9,
    seen <- x10, took <- x11
Switched == INSTANCE Threads WITH
    NThreads <- 4, Proc <- {"p"}, Remote <- {}, MaxMade <- 3, MaxTrips <- 2, state <- x1,
    g_cur <- x2, off <- x3, live <- x4, pcb <- x5, moving <- x6, making <- x7, own <- x8,
    made <- x9, trips <- x10

-----------------------------------------------------------------------------
MCInit ==
    /\ part \in Parts
    /\ Init /\ (part # "occ" => prog = CHOOSE p \in Programs : TRUE)
    /\ \/ /\ part = "occ"
          /\ x1 = 0 /\ x2 = 0 /\ x3 = 0 /\ x4 = 0 /\ x5 = 0 /\ x6 = 0 /\ x7 = 0 /\ x8 = 0 /\ x9 = 0 /\ x10 = 0 /\
            x11 = 0 /\ x12 = 0 /\ x13 = 0 /\ x14 = 0 /\ x15 = 0 /\ x16 = 0 /\ x17 = 0
       \/ part = "windows" /\ Windows!Init /\ x11 = 0 /\ x12 = 0 /\ x13 = 0 /\ x14 = 0 /\ x15 = 0 /\ x16 = 0 /\ x17 = 0
       \/ part = "pinned" /\ Pinned!Init /\ x11 = 0 /\ x12 = 0 /\ x13 = 0 /\ x14 = 0 /\ x15 = 0 /\ x16 = 0 /\ x17 = 0
       \/ part = "flat" /\ Flat!Init /\ x10 = 0 /\ x11 = 0 /\ x12 = 0 /\ x13 = 0 /\ x14 = 0 /\ x15 = 0 /\ x16 = 0 /\ x17 = 0
       \/ part = "space" /\ Space!Init /\ x10 = 0 /\ x11 = 0 /\ x12 = 0 /\ x13 = 0 /\ x14 = 0 /\ x15 = 0 /\ x16 = 0 /\ x17 = 0
       \/ part = "surfaces" /\ Drawn!Init /\ x11 = 0 /\ x12 = 0 /\ x13 = 0 /\ x14 = 0 /\ x15 = 0 /\ x16 = 0 /\ x17 = 0
       \/ part = "canvas" /\ Looped!Init /\ x11 = 0 /\ x12 = 0 /\ x13 = 0 /\ x14 = 0 /\ x15 = 0 /\ x16 = 0 /\ x17 = 0
       \/ part = "passthru" /\ Granted!Init /\ x11 = 0 /\ x12 = 0 /\ x13 = 0 /\ x14 = 0 /\ x15 = 0 /\ x16 = 0 /\ x17 = 0
       \/ part = "media" /\ Screen!Init /\ x14 = 0 /\ x15 = 0 /\ x16 = 0 /\ x17 = 0
       \/ part = "probe" /\ Probed!Init /\ x9 = 0 /\ x10 = 0 /\ x11 = 0 /\ x12 = 0 /\ x13 = 0 /\ x14 = 0 /\ x15 = 0 /\ x16 = 0 /\ x17 = 0
       \/ part = "usb" /\ Usb!Init
       \/ part = "ps2" /\ Ps2!Init
       \/ part = "web" /\ Browsed!Init /\ x10 = 0 /\ x11 = 0 /\ x12 = 0 /\ x13 = 0 /\ x14 = 0 /\ x15 = 0 /\ x16 = 0 /\ x17 = 0
       \/ part = "buddy" /\ Pool!Init /\ x11 = 0 /\ x12 = 0 /\ x13 = 0 /\ x14 = 0 /\ x15 = 0 /\ x16 = 0 /\ x17 = 0
       \/ part = "shm" /\ Segments!Init /\ x12 = 0 /\ x13 = 0 /\ x14 = 0 /\ x15 = 0 /\ x16 = 0 /\ x17 = 0
       \/ part = "smp" /\ Parallel!Init /\ x12 = 0 /\ x13 = 0 /\ x14 = 0 /\ x15 = 0 /\ x16 = 0 /\ x17 = 0
       \/ part = "cmdsmp" /\ Command!Init /\ x12 = 0 /\ x13 = 0 /\ x14 = 0 /\ x15 = 0 /\ x16 = 0 /\ x17 = 0
       \/ part = "threads" /\ Switched!Init /\ x11 = 0 /\ x12 = 0 /\ x13 = 0 /\ x14 = 0 /\ x15 = 0 /\ x16 = 0 /\ x17 = 0

OccStep == part = "occ" /\ Next /\ UNCHANGED <<part, xvars>>
WindowsStep == part = "windows" /\ Windows!Next /\ UNCHANGED <<part, x11, x12, x13, x14, x15, x16, x17, vars>>
PinnedStep == part = "pinned" /\ Pinned!Next /\ UNCHANGED <<part, x11, x12, x13, x14, x15, x16, x17, vars>>
FlatStep == part = "flat" /\ Flat!Next /\ UNCHANGED <<part, x10, x11, x12, x13, x14, x15, x16, x17, vars>>
SpaceStep == part = "space" /\ Space!Next /\ UNCHANGED <<part, x10, x11, x12, x13, x14, x15, x16, x17, vars>>
SurfacesStep == part = "surfaces" /\ Drawn!Next /\ UNCHANGED <<part, x11, x12, x13, x14, x15, x16, x17, vars>>
CanvasStep == part = "canvas" /\ Looped!Next /\ UNCHANGED <<part, x11, x12, x13, x14, x15, x16, x17, vars>>
PassthruStep == part = "passthru" /\ Granted!Next /\ UNCHANGED <<part, x11, x12, x13, x14, x15, x16, x17, vars>>
MediaStep == part = "media" /\ Screen!Next /\ UNCHANGED <<part, x14, x15, x16, x17, vars>>
ProbeStep == part = "probe" /\ Probed!Next /\ UNCHANGED <<part, x9, x10, x11, x12, x13, x14, x15, x16, x17, vars>>
UsbStep == part = "usb" /\ Usb!Next /\ UNCHANGED <<part, vars>>
Ps2Step == part = "ps2" /\ Ps2!Next /\ UNCHANGED <<part, vars>>
WebStep == part = "web" /\ Browsed!Next /\ UNCHANGED <<part, x10, x11, x12, x13, x14, x15, x16, x17, vars>>
BuddyStep == part = "buddy" /\ Pool!Next /\ UNCHANGED <<part, x11, x12, x13, x14, x15, x16, x17, vars>>
ShmStep == part = "shm" /\ Segments!Next /\ UNCHANGED <<part, x12, x13, x14, x15, x16, x17, vars>>
SmpStep == part = "smp" /\ Parallel!Next /\ UNCHANGED <<part, x12, x13, x14, x15, x16, x17, vars>>
CmdsmpStep == part = "cmdsmp" /\ Command!Next /\ UNCHANGED <<part, x12, x13, x14, x15, x16, x17, vars>>
ThreadsStep == part = "threads" /\ Switched!Next /\ UNCHANGED <<part, x11, x12, x13, x14, x15, x16, x17, vars>>

MCNext == OccStep \/ WindowsStep \/ PinnedStep \/ FlatStep \/ SpaceStep \/ SurfacesStep \/ CanvasStep \/ PassthruStep
       \/           MediaStep \/ ProbeStep \/ UsbStep \/ Ps2Step \/ WebStep \/ BuddyStep \/ ShmStep
       \/ SmpStep \/ CmdsmpStep \/ ThreadsStep
MCSpec == MCInit /\ [][MCNext]_benchVars

-----------------------------------------------------------------------------
\* What the instances ask of their constants.
ASSUME Instances ==
    /\ Windows!WmAssumption /\ Pinned!WmAssumption /\ Flat!DeskAssumption /\ Space!DeskAssumption /\ Screen!MediaAssumption
    /\ Probed!ProbeAssumption /\ Usb!InputAssumption /\ Ps2!InputAssumption
    /\ Segments!ShmAssumption

\* Windows and widgets belong to the living, shapes stay on the desktop: see Wm, Desk.
DesktopSound ==
    /\ part = "windows" => Windows!DesktopSound
    /\ part = "pinned" => Pinned!DesktopSound
    /\ part = "flat" => Flat!DeskSound
    /\ part = "space" => Space!DeskSound
\* Pixels are shared with who made them, frames drawn whole: see Surfaces.
SurfacesSound == part = "surfaces" => Drawn!SurfacesSound
\* The desktop's loop comes to rest where it should: see Canvas.
CanvasSound == part = "canvas" => Looped!CanvasSound
\* A device is with one driver, and reaches granted pages only: see Passthru.
PassthruSound == part = "passthru" => Granted!PassthruSound
\* Commands, images and fences of the GPU: see Media.
MediaSound == part = "media" => Screen!MediaSound
\* A device runs only after a whole handshake: see Probe.
ProbeSound == part = "probe" => Probed!ProbeSound
\* Rings keep their order and a key is typed once: see Input.
InputSound == (part = "usb" => Usb!InputSound) /\ (part = "ps2" => Ps2!InputSound)
\* Pages, pictures and the cache of the browser: see Web.
WebSound == part = "web" => Browsed!WebSound
\* A block is never handed out twice, nor are its halves lost: see Buddy.
BuddySound == part = "buddy" => Pool!BuddySound
\* Shared frames have exactly the references that are owed: see Shm.
SharedSound == part = "shm" => Segments!SharedSound
\* Every unit of a job is done once, by a core on its own stack: see Smp.
JobsSound ==
    /\ part = "smp" => Parallel!JobsSound /\ Parallel!NoneSkips
    /\ part = "cmdsmp" => Command!JobsSound
\* A thread resumes in the context it was created for: see Threads.
ThreadsSound == part = "threads" => Switched!ThreadsSound
=============================================================================
