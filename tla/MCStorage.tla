------------------------------ MODULE MCStorage ------------------------------
(***************************************************************************)
(* Storage.  VfsJournal has two directory blocks of one dirent: dirents    *)
(* are filled in order, so two names reach both blocks.  The other parts   *)
(* are independent of it and of each other: a behaviour runs one part,     *)
(* chosen at the start, so that one run covers them all and the parts      *)
(* share the variables x1, x2, ...                                         *)
(***************************************************************************)
EXTENDS VfsJournal, TLC

CONSTANTS Parts, p1, p2, f1, f2, Torn

VARIABLES part, x1, x2, x3, x4, x5, x6, x7, x8, x9, x10, x11, x12, x13
xvars == <<x1, x2, x3, x4, x5, x6, x7, x8, x9, x10, x11, x12, x13>>
benchVars == <<part, xvars, vars>>

\* One process that calls everything.
Alone == [callers |-> {p1}, closers |-> {p1}, setters |-> {p1}, windows |-> {}]
\* Another closes, which alone does not hold the lock throughout; nobody changes
\* modes or owners.
Together == [callers |-> {p1}, closers |-> {p2}, setters |-> {}, windows |-> {}]
\* One of two processes calls SYS_CHMOD, whose commit holds no lock.
Changing == [Together EXCEPT !.callers = {p1, p2}, !.closers = {p1, p2},
                             !.setters = {p2}]
\* Power is also lost between the two stagings of a rename.
Mixing == [Alone EXCEPT !.windows = {"mix"}]

Safe == {Alone, Together}
OnlyChanging == {Changing}
OnlyMixing == {Mixing}

\* Files that reach the entry's own chunks, the single and both double indirect blocks.
Fill(b, n) == [i \in 1 .. n |-> b]
Written == {Fill(1, 1), Fill(2, 2), Fill(2, 3), Fill(1, 6)}
Vol(a, b) == (f1 :> a) @@ (f2 :> b)
Earlier == {Vol(<<>>, None), Vol(Fill(1, 3), <<>>), Vol(Fill(1, 6), Fill(1, 8)),
            Vol(Fill(2, 8), None), Vol(Fill(1, 14), None)}

\* Root, which may become user 1, and two users.
UidOf(p) == p - 1

\* A fresh volume, and one with an account of the old scheme.
NoImage == [s \in {0, 1} |-> None]
Old == [digest |-> [scheme |-> "pbkdf2", pw |-> "x"], scheme |-> "pbkdf2", fails |-> 0, locked |-> FALSE]
Images == {NoImage, [NoImage EXCEPT ![1] = [gen |-> 1, acct |-> ("u" :> Old) @@ ("v" :> None)]]}

F == INSTANCE FileMap WITH
    File <- {f1, f2}, Proc <- {p1}, C <- 2, D <- 1, N <- 2, MaxBytes <- 20, Caps <- {5, 9},
    Texts <- Written, Offsets <- {0, 3, 4}, Sizes <- {0, 1, 5, 16}, Volumes <- Earlier,
    MaxCalls <- 2, cap <- x1, dent <- x2, refs <- x3, pend <- x4, full <- x5, left <- x6
G == INSTANCE PageCache WITH
    Proc <- {1, 2}, Writers <- {1}, Page <- {0, 1}, Length <- 1, Frame <- {11, 12},
    MaxCache <- 1, MaxFmap <- 2, MaxWrites <- 2, file <- x1, cache <- x2, mem <- x3,
    fmap <- x4, pte <- x5, busy <- x6, at <- x7, owed <- x8, last <- x9
T == INSTANCE TmpFiles WITH
    Proc <- {1, 2, 3}, Uid <- UidOf, Drop <- {1}, Name <- {"a"}, Slot <- {0}, MaxBytes <- 2,
    Lens <- {1}, MaxCalls <- 4, euid <- x1, slot <- x2, fd <- x3, at <- x4, left <- x5
\* Two threads of one process, and a third that runs the process it forks.
O == INSTANCE Offsets WITH
    Thread <- {1, 2, 3}, ProcOf <- <<1, 1, 2>>, First <- 1, Desc <- {1, 2}, Fd <- {0, 1},
    File <- {f1}, Lens <- {1, 2}, Moves <- {1}, Sizes <- {0, 1}, Overlap <- FALSE, MaxCalls <- 3,
    file <- x1, desc <- x2, fd <- x3, at <- x4, told <- x5, raced <- x6, stays <- x7,
    calls <- x8
U == INSTANCE UserDb WITH
    Proc <- {1, 2}, Name <- {"u", "v"}, Password <- {"x", "y"}, Stored <- Images,
    MaxFails <- 1, MaxUsers <- 2, MaxCalls <- 3, MaxLosses <- 1, Torn <- Torn, acct <- x1,
    gen <- x2, avail <- x3, persist <- x4, disk <- x5, lock <- x6, busy <- x7, at <- x8,
    acked <- x9, failed <- x10, wrong <- x11, calls <- x12, losses <- x13
D == INSTANCE VirtioBlk WITH
    Boot <- {"b1", "b2"}, Aps <- {"a1"}, NSlots <- 2, MaxRequests <- 3, ready <- x1,
    req <- x2, stats <- x3, published <- x4, held <- x5, used <- x6, irq <- x7, bh <- x8,
    inflight <- x9, thread <- x10, at <- x11, last <- x12

-----------------------------------------------------------------------------
MCInit ==
    /\ part \in Parts
    /\ Init /\ (part # "journal" => setting = CHOOSE s \in Settings : TRUE)
    /\ \/ /\ part = "journal"
          /\ x1 = 0 /\ x2 = 0 /\ x3 = 0 /\ x4 = 0 /\ x5 = 0 /\ x6 = 0 /\ x7 = 0 /\ x8 = 0 /\ x9 = 0 /\ x10 = 0 /\
            x11 = 0 /\ x12 = 0 /\ x13 = 0
       \/ part = "files" /\ F!Init /\ x7 = 0 /\ x8 = 0 /\ x9 = 0 /\ x10 = 0 /\ x11 = 0 /\ x12 = 0 /\ x13 = 0
       \/ part = "pages" /\ G!Init /\ x10 = 0 /\ x11 = 0 /\ x12 = 0 /\ x13 = 0
       \/ part = "tmp" /\ T!Init /\ x6 = 0 /\ x7 = 0 /\ x8 = 0 /\ x9 = 0 /\ x10 = 0 /\ x11 = 0 /\ x12 = 0 /\ x13 = 0
       \/ part = "offsets" /\ O!Init /\ x9 = 0 /\ x10 = 0 /\ x11 = 0 /\ x12 = 0 /\ x13 = 0
       \/ part = "users" /\ U!Init
       \/ part = "disk" /\ D!Init /\ x13 = 0

JournalStep == part = "journal" /\ Next /\ UNCHANGED <<part, xvars>>
FilesStep == part = "files" /\ F!Next /\ UNCHANGED <<part, x7, x8, x9, x10, x11, x12, x13, vars>>
PagesStep == part = "pages" /\ G!Next /\ UNCHANGED <<part, x10, x11, x12, x13, vars>>
TmpStep == part = "tmp" /\ T!Next /\ UNCHANGED <<part, x6, x7, x8, x9, x10, x11, x12, x13, vars>>
OffsetsStep == part = "offsets" /\ O!Next /\ UNCHANGED <<part, x9, x10, x11, x12, x13, vars>>
UsersStep == part = "users" /\ U!Next /\ UNCHANGED <<part, vars>>
DiskStep == part = "disk" /\ D!Next /\ UNCHANGED <<part, x13, vars>>

MCNext == JournalStep \/ FilesStep \/ PagesStep \/ TmpStep \/ OffsetsStep \/ UsersStep \/ DiskStep
\* The fairness of VirtioBlk: the device answers, its interrupt comes, threads run.
diskVars == D!vars
MCSpec ==
    /\ MCInit /\ [][MCNext]_benchVars
    /\ WF_diskVars(part = "disk" /\ D!Device)
    /\ WF_diskVars(part = "disk" /\ D!Bottom)
    /\ \A t \in {"b1", "b2", "a1"} : WF_diskVars(part = "disk" /\ D!Wait(t))

-----------------------------------------------------------------------------
\* File maps, the page cache and tmp files keep their bytes, descriptions their
\* position: see FileMap, PageCache, TmpFiles, Offsets.
FilesSound ==
    /\ part = "files" => F!MapSound
    /\ part = "pages" => G!MappedSound
    /\ part = "tmp" => T!Private
    /\ part = "offsets" => O!PositionsSound
\* Seen from outside, both kinds of file are sequences of bytes: see ByteFiles.
ImplementsBytes ==
    [][/\ part = "files" => F!Abstract!Step
       /\ part = "tmp" => T!Abstract!Step]_benchVars
\* Accounts survive, guesses are bounded: see UserDb.
AccountsSound == part = "users" => U!AccountsSound
\* Disk requests get their own answers: see VirtioBlk.
AnswersSound == part = "disk" => D!AnswersSound
\* Every disk request comes back: see VirtioBlk.
Answered ==
    \A t \in {"b1", "b2", "a1"} :
        (part = "disk" /\ D!Waits(t)) ~> (part = "disk" /\ ~D!Waits(t))
=============================================================================
