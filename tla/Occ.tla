---------------------------------- MODULE Occ ---------------------------------
(***************************************************************************)
(* occ, the C compiler that runs inside the system: the preprocessor, the  *)
(* single pass that parses and emits at once, the patching of calls, and   *)
(* the emitted code run one instruction at a time.                         *)
(*                                                                         *)
(* A token is a record of its kind and value; a byte counts Byte, so a     *)
(* word of 8 bytes counts Byte^8. An instruction is an operation with one  *)
(* operand; jumps name the instruction they go to. Values pushed by an     *)
(* expression are kept apart from memory, which holds globals and frames.  *)
(***************************************************************************)
EXTENDS Integers, Sequences, SequencesExt, FiniteSets, Bitwise

CONSTANTS Programs, \* syntax trees of the programs that are compiled
          Globals,  \* names that the files declare at the top level, with their types
          Files,    \* lines of each file, by name; "main" is the one compiled
          MaxText,  \* OCC_MAXTEXT, in instructions
          Byte,     \* values of a byte (256)
          Compiled(_, _), \* the compiler: see Compile
          Top       \* the first address above the stack

VARIABLES prog, \* the program and the file that is put before it
          out,  \* what the compiler left
          m     \* the machine that runs it
vars == <<prog, out, m>>

W == Byte * Byte * Byte * Byte * Byte * Byte * Byte * Byte
Cut(v, n) == IF n = 8 THEN v % W ELSE IF n = 1 THEN v % Byte
             ELSE IF n = 2 THEN v % (Byte * Byte) ELSE v % (Byte * Byte * Byte * Byte)
Signed(v) == IF v >= W \div 2 THEN v - W ELSE v

Id(x) == [k |-> "id", v |-> x]
Num(n) == [k |-> "num", v |-> n]
Op(s) == [k |-> "op", v |-> s]
Ops(s) == [j \in 1..Len(s) |-> Op(s[j])]
Void == [k |-> "eof", v |-> 0]

------------------------------------------------------------------------------
(* The preprocessor. A line is a directive with its argument, or text.     *)

\* occ_pp_expand_once: every macro name becomes its body.
Once(defs, ts) == FlattenSeq([j \in 1..Len(ts) |->
    IF ts[j].k = "id" /\ ts[j].v \in DOMAIN defs THEN defs[ts[j].v] ELSE <<ts[j]>>])

\* occ_pp_expand: again, until nothing changes or OCC_PP_RESCAN times.
RECURSIVE Expand(_, _, _)
Expand(defs, ts, passes) ==
    IF passes = 0 \/ \A j \in 1..Len(ts) : ~(ts[j].k = "id" /\ ts[j].v \in DOMAIN defs)
    THEN ts ELSE Expand(defs, Once(defs, ts), passes - 1)

Without(f, x) == [y \in DOMAIN f \ {x} |-> f[y]]
With(f, x, v) == [y \in DOMAIN f \cup {x} |-> IF y = x THEN v ELSE f[y]]

\* S: the macros, the text so far, the conditions open in this file, errors.
Emitting(S) == \A j \in 1..Len(S.conds) : S.conds[j].active
Last1(s) == s[Len(s)]

\* #else takes what was not taken yet.
\* Mutant: #else is active again after a taken #ifdef.
ElseAlways(c) == [active |-> TRUE, taken |-> TRUE]
ElseOf(c) == [active |-> ~c.taken, taken |-> TRUE]

RECURSIVE PpFile(_, _, _)
PpLine(S, l, depth) ==
    CASE l[1] \in {"ifdef", "ifndef"} ->
            LET want == (l[2] \in DOMAIN S.defs) = (l[1] = "ifdef")
            IN [S EXCEPT !.conds = Append(@, [active |-> want, taken |-> want])]
      [] l[1] = "else" ->
            IF S.conds = <<>> THEN [S EXCEPT !.err = TRUE]
            ELSE [S EXCEPT !.conds[Len(S.conds)] = ElseOf(@)]
      [] l[1] = "endif" ->
            IF S.conds = <<>> THEN [S EXCEPT !.err = TRUE] ELSE [S EXCEPT !.conds = Front(@)]
      [] l[1] \in {"define", "undef", "include", "text"} /\ ~Emitting(S) -> S
      [] l[1] = "define" -> [S EXCEPT !.defs = With(@, l[2], l[3])]
      [] l[1] = "undef" -> [S EXCEPT !.defs = Without(@, l[2])]
      [] l[1] = "include" ->
            LET T == PpFile([S EXCEPT !.conds = <<>>], l[2], depth + 1)
            IN [T EXCEPT !.conds = S.conds]
      [] l[1] = "text" -> [S EXCEPT !.text = @ \o Expand(S.defs, l[2], 8)]

\* OCC_PP_MAXDEPTH files deep at most; every file closes its own conditions.
PpFile(S, name, depth) ==
    IF depth >= 8 \/ name \notin DOMAIN Files THEN [S EXCEPT !.err = TRUE]
    ELSE LET Line(acc, l) == PpLine(acc, l, depth)
             T == FoldLeft(Line, S, Files[name])
         IN [T EXCEPT !.err = @ \/ T.conds # <<>>]

Preprocess(name) ==
    PpFile([defs |-> [x \in {} |-> 0], text |-> <<>>, conds |-> <<>>, err |-> FALSE], name, 0)

------------------------------------------------------------------------------
(* The state of the single pass: the rest of the tokens, the text emitted, *)
(* what is declared, what is still to be patched, and the type in RAX.     *)

P0(toks) == [t |-> toks, code |-> <<>>, locs |-> <<>>, frame |-> 0, syms |-> [x \in {} |-> 0],
             structs |-> [x \in {} |-> 0], fixes |-> {}, brks |-> <<>>, err |-> FALSE,
             u |-> FALSE, sz |-> 8, dlen |-> 0, data |-> <<>>]

Tk(P) == IF P.t = <<>> THEN Void ELSE Head(P.t)
Is(P, s) == Tk(P).k = "op" /\ Tk(P).v = s
IsId(P) == Tk(P).k = "id"
Skip(P) == [P EXCEPT !.t = IF @ = <<>> THEN @ ELSE Tail(@)]
Bad(P) == [P EXCEPT !.err = TRUE]
Expect(P, s) == IF Is(P, s) THEN Skip(P) ELSE Skip(Bad(P))

\* occ_emit: what does not fit in the text is not written.
Emit(P, op, x) == IF Len(P.code) < MaxText THEN [P EXCEPT !.code = Append(@, <<op, x>>)] ELSE P
At(P) == Len(P.code)
Patch(P, at) == IF at \in 1..At(P) THEN [P EXCEPT !.code[at][2] = At(P) + 1] ELSE P
Typed(P, u, sz) == [P EXCEPT !.u = u, !.sz = sz]

Scalar(name, off) == [name |-> name, off |-> off, st |-> "", ptr |-> 0, size |-> 8,
                      esize |-> 8, n |-> 0, u |-> FALSE, eu |-> FALSE]
Local(P, name) == {j \in 1..Len(P.locs) : P.locs[j].name = name}
Latest(J) == CHOOSE j \in J : \A k \in J : k <= j
\* What a name stands for: the latest local of that name, or a global, which
\* a use brings into being.
Named(P, name) == IF Local(P, name) # {} THEN P.locs[Latest(Local(P, name))]
                  ELSE IF name \in DOMAIN P.syms THEN P.syms[name] ELSE Scalar(name, 0)
Base(P, name) == Emit(P, IF Local(P, name) # {} THEN "lea" ELSE "imm", Named(P, name).off)

ElemSize(P, st, ptr, base) == IF ptr > 1 THEN 8 ELSE IF st # "" THEN P.structs[st].size
                              ELSE IF base = 1 THEN 1 ELSE 8
AlignOf(P, st, ptr, size) == IF st # "" /\ ptr = 0 THEN P.structs[st].align
                             ELSE IF ptr # 0 THEN 8 ELSE IF size = 1 THEN 1 ELSE 8
UpTo(n, a) == ((n + a - 1) \div a) * a

------------------------------------------------------------------------------
(* Types.                                                                  *)

Types == {"int", "char", "u8", "u64", "struct"}
IsType(P) == Tk(P).k = "op" /\ Tk(P).v \in Types

RECURSIVE Stars(_, _), Body(_, _)
Stars(P, n) == IF Is(P, "*") THEN Stars(Skip(P), n + 1) ELSE [p |-> P, n |-> n]

\* A declarator of base type ty: pointers to it are words.
Declared(P, ty, name, ptr, n, off) ==
    LET es == ElemSize(P, ty.st, ptr, ty.size)
    IN [name |-> name, off |-> off, st |-> ty.st, ptr |-> ptr,
        size |-> IF n # 0 THEN es ELSE IF ptr > 0 THEN 8 ELSE ty.size,
        esize |-> es, n |-> n, u |-> ptr = 0 /\ ty.u, eu |-> ptr <= 1 /\ ty.st = "" /\ ty.u]

Placed(S, a) == UpTo(S.off, a)

\* The members up to "}", each at its alignment.
Body(P, S) ==
    IF ~IsType(P) THEN [p |-> Expect(P, "}"), s |-> S]
    ELSE LET c == IF Is(P, "char") \/ Is(P, "u8") THEN 1 ELSE 8
             ty == [st |-> "", size |-> c, u |-> Is(P, "u8") \/ Is(P, "u64")]
             d == Stars(Skip(P), 0)
             sz == IF d.n > 0 THEN 8 ELSE c
             a == AlignOf(P, "", d.n, sz)
             off == Placed(S, a)
         IN Body(Expect(Skip(d.p), ";"),
                 [m |-> Append(S.m, Declared(P, ty, Tk(d.p).v, d.n, 0, off)), off |-> off + sz,
                  align |-> IF a > S.align THEN a ELSE S.align])

\* A struct with another layout than the one it had is refused.
Layout(S) == [m |-> S.m, align |-> S.align, size |-> IF S.off = 0 THEN 1 ELSE UpTo(S.off, S.align)]
ParseStruct(P) ==
    LET name == Tk(P).v
        Q == Skip(P)
        b == Body(Skip(Q), [m |-> <<>>, off |-> 0, align |-> 1])
        s == Layout(b.s)
    IN IF Is(Q, "{")
       THEN [p |-> IF name \in DOMAIN b.p.structs /\ b.p.structs[name] # s THEN Bad(b.p)
                   ELSE [b.p EXCEPT !.structs = With(@, name, s)],
             ty |-> [st |-> name, size |-> s.size, u |-> FALSE]]
       ELSE IF name \notin DOMAIN P.structs THEN [p |-> Bad(Q), ty |-> [st |-> "", size |-> 8, u |-> FALSE]]
       ELSE [p |-> Q, ty |-> [st |-> name, size |-> P.structs[name].size, u |-> FALSE]]

ParseType(P) ==
    IF Is(P, "struct") THEN ParseStruct(Skip(P))
    ELSE [p |-> Skip(P), ty |-> [st |-> "", u |-> Is(P, "u8") \/ Is(P, "u64"),
                                 size |-> IF Is(P, "char") \/ Is(P, "u8") THEN 1 ELSE 8]]

------------------------------------------------------------------------------
(* Expressions: Lvalue leaves an address, Primary a value.                 *)

RECURSIVE Expr(_), Binop(_, _), BinopRest(_, _), Primary(_), Postfix(_), Chain(_, _), Stmt(_)

\* Walking members: the offset is added, a pointer on the way is loaded.
Chain(P, v) ==
    IF ~(Is(P, ".") \/ Is(P, "->")) THEN [p |-> P, v |-> v]
    ELSE LET Q == Skip(P)
             ms == IF v.st = "" THEN <<>> ELSE P.structs[v.st].m
             here == {j \in 1..Len(ms) : IsId(Q) /\ ms[j].name = Tk(Q).v}
         IN IF here = {} \/ Is(P, "->") # (v.ptr > 0) THEN [p |-> Skip(Bad(Q)), v |-> v]
            ELSE LET mm == ms[CHOOSE j \in here : \A k \in here : j <= k]
                     R == Skip(IF mm.off = 0 THEN Q ELSE Emit(Q, "addi", mm.off))
                 IN Chain(IF mm.ptr > 0 /\ (Is(R, ".") \/ Is(R, "->")) THEN Emit(R, "load", 8) ELSE R, mm)
Members(P, v) == Chain(IF Is(P, "->") THEN Emit(P, "load", 8) ELSE P, v)

Stride(v) == v.esize
Index(P, v, load) ==
    LET Q == Emit(IF load THEN Emit(P, "load", 8) ELSE P, "push", 0)
        R == Expect(Emit(Emit(Expr(Skip(Q)), "muli", Stride(v)), "add2", 0), "]")
    IN Members(R, [v EXCEPT !.ptr = IF @ > 0 THEN @ - 1 ELSE 0, !.size = v.esize, !.u = v.eu, !.n = 0])

\* What follows a name: an index, or members and then an index.
Walk(P, v) ==
    IF Is(P, "[") THEN Index(P, v, v.n = 0)
    ELSE LET c == Members(P, v)
         IN IF (Is(P, ".") \/ Is(P, "->")) /\ Is(c.p, "[") THEN Index(c.p, c.v, c.v.ptr > 0) ELSE c

Lvalue(P) ==
    IF ~IsId(P) \/ Is(Skip(P), "(") THEN [p |-> P, v |-> Scalar("", 0), ok |-> FALSE]
    ELSE LET w == Walk(Skip(Base(P, Tk(P).v)), Named(P, Tk(P).v)) IN [p |-> w.p, v |-> w.v, ok |-> TRUE]

\* A struct stands for its address, and so does an array.
Variable(P) ==
    LET v == Named(P, Tk(P).v)
        B == Skip(Base(P, Tk(P).v))
        w == Walk(B, v)
    IN IF v.n # 0 /\ ~Is(B, "[") THEN Typed(B, v.u, v.n * v.esize)
       ELSE IF w.v.st # "" /\ w.v.ptr = 0 THEN Typed(w.p, w.v.u, w.v.size)
       ELSE Typed(Emit(w.p, "load", w.v.size), w.v.u, w.v.size)

RECURSIVE Args(_, _)
Args(P, n) == LET Q == Emit(Expr(P), "push", 0)
              IN IF Is(Q, ",") THEN Args(Skip(Q), n + 1) ELSE [p |-> Q, n |-> n + 1]

\* The arguments come off the stack into registers, the last one first.
RECURSIVE Pops(_, _)
Pops(P, n) == IF n = 0 THEN P ELSE Pops(Emit(P, "arg", n), n - 1)

CallOf(P) ==
    LET name == Tk(P).v
        Q == Skip(Skip(P))
        a == IF Is(Q, ")") THEN [p |-> Q, n |-> 0] ELSE Args(Q, 0)
        R == Pops(Expect(a.p, ")"), a.n)
        C == Emit(IF a.n > 6 THEN Bad(R) ELSE R, "call", 0)
    IN Typed([C EXCEPT !.fixes = @ \cup {<<At(R) + 1, name>>}], FALSE, 8)

\* sizeof answers from the type, or parses its operand for the type and takes
\* the emitted code back.
SizeOf(P) ==
    LET t == ParseType(Skip(P))
        d == Stars(t.p, 0)
        Q == Postfix(Primary(P))
        R == [Q EXCEPT !.code = SubSeq(@, 1, At(P)), !.fixes = {f \in @ : f[1] <= At(P)}]
    IN IF Is(P, "(") /\ IsType(Skip(P))
       THEN Typed(Emit(Expect(d.p, ")"), "imm", IF d.n > 0 THEN 8 ELSE t.ty.size), TRUE, 8)
       ELSE Typed(Emit(R, "imm", Q.sz), TRUE, 8)

ByteAt(P) ==
    LET Q == Emit(Expr(Expect(P, "(")), "push", 0)
    IN Typed(Emit(Emit(Expect(Expr(Expect(Q, ",")), ")"), "add2", 0), "load", 1), TRUE, 8)

Primary(P) ==
    CASE Tk(P).k = "num" -> Typed(Skip(Emit(P, "imm", Tk(P).v)), FALSE, 8)
      [] Is(P, "sizeof") -> SizeOf(Skip(P))
      [] Is(P, "(") -> Expect(Expr(Skip(P)), ")")
      [] Is(P, "-") -> Typed(Emit(Primary(Skip(P)), "neg", 0), FALSE, 8)
      [] Is(P, "!") -> Typed(Emit(Primary(Skip(P)), "setz", 0), FALSE, 8)
      [] Is(P, "*") -> Typed(Emit(Primary(Skip(P)), "load", 8), FALSE, 8)
      [] Is(P, "&") -> LET l == Lvalue(Skip(P)) IN Typed(IF l.ok THEN l.p ELSE Bad(l.p), FALSE, 8)
      [] Is(P, "__ldb") -> ByteAt(Skip(P))
      [] IsId(P) /\ Is(Skip(P), "(") -> CallOf(P)
      [] IsId(P) -> Variable(P)
      [] OTHER -> Emit(Skip(Bad(P)), "imm", 0)

\* An index on what is not a name steps over words.
Postfix(P) ==
    IF ~Is(P, "[") THEN P
    ELSE LET Q == Emit(Emit(Expr(Skip(Emit(P, "push", 0))), "muli", 8), "add2", 0)
         IN Postfix(Typed(Expect(Emit(Q, "load", 8), "]"), FALSE, 8))

Levels == <<{"||"}, {"&&"}, {"|"}, {"^"}, {"&"}, {"==", "!="}, {"<", ">", "<=", ">="},
            {"<<", ">>"}, {"+", "-"}, {"*", "/", "%"}>>

\* Whether an operator treats its operands as magnitudes, and whether its
\* result is one, from the operand on the left and the one on the right.
Unsigned(op, lu, ru) == IF op \in {"<<", ">>"} THEN lu ELSE lu \/ ru

\* a && b: jumps over b when a decides.
ShortCircuit(P, l, isor) ==
    LET A == Emit(Skip(P), IF isor THEN "jnz" ELSE "jz", 0)
        B == Emit(Binop(A, l + 1), "jz", 0)
        C == Emit(IF isor THEN Patch(B, At(A)) ELSE B, "imm", 1)
        D == Emit(C, "jmp", 0)
        F == Patch(IF isor THEN D ELSE Patch(D, At(A)), At(B))
    IN Patch(Emit(F, "imm", 0), At(D))

BinopRest(P, l) ==
    IF Tk(P).k # "op" \/ Tk(P).v \notin Levels[l] THEN P
    ELSE IF l <= 2 THEN BinopRest(ShortCircuit(P, l, l = 1), l)
    ELSE LET op == Tk(P).v
             Q == Binop(Skip(Emit(P, "push", 0)), l + 1)
             u == Unsigned(op, P.u, Q.u)
             R == Emit(Q, op, IF u THEN 1 ELSE 0)
         IN BinopRest(Typed(R, u /\ l \notin {6, 7}, 8), l)
Binop(P, l) == IF l > 10 THEN Postfix(Primary(P)) ELSE BinopRest(Binop(P, l + 1), l)

\* An assignment is tried first; when no "=" follows, the tokens are taken
\* back and what was emitted stays.
Target(P) == IF ~Is(P, "*") THEN Lvalue(P)
             ELSE LET l == Lvalue(Skip(P))
                  IN IF l.ok THEN [l EXCEPT !.v.size = 8]
                     ELSE [p |-> Primary(Skip(P)), v |-> Scalar("", 0), ok |-> TRUE]
Expr(P) ==
    IF ~(IsId(P) \/ Is(P, "*")) THEN Binop(P, 1)
    ELSE LET l == Target(P)
         IN IF l.ok /\ Is(l.p, "=")
            THEN Emit(Expr(Skip(Emit(l.p, "push", 0))), "store", l.v.size)
            ELSE Binop([l.p EXCEPT !.t = P.t], 1)

------------------------------------------------------------------------------
(* Declarations of locals.                                                 *)

RECURSIVE Locals(_, _)
ArraySize(P) == IF Is(P, "[") THEN [p |-> Expect(Skip(Skip(P)), "]"), n |-> Tk(Skip(P)).v] ELSE [p |-> P, n |-> 0]

SlotSize(P, v) == UpTo(IF v.n # 0 THEN v.n * v.esize ELSE v.size, 8)

Locals(P, ty) ==
    LET d == Stars(P, 0)
        a == ArraySize(Skip(d.p))
        v == Declared(P, ty, Tk(d.p).v, d.n, a.n, 0)
        f == P.frame + SlotSize(P, v)
        Q == [a.p EXCEPT !.frame = f, !.locs = Append(@, [v EXCEPT !.off = -f])]
        plain == v.n = 0 /\ (v.st = "" \/ v.ptr > 0)
        R == IF ~Is(Q, "=") THEN Q
             ELSE Emit(Expr(Skip(IF plain THEN Q ELSE Bad(Q))), "spill", -f)
    IN IF Is(R, ",") THEN Locals(Skip(R), ty) ELSE Expect(R, ";")
LocalDecl(P) == LET t == ParseType(P) IN IF Is(t.p, ";") THEN Skip(t.p) ELSE Locals(t.p, t.ty)

------------------------------------------------------------------------------
(* Statements. A break or continue waits in the frame of its construct     *)
(* until the place it goes to is known.                                    *)

Open(P, loop) == [P EXCEPT !.brks = Append(@, [b |-> {}, c |-> {}, loop |-> loop])]
Breaks(P) == LET F == Last1(P.brks)
             IN [P EXCEPT !.code = [j \in 1..Len(@) |-> IF j \in F.b THEN <<"jmp", Len(@) + 1>> ELSE @[j]],
                          !.brks = Front(@)]
Continues(P, to) == LET F == Last1(P.brks)
                    IN [P EXCEPT !.code = [j \in 1..Len(@) |-> IF j \in F.c THEN <<"jmp", to>> ELSE @[j]]]

RECURSIVE Block(_)
Block(P) == IF Is(P, "}") \/ P.t = <<>> THEN Expect(P, "}") ELSE Block(Stmt(P))
Paren(P) == Expect(Expr(Expect(P, "(")), ")")

If(P) ==
    LET A == Emit(Paren(P), "jz", 0)
        B == Stmt(A)
        C == Emit(Skip(B), "jmp", 0)
    IN IF Is(B, "else") THEN Patch(Stmt(Patch(C, At(A))), At(C)) ELSE Patch(B, At(A))

While(P) ==
    LET A == Emit(Paren(P), "jz", 0)
        B == Continues(Stmt(Open(A, TRUE)), At(P) + 1)
    IN Breaks(Patch(Emit(B, "jmp", At(P) + 1), At(A)))

\* for: continue goes to the increment, which is emitted before the body.
ContinueTo(top, inc) == inc
For(P) ==
    LET I == Expect(P, "(")
        A == IF IsType(I) THEN LocalDecl(I) ELSE IF Is(I, ";") THEN Skip(I) ELSE Expect(Expr(I), ";")
        C == IF Is(A, ";") THEN A ELSE Emit(Expr(A), "jz", 0)
        J == Emit(Expect(C, ";"), "jmp", 0)
        N == Emit(IF Is(J, ")") THEN J ELSE Expr(J), "jmp", At(A) + 1)
        B == Stmt(Open(Patch(Expect(N, ")"), At(J)), TRUE))
        X == Emit(Continues(B, ContinueTo(At(A) + 1, At(J) + 1)), "jmp", At(J) + 1)
        Y == IF Is(A, ";") THEN X ELSE Patch(X, At(C))
    IN [Breaks(Y) EXCEPT !.locs = SubSeq(@, 1, Len(P.locs))]

\* switch: the arms first, each with where it starts; the dispatch after them.
RECURSIVE Arms(_, _)
Arms(P, S) ==
    CASE Is(P, "}") \/ P.t = <<>> \/ P.err -> [p |-> Expect(P, "}"), s |-> S]
      [] Is(P, "case") -> Arms(Expect(Skip(Skip(P)), ":"),
                               [S EXCEPT !.cases = Append(@, <<Tk(Skip(P)).v, At(P) + 1>>)])
      [] Is(P, "default") -> Arms(Expect(Skip(IF S.def # 0 THEN Bad(P) ELSE P), ":"), [S EXCEPT !.def = At(P) + 1])
      [] OTHER -> Arms(Stmt(P), S)
RECURSIVE Dispatch(_, _, _)
Dispatch(P, slot, cs) ==
    IF cs = <<>> THEN P
    ELSE Dispatch(Emit(Emit(Emit(P, "fill", slot), "cmpi", Head(cs)[1]), "je", Head(cs)[2]), slot, Tail(cs))
Switch(P) ==
    LET slot == -(P.frame + 8)
        A == Paren(P)
        D == Emit(Emit([A EXCEPT !.frame = @ + 8], "spill", -(A.frame + 8)), "jmp", 0)
        r == Arms(Expect(Open(D, FALSE), "{"), [cases |-> <<>>, def |-> 0])
        E == Emit(r.p, "jmp", 0)
        F == Dispatch(Patch(E, At(D)), -(A.frame + 8), r.s.cases)
    IN Breaks(Patch(IF r.s.def # 0 THEN Emit(F, "jmp", r.s.def) ELSE F, At(E)))

Loops(P) == {j \in 1..Len(P.brks) : P.brks[j].loop}
Break(P) ==
    LET J == Emit(Expect(P, ";"), "jmp", 0)
    IN IF P.brks = <<>> THEN Bad(Expect(P, ";")) ELSE [J EXCEPT !.brks[Len(P.brks)].b = @ \cup {At(J)}]
Continue(P) ==
    LET J == Emit(Expect(P, ";"), "jmp", 0)
    IN IF Loops(P) = {} THEN Bad(Expect(P, ";")) ELSE [J EXCEPT !.brks[Latest(Loops(P))].c = @ \cup {At(J)}]

Stmt(P) ==
    CASE Is(P, "{") -> Block(Skip(P))
      [] IsType(P) -> LocalDecl(P)
      [] Is(P, "return") -> LET Q == Skip(P)
                            IN Emit(Expect(IF Is(Q, ";") THEN Emit(Q, "imm", 0) ELSE Expr(Q), ";"), "ret", 0)
      [] Is(P, "if") -> If(Skip(P))
      [] Is(P, "while") -> While(Skip(P))
      [] Is(P, "for") -> For(Skip(P))
      [] Is(P, "switch") -> Switch(Skip(P))
      [] Is(P, "break") -> Break(Skip(P))
      [] Is(P, "continue") -> Continue(Skip(P))
      [] Is(P, ";") -> Skip(P)
      [] OTHER -> Expect(Expr(P), ";")

------------------------------------------------------------------------------
(* The top level, and the whole compilation.                               *)

RECURSIVE Params(_), Toplevel(_)
Params(P) ==
    IF Is(P, ")") THEN Skip(P)
    ELSE LET t == ParseType(P)
             d == Stars(t.p, 0)
             v == Declared(P, t.ty, Tk(d.p).v, d.n, 0, -(P.frame + 8))
             Q == Skip([IF v.st # "" /\ v.ptr = 0 THEN Bad(d.p) ELSE d.p
                           EXCEPT !.frame = @ + 8, !.locs = Append(@, v)])
         IN IF Is(Q, ",") THEN Params(Skip(Q)) ELSE Expect(Q, ")")

RECURSIVE Saves(_, _)
Saves(P, n) == IF n > Len(P.locs) \/ n > 6 THEN P ELSE Saves(Emit(P, "save", <<n, P.locs[n].off>>), n + 1)

\* A prototype declares nothing; a second definition is refused.
Function(P, name) ==
    LET A == Params([Skip(P) EXCEPT !.locs = <<>>, !.frame = 0])
        B == IF name \in DOMAIN A.syms THEN Bad(A) ELSE A
        C == Emit([B EXCEPT !.syms = With(@, name, Scalar(name, At(P) + 1))], "enter", 0)
        D == Block(Expect(Saves(C, 1), "{"))
        E == Emit(Emit(D, "imm", 0), "ret", 0)
    IN IF Is(A, ";") THEN [Skip(A) EXCEPT !.locs = <<>>, !.frame = 0]
       ELSE IF At(C) > At(B) THEN [E EXCEPT !.code[At(C)][2] = UpTo(D.frame, 16)] ELSE E

Global(P, ty, ptr, name) ==
    LET sz == IF ptr > 0 THEN 8 ELSE ty.size
        a == ArraySize(P)
        cells == IF a.n = 0 THEN 1 ELSE a.n
        off == UpTo(P.dlen, AlignOf(P, ty.st, ptr, sz))
        cell == IF ty.st # "" /\ ptr = 0 THEN ty.size ELSE 8
        given == Is(a.p, "=")
        Q == IF given THEN Skip(Skip(a.p)) ELSE a.p
        R == [IF name \in DOMAIN P.syms THEN Bad(Q) ELSE Q EXCEPT
                !.syms = With(@, name, Declared(P, ty, name, ptr, a.n, off)), !.dlen = off + cells * cell,
                !.data = Append(@, <<off, IF given THEN Tk(Skip(a.p)).v ELSE 0>>)]
    IN Expect(R, ";")

Toplevel(P) ==
    IF P.t = <<>> \/ P.err THEN P
    ELSE IF ~IsType(P) THEN Bad(P)
    ELSE LET t == ParseType(P)
             d == Stars(t.p, 0)
             Q == Skip(d.p)
         IN IF Is(t.p, ";") THEN Toplevel(Skip(t.p))
            ELSE IF ~IsId(d.p) THEN Bad(d.p)
            ELSE IF Is(Q, "(") THEN Toplevel(Function(Q, Tk(d.p).v))
            ELSE Toplevel(Global(Q, t.ty, d.n, Tk(d.p).v))

\* Every call gets the address of what it names; a name nobody defined is an
\* error, and so is a program without main.
Fixed(P) ==
    LET lost == {f \in P.fixes : f[2] \notin DOMAIN P.syms}
        To(j) == {f \in P.fixes : f[1] = j}
        Addr(j) == P.syms[(CHOOSE f \in To(j) : TRUE)[2]].off
    IN IF lost # {} THEN Bad(P)
       ELSE [P EXCEPT !.code = [j \in 1..Len(@) |-> IF To(j) # {} THEN <<"call", Addr(j)>> ELSE @[j]]]

Compile(file, toks) ==
    LET S == Preprocess(file)
        P == Emit(Emit(P0(S.text \o toks), "call", 0), "exit", 0)
        Q == Toplevel([P EXCEPT !.fixes = {<<1, "main">>}, !.err = S.err])
    IN IF Q.err THEN Q ELSE Fixed(Q)

------------------------------------------------------------------------------
(* The program that was emitted, on the machine.                           *)

Bytes(mem, a, n) ==
    LET Add(k, acc) == mem[a + k - 1] + Byte * acc
    IN FoldRight(Add, [k \in 1..n |-> k], 0)
RECURSIVE Power(_)
Power(k) == IF k = 0 THEN 1 ELSE Byte * Power(k - 1)
Stored(mem, a, n, v) ==
    [x \in DOMAIN mem |-> IF x \in a..(a + n - 1) THEN (v \div Power(x - a)) % Byte ELSE mem[x]]
Inside(a, n) == a + n <= Top

Truth(b) == IF b THEN 1 ELSE 0
Quot(a, b) == LET q == (IF a < 0 THEN -a ELSE a) \div (IF b < 0 THEN -b ELSE b)
              IN IF (a < 0) = (b < 0) THEN q ELSE -q
Pow2(n) == 2 ^ n
\* x op y on words, by magnitude or as two's complement.
Compute(op, x, y, u) ==
    LET a == IF u THEN x ELSE Signed(x)
        b == IF u THEN y ELSE Signed(y)
    IN CASE op = "+" -> (x + y) % W
         [] op = "-" -> (x - y) % W
         [] op = "*" -> (Signed(x) * Signed(y)) % W
         [] op = "/" -> Quot(a, b) % W
         [] op = "%" -> (a - b * Quot(a, b)) % W
         [] op = "<<" -> (x * Pow2(y % 8)) % W
         [] op = ">>" -> (a \div Pow2(y % 8)) % W
         [] op = "&" -> x & y
         [] op = "|" -> x | y
         [] op = "^" -> x ^^ y
         [] op = "==" -> Truth(x = y)
         [] op = "!=" -> Truth(x # y)
         [] op = "<" -> Truth(a < b)
         [] op = ">" -> Truth(a > b)
         [] op = "<=" -> Truth(a <= b)
         [] op = ">=" -> Truth(a >= b)
ALU == UNION {Levels[l] : l \in 3..10}

Halt(s) == m' = [m EXCEPT !.st = s]
Go(n) == m' = [n EXCEPT !.pc = @ + 1]
Jump(to) == m' = [m EXCEPT !.pc = to]

Step ==
    LET op == out.code[m.pc][1]
        x == out.code[m.pc][2]
        top == Last1(m.stk)
        Popped == [m EXCEPT !.stk = Front(@)]
        Slot == (m.bp + x) % W
    IN /\ m.st = "running"
       /\ UNCHANGED <<prog, out>>
       /\ IF m.pc \notin DOMAIN out.code THEN Halt("fault")
          ELSE CASE op = "imm" -> Go([m EXCEPT !.ax = x % W])
                 [] op = "push" -> Go([m EXCEPT !.stk = Append(@, m.ax)])
                 [] op = "add2" -> Go([Popped EXCEPT !.ax = (top + m.ax) % W])
                 [] op = "addi" -> Go([m EXCEPT !.ax = (@ + x) % W])
                 [] op = "muli" -> Go([m EXCEPT !.ax = (@ * x) % W])
                 [] op = "lea" -> Go([m EXCEPT !.ax = Slot])
                 [] op = "load" -> IF Inside(m.ax, x) THEN Go([m EXCEPT !.ax = Bytes(m.mem, m.ax, x)]) ELSE Halt("fault")
                 [] op = "store" -> IF Inside(top, x) THEN Go([Popped EXCEPT !.mem = Stored(@, top, x, m.ax)]) ELSE Halt("fault")
                 [] op = "neg" -> Go([m EXCEPT !.ax = (-@) % W])
                 [] op = "setz" -> Go([m EXCEPT !.ax = Truth(@ = 0)])
                 [] op = "jz" -> Jump(IF m.ax = 0 THEN x ELSE m.pc + 1)
                 [] op = "jnz" -> Jump(IF m.ax # 0 THEN x ELSE m.pc + 1)
                 [] op = "jmp" -> Jump(x)
                 [] op = "cmpi" -> Go([m EXCEPT !.zf = m.ax = x % W])
                 [] op = "je" -> Jump(IF m.zf THEN x ELSE m.pc + 1)
                 [] op = "spill" -> Go([m EXCEPT !.mem = Stored(@, Slot, 8, m.ax)])
                 [] op = "fill" -> Go([m EXCEPT !.ax = Bytes(m.mem, Slot, 8)])
                 [] op = "arg" -> Go([Popped EXCEPT !.regs = With(@, x, top)])
                 [] op = "save" -> Go([m EXCEPT !.mem = Stored(@, m.bp + x[2], 8,
                                         IF x[1] \in DOMAIN m.regs THEN m.regs[x[1]] ELSE 0)])
                 [] op = "call" -> m' = [m EXCEPT !.calls = Append(@, <<m.pc + 1, m.bp>>), !.pc = x]
                 [] op = "enter" -> IF m.sp - x < 0 THEN Halt("fault") ELSE Go([m EXCEPT !.bp = m.sp, !.sp = @ - x])
                 [] op = "ret" -> m' = [m EXCEPT !.sp = m.bp, !.pc = Last1(m.calls)[1],
                                                 !.bp = Last1(m.calls)[2], !.calls = Front(@)]
                 [] op = "exit" -> Halt("done")
                 [] op \in ALU -> IF op \in {"/", "%"} /\ m.ax = 0 THEN Halt("fault")
                                  ELSE Go([Popped EXCEPT !.ax = Compute(op, top, m.ax, x = 1)])

------------------------------------------------------------------------------
(* The language: what a program given as a tree is written like, and what  *)
(* it returns. An expression is a number, a name, an operation, an element *)
(* of an array, a member, a call, an assignment or a sizeof.               *)

LevelOf(e) == IF e[1] = "bin" THEN CHOOSE l \in 1..10 : e[2] \in Levels[l] ELSE IF e[1] = "asg" THEN 0 ELSE 11

RECURSIVE Text(_), Wrapped(_, _), Listed(_)
Wrapped(e, l) == IF LevelOf(e) < l THEN <<Op("(")>> \o Text(e) \o <<Op(")")>> ELSE Text(e)
Listed(es) == IF es = <<>> THEN <<>>
              ELSE Text(Head(es)) \o (IF Len(es) = 1 THEN <<>> ELSE <<Op(",")>>) \o Listed(Tail(es))
Text(e) ==
    CASE e[1] = "num" -> <<Num(e[2])>>
      [] e[1] = "var" -> <<Id(e[2])>>
      [] e[1] = "bin" -> Wrapped(e[3], LevelOf(e)) \o <<Op(e[2])>> \o Wrapped(e[4], LevelOf(e) + 1)
      [] e[1] \in {"-", "!", "&", "*"} -> <<Op(e[1])>> \o Wrapped(e[2], 11)
      [] e[1] = "sizeof" -> <<Op("sizeof")>> \o Wrapped(e[2], 11)
      [] e[1] = "idx" -> <<Id(e[2]), Op("[")>> \o Text(e[3]) \o <<Op("]")>>
      [] e[1] \in {".", "->"} -> <<Id(e[2]), Op(e[1]), Id(e[3])>>
      [] e[1] = "asg" -> Text(e[2]) \o <<Op("=")>> \o Text(e[3])
      [] e[1] = "call" -> <<Id(e[2]), Op("(")>> \o Listed(e[3]) \o <<Op(")")>>

RECURSIVE Lines(_), Line(_)
Lines(ss) == FlattenSeq([j \in 1..Len(ss) |-> Line(ss[j])])
Semi == <<Op(";")>>
Line(s) ==
    CASE s[1] = "expr" -> Text(s[2]) \o Semi
      [] s[1] = "return" -> <<Op("return")>> \o Text(s[2]) \o Semi
      [] s[1] = "let" -> s[2] \o <<Id(s[3])>> \o (IF s[4] = 0 THEN <<>> ELSE <<Op("["), Num(s[4]), Op("]")>>) \o Semi
      [] s[1] = "if" -> Ops(<<"if", "(">>) \o Text(s[2]) \o Ops(<<")", "{">>) \o Lines(s[3])
                          \o Ops(<<"}", "else", "{">>) \o Lines(s[4]) \o Ops(<<"}">>)
      [] s[1] = "while" -> Ops(<<"while", "(">>) \o Text(s[2]) \o Ops(<<")", "{">>) \o Lines(s[3]) \o Ops(<<"}">>)
      [] s[1] = "for" -> Ops(<<"for", "(">>) \o Text(s[2]) \o Semi \o Text(s[3]) \o Semi \o Text(s[4])
                          \o Ops(<<")", "{">>) \o Lines(s[5]) \o Ops(<<"}">>)
      [] s[1] = "switch" -> Ops(<<"switch", "(">>) \o Text(s[2]) \o Ops(<<")", "{">>) \o Lines(s[3]) \o Ops(<<"}">>)
      [] s[1] = "case" -> <<Op("case"), Num(s[2]), Op(":")>>
      [] OTHER -> IF s[1] = "default" THEN Ops(<<"default", ":">>) ELSE Ops(<<s[1], ";">>)

\* A function is its name, its parameters and its statements.
Source(fs) == FlattenSeq([j \in 1..Len(fs) |->
    <<Op("int"), Id(fs[j][1]), Op("(")>>
      \o FlattenSeq([k \in 1..Len(fs[j][2]) |->
            (IF k = 1 THEN <<>> ELSE <<Op(",")>>) \o <<Op("int"), Id(fs[j][2][k])>>])
      \o Ops(<<")", "{">>) \o Lines(fs[j][3]) \o Ops(<<"}">>)])

\* E: the words of every object by name and position, their types, the signal
\* that ends a statement, and the value returned. A pointer is a name.
RECURSIVE Eval(_, _, _), Exec(_, _, _), ExecAll(_, _, _), EvalAll(_, _, _)
RECURSIVE IsU(_, _)
IsU(e, E) == CASE e[1] \in {"var", "idx"} -> E.ty[e[2]].u
               [] e[1] = "sizeof" -> TRUE
               [] e[1] = "bin" -> LevelOf(e) \notin {1, 2, 6, 7} /\ Unsigned(e[2], IsU(e[3], E), IsU(e[4], E))
               [] OTHER -> FALSE
Obj(E, x, i) == E.mem[x][i]
Put(E, x, i, v) == [E EXCEPT !.mem[x][i] = Cut(v, E.ty[x].size)]
Ret(E, v) == [E EXCEPT !.val = v]
EvalAll(fs, es, E) == IF es = <<>> THEN [E EXCEPT !.args = <<>>]
                      ELSE LET H == Eval(fs, Head(es), E)
                               R == EvalAll(fs, Tail(es), H)
                           IN [R EXCEPT !.args = <<H.val>> \o @]
Body1(fs, name) == CHOOSE f \in {fs[j] : j \in 1..Len(fs)} : f[1] = name
WordType == [u |-> FALSE, size |-> 8, n |-> 0]
Entered(E, ps, args) ==
    [E EXCEPT !.mem = [x \in DOMAIN E.mem \cup {ps[j] : j \in 1..Len(ps)} |->
                          IF \E j \in 1..Len(ps) : ps[j] = x
                          THEN [i \in {0} |-> args[CHOOSE j \in 1..Len(ps) : ps[j] = x]] ELSE E.mem[x]],
              !.ty = [x \in DOMAIN E.ty \cup {ps[j] : j \in 1..Len(ps)} |->
                          IF \E j \in 1..Len(ps) : ps[j] = x THEN WordType ELSE E.ty[x]],
              !.sig = "run"]
Eval(fs, e, E) ==
    CASE e[1] = "num" -> Ret(E, e[2] % W)
      [] e[1] = "var" -> Ret(E, Obj(E, e[2], 0))
      [] e[1] = "-" -> LET A == Eval(fs, e[2], E) IN Ret(A, (-A.val) % W)
      [] e[1] = "!" -> LET A == Eval(fs, e[2], E) IN Ret(A, Truth(A.val = 0))
      [] e[1] = "sizeof" -> LET t == E.ty[e[2][2]]
                            IN Ret(E, IF e[2][1] = "var" /\ t.n > 0 THEN t.n * t.size ELSE t.size)
      [] e[1] = "bin" /\ e[2] \in {"&&", "||"} ->
            LET A == Eval(fs, e[3], E)
                B == Eval(fs, e[4], A)
            IN IF (A.val = 0) = (e[2] = "&&") THEN Ret(A, Truth(A.val # 0)) ELSE Ret(B, Truth(B.val # 0))
      [] e[1] = "bin" ->
            LET A == Eval(fs, e[3], E)
                B == Eval(fs, e[4], A)
            IN IF e[2] \in {"/", "%"} /\ B.val = 0 THEN [B EXCEPT !.bad = TRUE]
               ELSE Ret(B, Compute(e[2], A.val, B.val, Unsigned(e[2], IsU(e[3], E), IsU(e[4], E))))
      [] e[1] = "idx" -> LET A == Eval(fs, e[3], E) IN Ret(A, Obj(A, e[2], A.val))
      [] e[1] = "." -> Ret(E, Obj(E, e[3], 0))
      [] e[1] = "->" -> Ret(E, Obj(E, e[3], 0))
      [] e[1] = "*" -> Ret(E, Obj(E, E.to[e[2][2]], 0))
      [] e[1] = "asg" /\ e[3][1] = "&" -> [E EXCEPT !.to = With(@, e[2][2], e[3][2][2])]
      [] e[1] = "asg" ->
            LET A == IF e[2][1] = "idx" THEN Eval(fs, e[2][3], E) ELSE E
                B == Eval(fs, e[3], A)
            IN CASE e[2][1] = "idx" -> Put(B, e[2][2], A.val, B.val)
                 [] e[2][1] \in {".", "->"} -> Put(B, e[2][3], 0, B.val)
                 [] e[2][1] = "*" -> Put(B, B.to[e[2][2][2]], 0, B.val)
                 [] OTHER -> Put(B, e[2][2], 0, B.val)
      [] e[1] = "call" ->
            LET A == EvalAll(fs, e[3], E)
                f == Body1(fs, e[2])
                R == ExecAll(fs, f[3], Entered([A EXCEPT !.val = 0], f[2], A.args))
            IN [R EXCEPT !.sig = "run", !.val = IF R.sig = "return" THEN @ ELSE 0,
                         !.mem = [x \in DOMAIN E.mem |-> IF x \in DOMAIN Globals THEN R.mem[x] ELSE A.mem[x]],
                         !.ty = E.ty]

\* The statements from the label that a switch selects.
Labels(ss, v) == LET hit == {j \in 1..Len(ss) : ss[j][1] = "case" /\ ss[j][2] % W = v}
                     def == {j \in 1..Len(ss) : ss[j][1] = "default"}
                 IN IF hit # {} THEN hit ELSE def
ExecAll(fs, ss, E) ==
    IF ss = <<>> \/ E.sig # "run" \/ E.bad THEN E ELSE ExecAll(fs, Tail(ss), Exec(fs, Head(ss), E))
Signal(E, s) == [E EXCEPT !.sig = s]
RECURSIVE Loop(_, _, _, _, _)
Loop(fs, c, ss, inc, E) ==
    LET A == Eval(fs, c, E)
        B == ExecAll(fs, ss, A)
    IN IF A.val = 0 \/ A.bad THEN A
       ELSE IF B.sig = "break" THEN Signal(B, "run")
       ELSE IF B.sig = "return" THEN B
       ELSE Loop(fs, c, ss, inc, Eval(fs, inc, Signal(B, "run")))
Exec(fs, s, E) ==
    CASE s[1] = "expr" -> Eval(fs, s[2], E)
      [] s[1] = "return" -> Signal(Eval(fs, s[2], E), "return")
      [] s[1] = "let" -> [E EXCEPT !.mem = With(@, s[3], [i \in 0..s[4] |-> 0]), !.ty = With(@, s[3], s[5])]
      [] s[1] = "if" -> LET A == Eval(fs, s[2], E) IN ExecAll(fs, IF A.val # 0 THEN s[3] ELSE s[4], A)
      [] s[1] = "while" -> Loop(fs, s[2], s[3], <<"num", 0>>, E)
      [] s[1] = "for" -> Loop(fs, s[3], s[5], s[4], Eval(fs, s[2], E))
      [] s[1] = "switch" ->
            LET A == Eval(fs, s[2], E)
                to == Labels(s[3], A.val)
                B == IF to = {} THEN A
                     ELSE ExecAll(fs, SubSeq(s[3], CHOOSE j \in to : \A k \in to : j <= k, Len(s[3])), A)
            IN IF B.sig = "break" THEN Signal(B, "run") ELSE B
      [] s[1] \in {"break", "continue"} -> Signal(E, s[1])
      [] OTHER -> E

Meaning(p) ==
    Eval(p.funs, <<"call", "main", <<>>>>,
         [mem |-> [x \in DOMAIN Globals |-> [i \in 0..Globals[x].n |-> IF x \in DOMAIN p.init THEN p.init[x] ELSE 0]], ty |-> Globals,
          to |-> [x \in {} |-> ""], sig |-> "run", val |-> 0, args |-> <<>>, bad |-> FALSE])

------------------------------------------------------------------------------

Unstarted == [pc |-> 1, ax |-> 0, zf |-> FALSE, stk |-> <<>>, regs |-> [x \in {} |-> 0], bp |-> Top, sp |-> Top,
              mem |-> [a \in 0..(Top - 1) |-> 0], calls |-> <<>>, st |-> "source"]
Loaded(P) == LET Put1(mem, d) == Stored(mem, d[1], 8, d[2])
             IN [Unstarted EXCEPT !.mem = FoldLeft(Put1, @, P.data), !.st = IF P.err THEN "refused" ELSE "running"]

Init == /\ prog \in Programs
        /\ out = P0(<<>>)
        /\ m = Unstarted

Build == /\ m.st = "source"
         /\ out' = Compiled(prog.file, Source(prog.funs))
         /\ m' = Loaded(out')
         /\ UNCHANGED prog

Next == Build \/ Step
Spec == Init /\ [][Next]_vars

\* Stack discipline: every value pushed is taken off again, every frame left.
Balanced == m.st = "done" => m.stk = <<>> /\ m.calls = <<>> /\ m.sp = Top

\* "Every value lives in a full register": a program that is accepted returns
\* what the language says, or faults where it divides by zero; and exactly the
\* programs that the language has are accepted.
CompiledRight ==
    LET M == Meaning(prog)
    IN /\ m.st = "done" => prog.legal /\ ~M.bad /\ m.ax = M.val
       /\ m.st = "fault" => M.bad
       /\ m.st = "refused" => ~prog.legal
       /\ Balanced

\* "`a = b`, `*p = v` and `a[i] = v` all fall out of the same assignment path."
StoresThrough == m.st = "done" => m.ax = Meaning(prog).val
===============================================================================
