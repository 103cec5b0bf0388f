-------------------------- MODULE FixInstructions --------------------------
(***************************************************************************)
(* Moving the first instructions of a hooked function to a trampoline      *)
(* (lib/hook/nx64/nx_hook.cpp).  An instruction that names an address      *)
(* relative to its own gets a new distance, or is spelled out with the     *)
(* absolute address behind it; a jump to the rest of the function follows. *)
(*                                                                         *)
(* Addresses and distances count words of 4 bytes, the size of an          *)
(* instruction; only adr names a byte in a word.  A step moves one         *)
(* instruction.                                                            *)
(***************************************************************************)
EXTENDS Integers, Sequences

CONSTANTS
  Hooks,      \* functions to hook: where they are, where their trampoline is
              \* executed, and the instructions the patch overwrites
  RwShift     \* how far from where it is executed a trampoline is written

Kinds ==
  { "plain",  \* names no address
    "b", "bl",
    "cond",   \* b.c, cbz, cbnz
    "test",   \* tbz, tbnz
    "ldr",    \* ldr label, ldrsw
    "prfm",   \* prefetch
    "adr", "adrp" }

Widths == {"w", "x", "sw", "s", "d", "q"}

\* An instruction: the distance it names (in pages for adrp), the byte and the
\* register of adr, the width of ldr.
Insns == [kind : Kinds, imm : Int, byte : 0..3, rd : 0..31, width : Widths]

MaxInstructions == 5

\* mutant: room for eight words an instruction
TrampolineSizeEight == MaxInstructions * 8

TrampolineSize == MaxInstructions * 10

\* Functions start somewhere, with any instructions; the trampolines are
\* mapped twice, at places apart.
ASSUME HooksAssumption ==
  /\ \A h \in Hooks : h.base \in Nat /\ h.out \in Nat /\ h.program \in Seq(Insns)
  /\ RwShift \in Int \ (-TrampolineSize)..TrampolineSize

VARIABLES
  program,    \* the instructions to move
  base,       \* where the function starts
  out,        \* where the trampoline is executed
  words,      \* the trampoline so far
  dat,        \* where each moved instruction starts (ctx.dat[].ins)
  fmap,       \* references to instructions not yet moved (ctx.dat[].fmap)
  done        \* the jump to the rest is written

vars == <<program, base, out, words, dat, fmap, done>>

\* A word of the trampoline: what it does, the instruction or the address it
\* is about, the distance it names, and byte, register and width as above.
Ops == Kinds \cup {"nop", "ldr_x17", "br_x17", "adr_x30", "ldr_rd",
                   "address", "memory", "none"}
Words == [op : Ops, of : Int, off : Int, byte : 0..3, rd : 0..31,
          width : Widths \cup {"invalid"}]

Word(op, of, off) ==
  [op |-> op, of |-> of, off |-> off, byte |-> 0, rd |-> 0, width |-> "x"]

Nop == Word("nop", 0, 0)

Nops(n) == [j \in 1..n |-> Nop]

Address(a, byte) ==
  <<[Word("address", a, 0) EXCEPT !.byte = byte],
    [Word("address", a, 1) EXCEPT !.byte = byte]>>

Memory(a, n) == [j \in 1..n |-> Word("memory", a + j - 1, 0)]

LongJump(a) ==
  <<Word("ldr_x17", 0, 2), Word("br_x17", 0, 0)>> \o Address(a, 0)

LongCall(a) ==
  <<Word("ldr_x17", 0, 3), Word("adr_x30", 0, 4), Word("br_x17", 0, 0)>>
    \o Address(a, 0)

LongLoad(k, a, byte) ==
  <<Word("ldr_rd", k, 2), Word("b", 0, 3)>> \o Address(a, byte)

-----------------------------------------------------------------------------
(* Where the next instruction is, and where it goes *)

Count  == Len(program)
idx    == Len(dat)
insn   == program[idx + 1]
inprx  == base + idx
outprx == out + Len(words)

is_in_fixing_range(a) == a \in base..(base + Count - 1)

\* An instruction moved: the padding before it, where it is said to start, its
\* words, and its reference to an instruction that is not yet moved.
Moved(pad, start, ws) ==
  [pad |-> pad, start |-> start, ws |-> ws, ref |-> {}]

\* mutant: the reference is noted behind the word that holds it
ReferBehind(a, w) ==
  [Moved(0, outprx, <<w>>) EXCEPT
     !.ref = {[to |-> a - base, at |-> Len(words) + 2]}]

\* w names address a, which moves too: where that is now, if it has moved.
Refer(a, w) ==
  LET j == a - base
  IN  IF j <= idx
        THEN Moved(0, outprx,
               <<[w EXCEPT !.off = Append(dat, outprx)[j + 1] - outprx]>>)
        ELSE [Moved(0, outprx, <<w>>) EXCEPT
               !.ref = {[to |-> j, at |-> Len(words) + 1]}]

\* w names address a: it is kept with the distance to what moved or, if it
\* can name it, to a itself, and is spelled out otherwise.
Rewrite(a, isNear, w, long) ==
  IF is_in_fixing_range(a) THEN Refer(a, w)
  ELSE IF isNear THEN Moved(0, outprx, <<[w EXCEPT !.off = a - outprx]>>)
  ELSE long

Within(a, limit) == a - outprx \in (1 - limit)..(limit - 1)

\* Padding to an even address.
Pad(x) == x % 2

fix_branch_imm ==
  LET a   == inprx + insn.imm
      pad == IF insn.kind = "b" THEN Pad(outprx) ELSE 1 - Pad(outprx)
  IN  Rewrite(a, Within(a, 2^25 - 1), Word(insn.kind, idx, 0),
        Moved(pad, outprx + pad,
              IF insn.kind = "b" THEN LongJump(a) ELSE LongCall(a)))

\* The distance is read without its sign.
fix_cond_comp_test_branch ==
  LET bits == IF insn.kind = "test" THEN 14 ELSE 19
      a    == inprx + (insn.imm % 2^bits)
  IN  Rewrite(a, Within(a, 2^(bits - 1) - 1), Word("cond", idx, 0),
        Moved(Pad(outprx), outprx,
              <<Word("cond", idx, 2), Word("b", 0, 5)>> \o LongJump(a)))

\* The 32 bits of a distance in bytes are added without their sign.
Uint32(d) == d % 2^30

\* How many words the code copies for an ldr, and how many it loads.
CopiedWords(width) ==
  CASE width \in {"w", "s"} -> 1
    [] width \in {"x", "d", "sw"} -> 2
    [] width = "q" -> 4
LoadedWords(width) == IF width = "sw" THEN 1 ELSE CopiedWords(width)

\* A negative distance is not cut off where the width is encoded.
Encoded(width, off) ==
  IF off >= 0 \/ width = "sw" THEN width
  ELSE IF width \in {"w", "x"} THEN "x" ELSE "invalid"

Load(width, off) == [Word("ldr", idx, off) EXCEPT !.width = width]

fix_loadlit ==
  LET a    == inprx + Uint32(insn.imm)
      n    == CopiedWords(insn.width)
      copy == (-(outprx + 2)) % n
      keep == (a - outprx) % n
      off  == a - (outprx + keep)
  IN  IF is_in_fixing_range(a) \/ ~Within(a, 2^18 - n)
        THEN Moved(copy, outprx + copy,
               <<Load(insn.width, 2), Word("b", 0, 1 + n)>> \o Memory(a, n))
        ELSE Moved(keep, outprx + keep,
               <<Load(Encoded(insn.width, off), off)>>)

fix_prfm == Moved(0, outprx, <<>>)

\* The bits of both numbers, the second of which has bits 3 and 4 only.
Either(rd, byte) ==
  LET has(n, bit) == (n \div bit) % 2 = 1
  IN  rd + (IF has(byte, 1) /\ ~has(rd, 8) THEN 8 ELSE 0)
         + (IF has(byte, 2) /\ ~has(rd, 16) THEN 16 ELSE 0)

\* A byte in a word that does not move reaches into the bits of the register.
fix_adr ==
  LET a   == inprx + Uint32(insn.imm)
      d   == a - outprx
      isNear == d \in (-2^18)..(2^18 - 1)
                /\ 4 * d + insn.byte \in (2 - 2^20)..(2^20 - 2)
      rd  == IF is_in_fixing_range(a) THEN insn.rd
             ELSE Either(insn.rd, insn.byte)
  IN  Rewrite(a, isNear,
        [Word("adr", idx, 0) EXCEPT !.byte = insn.byte, !.rd = rd],
        Moved(Pad(outprx), outprx + Pad(outprx),
              LongLoad(idx, a, insn.byte)))

PageStart(a) == a - (a % 1024)

\* dat gets the address where the trampoline is written, unless padding sets
\* it again.
fix_adrp ==
  LET a    == PageStart(inprx) + Uint32(1024 * insn.imm)
      said == IF Pad(outprx) = 0 THEN outprx + RwShift ELSE outprx + 1
  IN  IF is_in_fixing_range(a)
        THEN Moved(0, outprx + RwShift, <<Word("adrp", idx, insn.imm)>>)
        ELSE Moved(Pad(outprx), said, LongLoad(idx, a, 0))

fix_none == Moved(0, outprx, <<Word("plain", idx, 0)>>)

Fixed ==
  CASE insn.kind \in {"b", "bl"} -> fix_branch_imm
    [] insn.kind \in {"cond", "test"} -> fix_cond_comp_test_branch
    [] insn.kind = "ldr" -> fix_loadlit
    [] insn.kind = "prfm" -> fix_prfm
    [] insn.kind = "adr" -> fix_adr
    [] insn.kind = "adrp" -> fix_adrp
    [] insn.kind = "plain" -> fix_none

-----------------------------------------------------------------------------
(* The steps *)

\* mutant: what a reference ahead names stays where the reference is
process_fix_map_none(ws, start) == ws

\* The references to the instruction that starts at start are filled in.
process_fix_map(ws, start) ==
  [j \in 1..Len(ws) |->
     IF \E r \in fmap : r.to = idx /\ r.at = j
       THEN [ws[j] EXCEPT !.off = start - (out + j - 1)]
       ELSE ws[j]]

\* HookFuncImpl overwrites one instruction where a branch reaches the callback,
\* else four, or five with padding.
Overwritten(b) == IF b % 2 = 0 THEN {1, 4} ELSE {1, 5}

Init ==
  /\ \E h \in Hooks :
       /\ Len(h.program) \in Overwritten(h.base)
       /\ program = h.program
       /\ base = h.base
       /\ out = h.out
  /\ words = <<>>
  /\ dat = <<>>
  /\ fmap = {}
  /\ done = FALSE

MoveInstruction ==
  /\ idx < Count
  /\ LET m == Fixed
     IN  /\ words' = process_fix_map(words \o Nops(m.pad) \o m.ws, m.start)
         /\ dat' = Append(dat, m.start)
         /\ fmap' = fmap \cup m.ref
  /\ UNCHANGED <<program, base, out, done>>

JumpBack ==
  /\ idx = Count /\ ~done
  /\ words' = words \o
       (IF Within(inprx, 2^25 - 1) THEN <<Word("b", 0, inprx - outprx)>>
        ELSE Nops(Pad(outprx)) \o LongJump(inprx))
  /\ done' = TRUE
  /\ UNCHANGED <<program, base, out, dat, fmap>>

Next == MoveInstruction \/ JumpBack

Spec == Init /\ [][Next]_vars

-----------------------------------------------------------------------------
(* What the trampoline does when it is executed *)

InTrampoline(x) == x \in out..(outprx - 1)
At(x) == IF InTrampoline(x) THEN words[x - out + 1] ELSE Word("none", 0, 0)

\* Where execution gets from address x by one jump or one word of padding.
Hop(x) == LET w == At(x)
          IN  CASE w.op = "nop" -> x + 1
                [] w.op = "b" -> x + w.off
                [] w.op = "ldr_x17" /\ At(x + 1).op = "br_x17" -> At(x + w.off).of
                [] OTHER -> x

Hops4(x)  == Hop(Hop(Hop(Hop(x))))
Hops12(x) == IF Hop(x) = x THEN x ELSE Hops4(Hops4(Hops4(x)))

\* Where execution gets from x before it does anything else.  No path through a
\* trampoline has more jumps and padding, but for one that never ends.
Follow(x) == Hops12(Hops12(x))

Original(a) == program[a - base + 1]

\* The same of the function as it was; a prefetch does nothing.
Pass(a) == IF ~is_in_fixing_range(a) THEN a
           ELSE CASE Original(a).kind = "b" -> a + Original(a).imm
                  [] Original(a).kind = "prfm" -> a + 1
                  [] OTHER -> a

\* As many times as there are instructions at most.
Arrive(a) == Pass(Pass(Pass(Pass(Pass(a)))))

\* Where instruction k has moved to, executed.
StartOf(k) ==
  LET x == dat[k + 1]
  IN  Follow(IF InTrampoline(x - RwShift) THEN x - RwShift ELSE x)

\* Going on at x in the trampoline is going on at a in the function.  (A loop
\* of nothing but branches and prefetches goes nowhere.)
GoesOnAt(x, a) ==
  LET t == Arrive(a)
  IN  IF ~is_in_fixing_range(t) THEN Follow(x) = t
      ELSE Original(t).kind \in {"b", "prfm"} \/ Follow(x) = StartOf(t - base)

\* The words at x, or those copied there, are the n words at a.
Holds(x, a, n) ==
  \A j \in 0..(n - 1) :
    IF InTrampoline(x + j)
      THEN At(x + j) = Word("memory", a + j, 0)
      ELSE x + j = a + j

HoldsAddress(x, a, byte) ==
  \A half \in {1, 2} : At(x + half - 1) = Address(a, byte)[half]

\* Instruction k, moved, does what it did in the function.
DoesAsBefore(k) ==
  LET i     == program[k + 1]
      a     == base + k
      x     == StartOf(k)
      w     == At(x)
      to    == a + i.imm
      page  == PageStart(a) + 1024 * i.imm
      itIs(op)    == w.op = op /\ w.of = k
      thenOn(n)   == GoesOnAt(x + n, a + 1)
      loads(v, b) == itIs("ldr_rd") /\ HoldsAddress(x + w.off, v, b)
  IN  CASE i.kind = "plain" -> itIs("plain") /\ thenOn(1)
        [] i.kind \in {"b", "prfm"} -> GoesOnAt(dat[k + 1], a)
        [] i.kind = "bl" ->
             \/ itIs("bl") /\ GoesOnAt(x + w.off, to) /\ thenOn(1)
             \/ /\ w.op = "ldr_x17" /\ HoldsAddress(x + w.off, to, 0)
                /\ At(x + 1).op = "adr_x30" /\ At(x + 2).op = "br_x17"
                /\ thenOn(1 + At(x + 1).off)
        [] i.kind \in {"cond", "test"} ->
             itIs("cond") /\ GoesOnAt(x + w.off, to) /\ thenOn(1)
        [] i.kind = "ldr" ->
             /\ itIs("ldr") /\ w.width = i.width
             /\ Holds(x + w.off, to, LoadedWords(i.width))
             /\ thenOn(1)
        [] i.kind = "adr" ->
             /\ thenOn(1)
             /\ \/ loads(to, i.byte)
                \/ /\ itIs("adr") /\ w.rd = i.rd /\ w.byte = i.byte
                   /\ IF is_in_fixing_range(to) THEN GoesOnAt(x + w.off, to)
                      ELSE x + w.off = to
        [] i.kind = "adrp" ->
             /\ thenOn(1)
             /\ \/ loads(page, 0)
                \/ itIs("adrp") /\ PageStart(x) + 1024 * w.off = page

-----------------------------------------------------------------------------
(* Properties *)

\* The model's variables keep their types.
TypeOK ==
  /\ program \in Seq(Insns)
  /\ base \in Nat /\ out \in Nat
  /\ words \in Seq(Words)
  /\ dat \in Seq(Int) /\ Len(dat) <= Len(program)
  /\ \A r \in fmap : r.to \in 0..(Count - 1) /\ r.at \in 1..Len(words)
  /\ done \in BOOLEAN

Pool == out..(out + TrampolineSize - 1)

\* What the code can move.  A distance without its sign is ahead.  Nothing but
\* the trampoline is where the trampoline is, and an adrp that moves, whose
\* start is known by where it is written, is not jumped to.  An adrp's page
\* stays.  A load that is near is ahead, unless it is an ldrsw, and an adr that
\* is near keeps its register.
Movable(k) ==
  LET i  == program[k + 1]
      to == base + k + i.imm
      d  == to - out
      moves    == is_in_fixing_range(to)
      isAdrp   == moves /\ Original(to).kind = "adrp"
      ahead(n) == i.imm \in 0..(n - 1)
  IN  CASE i.kind \in {"b", "bl"} -> ~isAdrp /\ (moves \/ to \notin Pool)
        [] i.kind = "cond" -> ahead(2^18) /\ ~isAdrp /\ (moves \/ to \notin Pool)
        [] i.kind = "test" -> ahead(2^13) /\ ~isAdrp /\ (moves \/ to \notin Pool)
        [] i.kind = "ldr" ->
             /\ ahead(2^18)
             /\ \/ moves
                \/ d >= TrampolineSize
                \/ d < (IF i.width = "sw" THEN 0 ELSE -2^18)
        [] i.kind = "adr" ->
             /\ ahead(2^18) /\ ~isAdrp
             /\ \/ moves
                \/ Either(i.rd, i.byte) = i.rd
                \/ d >= TrampolineSize + 2^18
                \/ d < -2^18
        [] i.kind = "adrp" ->
             /\ ahead(2^20)
             /\ ~is_in_fixing_range(PageStart(base + k) + 1024 * i.imm)
        [] i.kind \in {"plain", "prfm"} -> TRUE

Supported ==
  /\ base + Count \notin Pool
  /\ \A k \in 0..(Count - 1) : Movable(k)

\* Calling the trampoline of a function whose start the code can move does what
\* calling the function did before it was hooked: it begins with the first
\* instruction, each instruction that moved reads, computes and calls what it
\* did and goes on where it did, and the last goes on in the function behind
\* the patch.
TrampolineIsFunction ==
  done /\ Supported => /\ GoesOnAt(out, base)
                       /\ \A k \in 0..(Count - 1) : DoesAsBefore(k)

\* Whatever a function starts with, its trampoline, padding, copied memory and
\* the jump back included, does not reach into the next one of the pool.
FitsTrampoline == Len(words) <= TrampolineSize

MovedAsBefore(kinds) ==
  done => \A k \in 0..(Count - 1) :
            program[k + 1].kind \in kinds => DoesAsBefore(k)

\* What the handlers say they move ("b.c" ADDR_PCREL19, LDR Wt/Xt, label |
\* ADDR_PCREL19, "Load a PC-relative address into a register"): a branch, a
\* load or an adr relative to its own address names what it named.  (It does
\* not if that was behind it.)
RelativeAsBefore == MovedAsBefore({"cond", "test", "ldr", "adr"})
=============================================================================
