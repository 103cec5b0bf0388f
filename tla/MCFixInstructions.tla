------------------------- MODULE MCFixInstructions -------------------------
(***************************************************************************)
(* Functions to hook for TLC.  The limits of the instructions are the real *)
(* ones; the code is in the middle of the numbers TLC has.                 *)
(***************************************************************************)
EXTENDS FixInstructions

\* An even and an odd start, just before the end of a page.
Even == 2^26 + 1020
Odd  == Even + 1

Insn(kind, imm) ==
  [kind |-> kind, imm |-> imm, byte |-> 0, rd |-> 1, width |-> "x"]
Adr(imm, byte)  == [Insn("adr", imm) EXCEPT !.byte = byte]
Ldr(width, imm) == [Insn("ldr", imm) EXCEPT !.width = width]

\* Where trampolines are: the pool is a page, and a trampoline has 50 words.
\* From the first every instruction reaches the function, from the second only
\* branches without a condition do, from the last none does.
NearPool == 2^26 - 1024
MidPool  == 2^26 - 2^19 + 50
FarPool  == 2^27 + 100

\* The instructions at a time: with references to each other, with references
\* back, and a few for the longer starts.
Common == {Insn("plain", 0), Insn("prfm", 0), Insn("b", 2), Insn("b", 100),
           Insn("bl", 100), Insn("cond", 3), Insn("test", 1), Insn("cond", 50),
           Ldr("w", 64), Ldr("q", 65), Ldr("x", 1), Insn("adrp", 3),
           Adr(2, 2)}
Backward == {Insn("b", -1), Insn("bl", -2), Ldr("sw", 64), Ldr("s", 65),
             Ldr("d", 66), Adr(1, 0), Insn("test", 60), Insn("adrp", 0)}
Few == {Insn("prfm", 0), Insn("b", 2), Insn("cond", 1), Insn("bl", 100),
        Ldr("q", 65), Adr(64, 0), Insn("adrp", 3)}

Programs(n, kinds) == [1..n -> kinds]

Hooked(programs, b, outs) == [program : programs, base : {b}, out : outs]

Pools == {NearPool, MidPool, FarPool}

MCHooks ==
  Hooked(Programs(4, Common), Even, Pools)
  \cup Hooked(Programs(4, Backward), Even, Pools)
  \cup Hooked(Programs(5, Few), Odd, Pools)
  \cup UNION {Hooked(Programs(1, Common \cup Backward), b, Pools) :
                b \in {Even, Odd}}

\* Functions that branch back to before what moves, or that load or compute
\* what is there.
Behind == {Insn("plain", 0), Insn("cond", -20), Insn("test", -20),
           Ldr("x", -20), Adr(-20, 0)}

MCBehind == Hooked(Programs(4, Behind), Even, {FarPool})
=============================================================================
