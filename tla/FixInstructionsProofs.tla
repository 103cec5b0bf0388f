----------------------- MODULE FixInstructionsProofs -----------------------
(***************************************************************************)
(* Proofs about trampolines, for every function that is hooked: wherever   *)
(* it and its trampoline are, and whatever instructions it starts with.    *)
(* Bounded counts its words, so that a trampoline has room for them; Laid  *)
(* says which words lie where, from which it follows that a trampoline     *)
(* works as the function did.                                              *)
(***************************************************************************)
EXTENDS FixInstructions, SequenceTheorems, TLAPS

-----------------------------------------------------------------------------
(* The words that moved instructions are made of *)

LEMMA WordType ==
  ASSUME NEW op \in Ops, NEW of \in Int, NEW off \in Int
  PROVE  Word(op, of, off) \in Words
BY DEF Word, Words, Widths

LEMMA NopsType ==
  ASSUME NEW n \in Nat
  PROVE  Nops(n) \in Seq(Words) /\ Len(Nops(n)) = n
<1>1. Nop \in Words
  BY WordType DEF Nop, Ops, Kinds
<1>2. QED
  BY <1>1 DEF Nops

LEMMA Concatenation ==
  ASSUME NEW s \in Seq(Words), NEW t \in Seq(Words)
  PROVE  s \o t \in Seq(Words) /\ Len(s \o t) = Len(s) + Len(t)
OBVIOUS

LEMMA AddressType ==
  ASSUME NEW a \in Int, NEW byte \in 0..3
  PROVE  Address(a, byte) \in Seq(Words) /\ Len(Address(a, byte)) = 2
<1>1. \A half \in {0, 1} :
        [Word("address", a, half) EXCEPT !.byte = byte] \in Words
  BY DEF Word, Words, Widths, Ops
<1>2. QED
  BY <1>1 DEF Address

LEMMA MemoryType ==
  ASSUME NEW a \in Int, NEW n \in Nat
  PROVE  Memory(a, n) \in Seq(Words) /\ Len(Memory(a, n)) = n
<1>1. \A j \in 1..n : Word("memory", a + j - 1, 0) \in Words
  BY WordType DEF Ops
<1>2. QED
  BY <1>1 DEF Memory

LEMMA LongType ==
  ASSUME NEW a \in Int
  PROVE  /\ LongJump(a) \in Seq(Words) /\ Len(LongJump(a)) = 4
         /\ LongCall(a) \in Seq(Words) /\ Len(LongCall(a)) = 5
<1>1. Address(a, 0) \in Seq(Words) /\ Len(Address(a, 0)) = 2
  BY AddressType
<1>2. /\ Word("ldr_x17", 0, 2) \in Words /\ Word("br_x17", 0, 0) \in Words
      /\ Word("ldr_x17", 0, 3) \in Words /\ Word("adr_x30", 0, 4) \in Words
  BY WordType DEF Ops
<1>3. /\ LongJump(a) \in Seq(Words) /\ Len(LongJump(a)) = 4
  <2> DEFINE first == <<Word("ldr_x17", 0, 2), Word("br_x17", 0, 0)>>
  <2>1. first \in Seq(Words) /\ Len(first) = 2
    BY <1>2
  <2>2. LongJump(a) = first \o Address(a, 0)
    BY DEF LongJump
  <2> HIDE DEF first
  <2>3. /\ first \o Address(a, 0) \in Seq(Words)
        /\ Len(first \o Address(a, 0)) = Len(first) + Len(Address(a, 0))
    BY <1>1, <2>1, Concatenation
  <2>4. QED
    BY <1>1, <2>1, <2>2, <2>3
<1>4. LongCall(a) \in Seq(Words)
  <2> DEFINE first ==
        <<Word("ldr_x17", 0, 3), Word("adr_x30", 0, 4), Word("br_x17", 0, 0)>>
  <2>1. first \in Seq(Words)
    BY <1>2
  <2>2. LongCall(a) = first \o Address(a, 0)
    BY DEF LongCall
  <2> HIDE DEF first
  <2>3. QED
    BY <1>1, <2>1, <2>2, Concatenation
<1>5. Len(LongCall(a)) = 5
  BY DEF LongCall, Address
<1>6. QED
  BY <1>3, <1>4, <1>5

LEMMA LongLoadType ==
  ASSUME NEW k \in Int, NEW a \in Int, NEW byte \in 0..3
  PROVE  /\ LongLoad(k, a, byte) \in Seq(Words)
         /\ Len(LongLoad(k, a, byte)) = 4
<1>1. Address(a, byte) \in Seq(Words) /\ Len(Address(a, byte)) = 2
  BY AddressType
<1>2. Word("ldr_rd", k, 2) \in Words /\ Word("b", 0, 3) \in Words
  BY WordType DEF Ops, Kinds
<1> DEFINE first == <<Word("ldr_rd", k, 2), Word("b", 0, 3)>>
<1>3. first \in Seq(Words) /\ Len(first) = 2
  BY <1>2
<1>4. LongLoad(k, a, byte) = first \o Address(a, byte)
  BY DEF LongLoad
<1> HIDE DEF first
<1>5. /\ first \o Address(a, byte) \in Seq(Words)
      /\ Len(first \o Address(a, byte)) = Len(first) + Len(Address(a, byte))
  BY <1>1, <1>3, Concatenation
<1>6. QED
  BY <1>1, <1>3, <1>4, <1>5

-----------------------------------------------------------------------------
(* What a moved instruction is *)

\* Padding, words, start and references of m fit the trampoline there is, and
\* no instruction takes more than nine words with its padding.
MovedWell(m) ==
  /\ m.pad \in 0..3 /\ m.start \in Int /\ m.ws \in Seq(Words)
  /\ m.pad + Len(m.ws) <= 9
  /\ \A r \in m.ref : /\ r.to \in 0..(Count - 1)
                      /\ r.at \in 1..(Len(words) + m.pad + Len(m.ws))

LEMMA MovedIsMovedWell ==
  ASSUME NEW pad \in 0..3, NEW start \in Int, NEW ws \in Seq(Words),
         pad + Len(ws) <= 9
  PROVE  MovedWell(Moved(pad, start, ws))
BY DEF MovedWell, Moved

LEMMA OneWordIsMovedWell ==
  ASSUME NEW pad \in 0..3, NEW start \in Int, NEW w \in Words
  PROVE  MovedWell(Moved(pad, start, <<w>>))
<1> DEFINE ws == <<w>>
<1>1. ws \in Seq(Words) /\ Len(ws) = 1
  OBVIOUS
<1> HIDE DEF ws
<1>2. pad + Len(ws) <= 9
  BY <1>1
<1>3. MovedWell(Moved(pad, start, ws))
  BY <1>1, <1>2, MovedIsMovedWell
<1>4. QED
  BY <1>3 DEF ws

\* Before an instruction moves.
LEMMA Here ==
  ASSUME TypeOK, idx < Count
  PROVE  /\ idx \in Nat /\ insn \in Insns /\ inprx \in Int /\ outprx \in Int
         /\ Count \in Nat /\ Len(words) \in Nat
         /\ Pad(outprx) \in 0..1
<1>1. program \in Seq(Insns) /\ dat \in Seq(Int) /\ words \in Seq(Words)
  BY DEF TypeOK
<1>2. idx \in Nat /\ Count \in Nat /\ Len(words) \in Nat
  BY <1>1 DEF idx, Count
<1>3. idx + 1 \in 1..Count
  BY <1>2
<1>4. insn \in Insns
  BY <1>1, <1>3 DEF insn, Count
<1>5. inprx \in Int /\ outprx \in Int
  BY <1>2 DEF TypeOK, inprx, outprx
<1>6. Pad(outprx) \in 0..1
  BY <1>5 DEF Pad
<1>7. QED
  BY <1>2, <1>4, <1>5, <1>6

LEMMA ReferMovesWell ==
  ASSUME TypeOK, idx < Count, NEW a \in Int, is_in_fixing_range(a),
         NEW w \in Words
  PROVE  MovedWell(Refer(a, w))
<1> DEFINE j == a - base
<1>1. /\ idx \in Nat /\ outprx \in Int /\ Count \in Nat /\ Len(words) \in Nat
  BY Here
<1>2. j \in 0..(Count - 1)
  BY <1>1 DEF TypeOK, is_in_fixing_range
<1>3. CASE j <= idx
  <2>1. Append(dat, outprx) \in Seq(Int) /\ j + 1 \in 1..Len(Append(dat, outprx))
    BY <1>1, <1>2, <1>3 DEF TypeOK, idx
  <2>2. Append(dat, outprx)[j + 1] - outprx \in Int
    BY <1>1, <2>1
  <2>3. [w EXCEPT !.off = Append(dat, outprx)[j + 1] - outprx] \in Words
    BY <2>2 DEF Words
  <2> DEFINE v == [w EXCEPT !.off = Append(dat, outprx)[j + 1] - outprx]
  <2>4. Refer(a, w) = Moved(0, outprx, <<v>>)
    BY <1>3 DEF Refer
  <2> HIDE DEF v, j
  <2>5. v \in Words
    BY <2>3 DEF v
  <2>6. MovedWell(Moved(0, outprx, <<v>>))
    BY <1>1, <2>5, OneWordIsMovedWell
  <2>7. QED
    BY <2>4, <2>6
<1>4. CASE ~(j <= idx)
  <2>1. Refer(a, w) = [Moved(0, outprx, <<w>>) EXCEPT
                         !.ref = {[to |-> j, at |-> Len(words) + 1]}]
    BY <1>4 DEF Refer
  <2>2. QED
    BY <1>1, <1>2, <2>1 DEF Moved, MovedWell
<1>5. QED
  BY <1>3, <1>4

LEMMA RewriteMovesWell ==
  ASSUME TypeOK, idx < Count, NEW a \in Int, NEW isNear, NEW w \in Words,
         NEW long, MovedWell(long)
  PROVE  MovedWell(Rewrite(a, isNear, w, long))
<1>1. outprx \in Int
  BY Here
<1>2. CASE is_in_fixing_range(a)
  BY <1>2, ReferMovesWell DEF Rewrite
<1>3. CASE ~is_in_fixing_range(a) /\ isNear
  <2>1. [w EXCEPT !.off = a - outprx] \in Words
    BY <1>1 DEF Words
  <2>2. Rewrite(a, isNear, w, long) =
          Moved(0, outprx, <<[w EXCEPT !.off = a - outprx]>>)
    BY <1>3 DEF Rewrite
  <2>3. QED
    BY <1>1, <2>1, <2>2, OneWordIsMovedWell
<1>4. CASE ~is_in_fixing_range(a) /\ ~isNear
  BY <1>4 DEF Rewrite
<1>5. QED
  BY <1>2, <1>3, <1>4

LEMMA BranchMovesWell ==
  ASSUME TypeOK, idx < Count, insn.kind \in {"b", "bl"}
  PROVE  MovedWell(fix_branch_imm)
<1> DEFINE a    == inprx + insn.imm
           pad  == IF insn.kind = "b" THEN Pad(outprx) ELSE 1 - Pad(outprx)
           ws   == IF insn.kind = "b" THEN LongJump(a) ELSE LongCall(a)
           long == Moved(pad, outprx + pad, ws)
<1>1. /\ idx \in Nat /\ insn \in Insns /\ inprx \in Int /\ outprx \in Int
      /\ Pad(outprx) \in 0..1
  BY Here
<1>2. a \in Int /\ pad \in 0..1
  BY <1>1 DEF Insns
<1>3. Word(insn.kind, idx, 0) \in Words
  BY <1>1, WordType DEF Ops, Kinds
<1>4. ws \in Seq(Words) /\ (Len(ws) = 4 \/ Len(ws) = 5)
  BY <1>2, LongType
<1>5. fix_branch_imm =
        Rewrite(a, Within(a, 2^25 - 1), Word(insn.kind, idx, 0), long)
  BY DEF fix_branch_imm
<1> HIDE DEF a, pad, ws
<1>6. MovedWell(long)
  <2>1. pad \in 0..3 /\ outprx + pad \in Int
    BY <1>1, <1>2
  <2>2. pad + Len(ws) <= 9
    <3>1. CASE Len(ws) = 4
      BY <1>2, <3>1
    <3>2. CASE Len(ws) = 5
      BY <1>2, <3>2
    <3>3. QED
      BY <1>4, <3>1, <3>2
  <2>3. QED
    BY <1>4, <2>1, <2>2, MovedIsMovedWell
<1> HIDE DEF long
<1>7. QED
  BY <1>2, <1>3, <1>5, <1>6, RewriteMovesWell

LEMMA ConditionMovesWell ==
  ASSUME TypeOK, idx < Count, insn.kind \in {"cond", "test"}
  PROVE  MovedWell(fix_cond_comp_test_branch)
<1> DEFINE bits  == IF insn.kind = "test" THEN 14 ELSE 19
           a     == inprx + (insn.imm % 2^bits)
           first == <<Word("cond", idx, 2), Word("b", 0, 5)>>
           ws    == first \o LongJump(a)
           long  == Moved(Pad(outprx), outprx, ws)
<1>1. /\ idx \in Nat /\ insn \in Insns /\ inprx \in Int /\ outprx \in Int
      /\ Pad(outprx) \in 0..1
  BY Here
<1>2. a \in Int
  <2>1. CASE insn.kind = "test"
    BY <1>1, <2>1 DEF Insns
  <2>2. CASE insn.kind # "test"
    BY <1>1, <2>2 DEF Insns
  <2>3. QED
    BY <2>1, <2>2
<1>3. /\ Word("cond", idx, 0) \in Words /\ Word("cond", idx, 2) \in Words
      /\ Word("b", 0, 5) \in Words
  BY <1>1, WordType DEF Ops, Kinds
<1>4. first \in Seq(Words) /\ Len(first) = 2
  BY <1>3
<1>5. fix_cond_comp_test_branch =
        Rewrite(a, Within(a, 2^(bits - 1) - 1), Word("cond", idx, 0), long)
  BY DEF fix_cond_comp_test_branch
<1> HIDE DEF a, first
<1>6. LongJump(a) \in Seq(Words) /\ Len(LongJump(a)) = 4
  BY <1>2, LongType
<1>7. ws \in Seq(Words) /\ Len(ws) = Len(first) + Len(LongJump(a))
  BY <1>4, <1>6, Concatenation
<1>8. Len(ws) \in 0..6
  BY <1>4, <1>6, <1>7
<1> HIDE DEF ws
<1>9. MovedWell(long)
  BY <1>1, <1>7, <1>8, MovedIsMovedWell
<1> HIDE DEF long
<1>10. QED
  BY <1>2, <1>3, <1>5, <1>9, RewriteMovesWell

LEMMA LoadType ==
  ASSUME TypeOK, idx < Count, NEW off \in Int,
         NEW width \in Widths \cup {"invalid"}
  PROVE  Load(width, off) \in Words
<1>1. Word("ldr", idx, off) \in Words
  BY Here, WordType DEF Ops, Kinds
<1>2. QED
  BY <1>1 DEF Load, Words

LEMMA EncodedType ==
  ASSUME NEW off, NEW width \in Widths
  PROVE  Encoded(width, off) \in Widths \cup {"invalid"}
BY DEF Encoded, Widths

LEMMA CopiedWordsType ==
  ASSUME NEW width \in Widths
  PROVE  CopiedWords(width) \in {1, 2, 4}
BY DEF CopiedWords, Widths

LEMMA LoadMovesWell ==
  ASSUME TypeOK, idx < Count, insn.kind = "ldr"
  PROVE  MovedWell(fix_loadlit)
<1> DEFINE a    == inprx + Uint32(insn.imm)
           n    == CopiedWords(insn.width)
           copy == (-(outprx + 2)) % n
           keep == (a - outprx) % n
           off  == a - (outprx + keep)
           first == <<Load(insn.width, 2), Word("b", 0, 1 + n)>>
           ws    == first \o Memory(a, n)
           kept  == Load(Encoded(insn.width, off), off)
<1>1. /\ idx \in Nat /\ insn \in Insns /\ inprx \in Int /\ outprx \in Int
  BY Here
<1>2. a \in Int
  BY <1>1 DEF Insns, Uint32
<1>3. insn.width \in Widths /\ n \in {1, 2, 4}
  BY <1>1, CopiedWordsType DEF Insns
<1>4. fix_loadlit = Moved(copy, outprx + copy, ws)
      \/ fix_loadlit = Moved(keep, outprx + keep, <<kept>>)
  BY DEF fix_loadlit
<1> HIDE DEF a, n
<1>5. copy \in 0..3 /\ keep \in 0..3 /\ copy + n <= 7
  <2>1. CASE n = 1
    BY <1>1, <1>2, <2>1
  <2>2. CASE n = 2
    BY <1>1, <1>2, <2>2
  <2>3. CASE n = 4
    BY <1>1, <1>2, <2>3
  <2>4. QED
    BY <1>3, <2>1, <2>2, <2>3
<1>6. off \in Int
  BY <1>1, <1>2, <1>5
<1>7. Load(insn.width, 2) \in Words /\ Word("b", 0, 1 + n) \in Words
  BY <1>3, LoadType, WordType DEF Ops, Kinds
<1>8. first \in Seq(Words) /\ Len(first) = 2
  BY <1>7
<1>9. Memory(a, n) \in Seq(Words) /\ Len(Memory(a, n)) = n
  BY <1>2, <1>3, MemoryType
<1> HIDE DEF first, copy, keep, off
<1>10. ws \in Seq(Words) /\ Len(ws) = Len(first) + Len(Memory(a, n))
  BY <1>8, <1>9, Concatenation
<1>11. copy + Len(ws) <= 9
  BY <1>3, <1>5, <1>8, <1>9, <1>10
<1> HIDE DEF ws
<1>12. MovedWell(Moved(copy, outprx + copy, ws))
  BY <1>1, <1>5, <1>10, <1>11, MovedIsMovedWell
<1>13. MovedWell(Moved(keep, outprx + keep, <<kept>>))
  <2>1. kept \in Words
    BY <1>3, <1>6, EncodedType, LoadType
  <2> HIDE DEF kept
  <2>2. QED
    BY <1>1, <1>5, <2>1, OneWordIsMovedWell
<1>14. QED
  BY <1>4, <1>12, <1>13

LEMMA PrefetchMovesWell ==
  ASSUME TypeOK, idx < Count
  PROVE  MovedWell(fix_prfm)
<1>1. outprx \in Int
  BY Here
<1>2. fix_prfm.pad = 0 /\ fix_prfm.start = outprx
      /\ fix_prfm.ws = <<>> /\ fix_prfm.ref = {}
  BY DEF fix_prfm, Moved
<1>3. QED
  BY <1>1, <1>2 DEF MovedWell

LEMMA EitherType ==
  ASSUME NEW rd \in 0..31, NEW byte \in 0..3
  PROVE  Either(rd, byte) \in 0..31
<1>1. CASE rd \in 0..7
  BY <1>1 DEF Either
<1>2. CASE rd \in 8..15
  BY <1>2 DEF Either
<1>3. CASE rd \in 16..23
  BY <1>3 DEF Either
<1>4. CASE rd \in 24..31
  BY <1>4 DEF Either
<1>5. QED
  BY <1>1, <1>2, <1>3, <1>4

\* An adr or adrp that is spelled out, said to start anywhere.
LEMMA LongLoadMovesWell ==
  ASSUME TypeOK, idx < Count, NEW start \in Int, NEW a \in Int,
         NEW byte \in 0..3
  PROVE  MovedWell(Moved(Pad(outprx), start, LongLoad(idx, a, byte)))
<1> DEFINE ws == LongLoad(idx, a, byte)
<1>1. idx \in Int /\ Pad(outprx) \in 0..1
  BY Here
<1>2. ws \in Seq(Words) /\ Len(ws) = 4
  BY <1>1, LongLoadType
<1> HIDE DEF ws
<1>3. Pad(outprx) \in 0..3 /\ Pad(outprx) + Len(ws) <= 9
  BY <1>1, <1>2
<1>4. MovedWell(Moved(Pad(outprx), start, ws))
  BY <1>2, <1>3, MovedIsMovedWell
<1>5. QED
  BY <1>4 DEF ws

LEMMA AdrMovesWell ==
  ASSUME TypeOK, idx < Count
  PROVE  MovedWell(fix_adr)
<1> DEFINE a      == inprx + Uint32(insn.imm)
           isNear == (a - outprx) \in (-2^18)..(2^18 - 1)
                     /\ 4 * (a - outprx) + insn.byte \in (2 - 2^20)..(2^20 - 2)
           rd     == IF is_in_fixing_range(a) THEN insn.rd
                     ELSE Either(insn.rd, insn.byte)
           w      == [Word("adr", idx, 0) EXCEPT !.byte = insn.byte, !.rd = rd]
           long   == Moved(Pad(outprx), outprx + Pad(outprx),
                           LongLoad(idx, a, insn.byte))
<1>1. /\ idx \in Nat /\ insn \in Insns /\ inprx \in Int /\ outprx \in Int
      /\ Pad(outprx) \in 0..1
  BY Here
<1>2. a \in Int /\ insn.byte \in 0..3 /\ insn.rd \in 0..31
  BY <1>1 DEF Insns, Uint32
<1>3. fix_adr = Rewrite(a, isNear, w, long)
  BY DEF fix_adr
<1>4. rd \in 0..31
  BY <1>2, EitherType
<1>5. w \in Words
  <2>1. Word("adr", idx, 0) \in Words
    BY <1>1, WordType DEF Ops, Kinds
  <2> HIDE DEF rd
  <2>2. QED
    BY <1>2, <1>4, <2>1 DEF Words
<1>6. outprx + Pad(outprx) \in Int
  BY <1>1
<1> HIDE DEF a, isNear, w
<1>7. MovedWell(long)
  BY <1>2, <1>6, LongLoadMovesWell
<1> HIDE DEF long
<1>8. QED
  BY <1>2, <1>3, <1>5, <1>7, RewriteMovesWell

LEMMA AdrpMovesWell ==
  ASSUME TypeOK, idx < Count
  PROVE  MovedWell(fix_adrp)
<1> DEFINE a    == PageStart(inprx) + Uint32(1024 * insn.imm)
           said == IF Pad(outprx) = 0 THEN outprx + RwShift ELSE outprx + 1
           w    == Word("adrp", idx, insn.imm)
<1>1. /\ idx \in Nat /\ insn \in Insns /\ inprx \in Int /\ outprx \in Int
      /\ RwShift \in Int
  BY Here, HooksAssumption
<1>2. a \in Int /\ insn.imm \in Int
  BY <1>1 DEF Insns, Uint32, PageStart
<1>3. said \in Int /\ outprx + RwShift \in Int
  BY <1>1
<1>4. w \in Words
  BY <1>1, <1>2, WordType DEF Ops, Kinds
<1>5. fix_adrp = Moved(0, outprx + RwShift, <<w>>)
      \/ fix_adrp = Moved(Pad(outprx), said, LongLoad(idx, a, 0))
  BY DEF fix_adrp
<1> HIDE DEF a, said, w
<1>6. MovedWell(Moved(0, outprx + RwShift, <<w>>))
  BY <1>3, <1>4, OneWordIsMovedWell
<1>7. MovedWell(Moved(Pad(outprx), said, LongLoad(idx, a, 0)))
  BY <1>2, <1>3, LongLoadMovesWell
<1>8. QED
  BY <1>5, <1>6, <1>7

LEMMA PlainMovesWell ==
  ASSUME TypeOK, idx < Count
  PROVE  MovedWell(fix_none)
<1>1. outprx \in Int /\ Word("plain", idx, 0) \in Words
  BY Here, WordType DEF Ops, Kinds
<1>2. QED
  BY <1>1, OneWordIsMovedWell DEF fix_none

LEMMA FixedMovesWell ==
  ASSUME TypeOK, idx < Count
  PROVE  MovedWell(Fixed)
<1>1. insn.kind \in Kinds
  BY Here DEF Insns
<1>2. CASE insn.kind \in {"b", "bl"}
  BY <1>2, BranchMovesWell DEF Fixed
<1>3. CASE insn.kind \in {"cond", "test"}
  BY <1>3, ConditionMovesWell DEF Fixed
<1>4. CASE insn.kind = "ldr"
  BY <1>4, LoadMovesWell DEF Fixed
<1>5. CASE insn.kind = "prfm"
  BY <1>5, PrefetchMovesWell DEF Fixed
<1>6. CASE insn.kind = "adr"
  BY <1>6, AdrMovesWell DEF Fixed
<1>7. CASE insn.kind = "adrp"
  BY <1>7, AdrpMovesWell DEF Fixed
<1>8. CASE insn.kind = "plain"
  BY <1>8, PlainMovesWell DEF Fixed
<1>9. QED
  BY <1>1, <1>2, <1>3, <1>4, <1>5, <1>6, <1>7, <1>8 DEF Kinds

-----------------------------------------------------------------------------
(* The trampoline *)

LEMMA ProcessType ==
  ASSUME TypeOK, NEW ws \in Seq(Words), NEW start \in Int
  PROVE  /\ process_fix_map(ws, start) \in Seq(Words)
         /\ Len(process_fix_map(ws, start)) = Len(ws)
<1> DEFINE f(j) == IF \E r \in fmap : r.to = idx /\ r.at = j
                     THEN [ws[j] EXCEPT !.off = start - (out + j - 1)]
                     ELSE ws[j]
<1>1. \A j \in 1..Len(ws) : f(j) \in Words
  <2>1. TAKE j \in 1..Len(ws)
  <2>2. ws[j] \in Words /\ start - (out + j - 1) \in Int
    BY DEF TypeOK
  <2>3. [ws[j] EXCEPT !.off = start - (out + j - 1)] \in Words
    BY <2>2 DEF Words
  <2>4. QED
    BY <2>2, <2>3
<1>2. process_fix_map(ws, start) = [j \in 1..Len(ws) |-> f(j)]
  BY DEF process_fix_map
<1> HIDE DEF f
<1>3. QED
  BY <1>1, <1>2

\* An instruction takes at most nine words, the jump back five.
Bounded ==
  /\ Count <= MaxInstructions
  /\ Len(words) <= 9 * idx + (IF done THEN 5 ELSE 0)

IInv == TypeOK /\ Bounded

LEMMA InitInvariant == Init => IInv
<1> SUFFICES ASSUME Init PROVE IInv
  OBVIOUS
<1>1. PICK h \in Hooks : /\ Len(h.program) \in Overwritten(h.base)
                         /\ program = h.program /\ base = h.base /\ out = h.out
  BY DEF Init
<1>2. program \in Seq(Insns) /\ base \in Nat /\ out \in Nat
  BY <1>1, HooksAssumption
<1>3. Len(program) \in {1, 4, 5}
  BY <1>1, <1>2 DEF Overwritten
<1>4. words = <<>> /\ dat = <<>> /\ fmap = {} /\ done = FALSE
  BY DEF Init
<1>5. TypeOK
  <2>1. words \in Seq(Words) /\ dat \in Seq(Int) /\ Len(dat) = 0
    BY <1>4
  <2>2. Len(program) \in Nat
    BY <1>2
  <2>3. Len(dat) <= Len(program)
    BY <2>1, <2>2
  <2>4. QED
    BY <1>2, <1>4, <2>1, <2>3 DEF TypeOK
<1>6. Bounded
  <2>1. Count <= 5
    <3>1. Count = 1 \/ Count = 4 \/ Count = 5
      BY <1>3 DEF Count
    <3>2. QED
      BY <3>1
  <2>2. Len(words) = 0
    BY <1>4
  <2>3. Len(dat) = 0
    BY <1>4
  <2>4. QED
    BY <1>4, <2>1, <2>2, <2>3 DEF Bounded, idx, MaxInstructions
<1>7. QED
  BY <1>5, <1>6 DEF IInv

LEMMA MoveInvariant == IInv /\ MoveInstruction => IInv'
<1> SUFFICES ASSUME IInv, MoveInstruction PROVE IInv'
  OBVIOUS
<1> DEFINE m   == Fixed
           pad == Nops(m.pad)
           ws  == words \o pad \o m.ws
<1>1. TypeOK /\ Bounded /\ idx < Count
  BY DEF IInv, MoveInstruction
<1>2. MovedWell(m)
  BY <1>1, FixedMovesWell
<1>3. /\ words' = process_fix_map(ws, m.start)
      /\ dat' = Append(dat, m.start) /\ fmap' = fmap \cup m.ref
      /\ UNCHANGED <<program, base, out, done>>
  BY DEF MoveInstruction
<1> HIDE DEF m
<1>4. /\ m.pad \in 0..3 /\ m.start \in Int /\ m.ws \in Seq(Words)
      /\ m.pad + Len(m.ws) <= 9
      /\ \A r \in m.ref : /\ r.to \in 0..(Count - 1)
                          /\ r.at \in 1..(Len(words) + m.pad + Len(m.ws))
  BY <1>2 DEF MovedWell
<1>5. pad \in Seq(Words) /\ Len(pad) = m.pad
  <2>1. m.pad \in Nat
    BY <1>4
  <2>2. QED
    BY <2>1, NopsType
<1> HIDE DEF pad
<1>6. words \in Seq(Words)
  BY <1>1 DEF TypeOK
<1>7. words \o pad \in Seq(Words) /\ Len(words \o pad) = Len(words) + Len(pad)
  BY <1>5, <1>6, Concatenation
<1>8. ws \in Seq(Words) /\ Len(ws) = Len(words \o pad) + Len(m.ws)
  BY <1>4, <1>7, Concatenation
<1>9. Len(ws) = Len(words) + m.pad + Len(m.ws)
  BY <1>4, <1>5, <1>6, <1>7, <1>8
<1> HIDE DEF ws
<1>10. words' \in Seq(Words) /\ Len(words') = Len(ws)
  BY <1>1, <1>3, <1>4, <1>8, ProcessType
<1>11. idx \in Nat /\ Count \in Nat
  BY <1>1, Here
<1>12. dat' \in Seq(Int) /\ Len(dat') = idx + 1 /\ program' = program
  BY <1>1, <1>3, <1>4 DEF TypeOK, idx
<1>13. TypeOK'
  <2>1. \A r \in fmap' : r.to \in 0..(Count - 1) /\ r.at \in 1..Len(words')
    <3>1. TAKE r \in fmap'
    <3>2. CASE r \in fmap
      <4>1. r.to \in 0..(Count - 1) /\ r.at \in 1..Len(words)
        BY <1>1, <3>2 DEF TypeOK
      <4>2. Len(words) <= Len(words')
        BY <1>4, <1>6, <1>9, <1>10
      <4>3. QED
        BY <1>6, <1>10, <4>1, <4>2
    <3>3. CASE r \in m.ref
      BY <1>4, <1>9, <1>10, <3>3
    <3>4. QED
      BY <1>3, <3>2, <3>3
  <2>2. Len(dat') <= Len(program')
    BY <1>1, <1>11, <1>12 DEF Count
  <2>3. (Count)' = Count
    BY <1>12 DEF Count
  <2>4. QED
    BY <1>1, <1>3, <1>10, <1>12, <2>1, <2>2, <2>3 DEF TypeOK
<1>14. Bounded'
  <2>1. (Count)' = Count /\ (idx)' = idx + 1 /\ done' = done
    BY <1>3, <1>12 DEF Count, idx
  <2>2. Len(words') <= Len(words) + 9
    BY <1>4, <1>6, <1>9, <1>10
  <2>3. Len(words) <= 9 * idx + (IF done THEN 5 ELSE 0)
    BY <1>1 DEF Bounded
  <2>4. Len(words') <= 9 * (idx + 1) + (IF done THEN 5 ELSE 0)
    BY <1>6, <1>10, <1>11, <2>2, <2>3
  <2>5. QED
    BY <1>1, <2>1, <2>4 DEF Bounded
<1>15. QED
  BY <1>13, <1>14 DEF IInv

LEMMA JumpBackInvariant == IInv /\ JumpBack => IInv'
<1> SUFFICES ASSUME IInv, JumpBack PROVE IInv'
  OBVIOUS
<1> DEFINE short == <<Word("b", 0, inprx - outprx)>>
           pad   == Nops(Pad(outprx))
           long  == pad \o LongJump(inprx)
           jump  == IF Within(inprx, 2^25 - 1) THEN short ELSE long
<1>1. TypeOK /\ Bounded /\ idx = Count /\ done = FALSE
  BY DEF IInv, JumpBack, TypeOK
<1>2. /\ words' = words \o jump /\ done' = TRUE
      /\ UNCHANGED <<program, base, out, dat, fmap>>
  BY DEF JumpBack
<1>3. words \in Seq(Words) /\ dat \in Seq(Int) /\ base \in Nat /\ out \in Nat
  BY <1>1 DEF TypeOK
<1>4. idx \in Nat /\ Len(words) \in Nat
  BY <1>3 DEF idx
<1>5. inprx \in Int /\ outprx \in Int /\ Pad(outprx) \in 0..1
  BY <1>3, <1>4 DEF inprx, outprx, Pad
<1>6. short \in Seq(Words) /\ Len(short) = 1
  <2>1. Word("b", 0, inprx - outprx) \in Words
    BY <1>5, WordType DEF Ops, Kinds
  <2>2. QED
    BY <2>1
<1>7. long \in Seq(Words) /\ Len(long) <= 5
  <2>1. Pad(outprx) \in Nat
    BY <1>5
  <2>2. pad \in Seq(Words) /\ Len(pad) = Pad(outprx)
    BY <2>1, NopsType
  <2>3. LongJump(inprx) \in Seq(Words) /\ Len(LongJump(inprx)) = 4
    BY <1>5, LongType
  <2> HIDE DEF pad
  <2>4. long \in Seq(Words) /\ Len(long) = Len(pad) + Len(LongJump(inprx))
    BY <2>2, <2>3, Concatenation
  <2> HIDE DEF long
  <2>5. QED
    BY <1>5, <2>2, <2>3, <2>4
<1> HIDE DEF short, long
<1>8. jump \in Seq(Words) /\ Len(jump) <= 5
  <2>1. CASE Within(inprx, 2^25 - 1)
    <3>1. jump = short
      BY <2>1
    <3>2. Len(short) <= 5
      BY <1>6
    <3>3. QED
      BY <1>6, <3>1, <3>2
  <2>2. CASE ~Within(inprx, 2^25 - 1)
    BY <1>7, <2>2
  <2>3. QED
    BY <2>1, <2>2
<1> HIDE DEF jump
<1>9. words' \in Seq(Words) /\ Len(words') = Len(words) + Len(jump)
  BY <1>2, <1>3, <1>8, Concatenation
<1>10. Len(jump) \in Nat
  BY <1>8
<1>11. TypeOK'
  <2>1. \A r \in fmap' : r.to \in 0..(Count - 1) /\ r.at \in 1..Len(words')
    <3>1. TAKE r \in fmap'
    <3>2. r.to \in 0..(Count - 1) /\ r.at \in 1..Len(words)
      BY <1>1, <1>2 DEF TypeOK
    <3>3. Len(words) <= Len(words')
      BY <1>4, <1>9, <1>10
    <3>4. QED
      BY <1>4, <1>9, <1>10, <3>2, <3>3
  <2>2. (Count)' = Count
    BY <1>2 DEF Count
  <2>3. QED
    BY <1>1, <1>2, <1>9, <2>1, <2>2 DEF TypeOK
<1>12. Bounded'
  <2>1. (Count)' = Count /\ (idx)' = idx
    BY <1>2 DEF Count, idx
  <2>2. Len(words) <= 9 * idx
    BY <1>1, <1>4 DEF Bounded
  <2>3. Len(words') <= 9 * idx + 5
    BY <1>4, <1>8, <1>9, <1>10, <2>2
  <2>4. QED
    BY <1>1, <1>2, <2>1, <2>3 DEF Bounded
<1>13. QED
  BY <1>11, <1>12 DEF IInv

\* The inductive invariant holds.
THEOREM Invariant == Spec => []IInv
<1>1. Init => IInv
  BY InitInvariant
<1>2. IInv /\ [Next]_vars => IInv'
  <2> SUFFICES ASSUME IInv, [Next]_vars PROVE IInv'
    OBVIOUS
  <2>1. CASE MoveInstruction
    BY <2>1, MoveInvariant
  <2>2. CASE JumpBack
    BY <2>2, JumpBackInvariant
  <2>3. CASE UNCHANGED vars
    BY <2>3 DEF IInv, TypeOK, Bounded, vars, Count, idx
  <2>4. QED
    BY <2>1, <2>2, <2>3 DEF Next
<1>3. QED
  BY <1>1, <1>2, PTL DEF Spec

\* The words of a trampoline, where instructions start and the references
\* between them keep their types: each reference is to an instruction that
\* moves and from a word that is written.
THEOREM FixInstructionsTypes == Spec => []TypeOK
<1>1. IInv => TypeOK
  BY DEF IInv
<1>2. QED
  BY <1>1, Invariant, PTL

\* AllocForTrampoline gives 50 words to a trampoline, and __fix_instructions
\* never counts: that it writes no more follows from what each instruction
\* takes at most.
THEOREM FixInstructionsFit == Spec => []FitsTrampoline
<1>1. IInv => FitsTrampoline
  <2> SUFFICES ASSUME IInv PROVE FitsTrampoline
    OBVIOUS
  <2>1. TypeOK /\ Count <= 5 /\ Len(words) <= 9 * idx + (IF done THEN 5 ELSE 0)
    BY DEF IInv, Bounded, MaxInstructions
  <2>2. idx \in Nat /\ Count \in Nat /\ idx <= Count /\ Len(words) \in Nat
    BY <2>1 DEF TypeOK, idx, Count
  <2>3. Len(words) <= 9 * idx + 5
    BY <2>1, <2>2
  <2>4. Len(words) <= 50
    BY <2>1, <2>2, <2>3
  <2>5. QED
    BY <2>4 DEF FitsTrampoline, TrampolineSize, MaxInstructions
<1>2. QED
  BY <1>1, Invariant, PTL

-----------------------------------------------------------------------------
(* What a moved instruction looks like *)

\* The address instruction k names.
To(k) == base + k + program[k + 1].imm

\* It names one that moves too.
Inner(k) == /\ program[k + 1].kind \in {"b", "bl", "cond", "test", "adr"}
            /\ is_in_fixing_range(To(k))

\* w is instruction k with some distance.
Says(k, w) ==
  LET i == program[k + 1]
  IN  /\ w.of = k
      /\ w.op = IF i.kind = "test" THEN "cond" ELSE i.kind
      /\ i.kind = "adr" => w.byte = i.byte /\ w.rd = i.rd
      /\ i.kind = "ldr" => w.width = i.width

\* Instruction k at s is one word, which names what k names.
Short(k, s, ws) ==
  LET i == program[k + 1]
  IN  /\ i.kind \in {"plain", "b", "bl", "cond", "test", "ldr", "adr"}
      /\ Len(ws) = 1 /\ Says(k, ws[1])
      /\ i.kind # "plain" => s + ws[1].off = To(k)
      /\ i.kind = "ldr" =>
           \A j \in 0..(LoadedWords(i.width) - 1) : To(k) + j \notin Pool

LongCondition(k) ==
  <<Word("cond", k, 2), Word("b", 0, 5)>> \o LongJump(To(k))

CopiedLoad(k, w, n) == <<w, Word("b", 0, 1 + n)>> \o Memory(To(k), n)

\* Instruction k is spelled out.
Long(k, ws) ==
  LET i == program[k + 1]
  IN  \/ i.kind = "prfm" /\ ws = <<>>
      \/ i.kind = "b" /\ ws = LongJump(To(k))
      \/ i.kind = "bl" /\ ws = LongCall(To(k))
      \/ i.kind \in {"cond", "test"} /\ ws = LongCondition(k)
      \/ /\ i.kind = "ldr"
         /\ \E w \in Words, n \in {1, 2, 4} :
              /\ Says(k, w) /\ w.off = 2 /\ n >= LoadedWords(i.width)
              /\ ws = CopiedLoad(k, w, n)
      \/ i.kind = "adr" /\ ws = LongLoad(k, To(k), i.byte)
      \/ /\ i.kind = "adrp"
         /\ ws = LongLoad(k, PageStart(base + k) + 1024 * i.imm, 0)

\* Where an instruction between b and c is said to start.
StartsAt(k, d, b, c) ==
  \/ d \in {b, c}
  \/ program[k + 1].kind = "adrp" /\ d - RwShift \in {b, c}

\* m is the next instruction: it names where the one it names has moved, with a
\* reference if that is ahead, or it stands for itself.
MovedRight(m) ==
  /\ StartsAt(idx, m.start, outprx, outprx + m.pad)
  /\ IF Inner(idx)
       THEN LET j == To(idx) - base
            IN  /\ m.pad = 0 /\ m.start = outprx
                /\ Len(m.ws) = 1 /\ Says(idx, m.ws[1])
                /\ IF j <= idx
                     THEN /\ m.ref = {}
                          /\ outprx + m.ws[1].off = Append(dat, outprx)[j + 1]
                     ELSE m.ref = {[to |-> j, at |-> Len(words) + 1]}
       ELSE /\ m.ref = {}
            /\ Short(idx, outprx + m.pad, m.ws) \/ Long(idx, m.ws)

LEMMA HereNames ==
  ASSUME TypeOK, idx < Count
  PROVE  /\ insn = program[idx + 1] /\ To(idx) = inprx + insn.imm /\ To(idx) \in Int
         /\ insn.imm \in Int /\ insn.kind \in Kinds
BY Here DEF To, insn, inprx, TypeOK, Insns

LEMMA HereMovable ==
  ASSUME TypeOK, idx < Count, Supported
  PROVE  Movable(idx)
<1>1. idx \in 0..(Count - 1)
  BY Here
<1>2. QED
  BY <1>1 DEF Supported

LEMMA RewriteRight ==
  ASSUME TypeOK, idx < Count, insn.kind \in {"b", "bl", "cond", "test", "adr"},
         NEW isNear, NEW w \in Words, Says(idx, w), NEW long,
         ~is_in_fixing_range(To(idx)) /\ ~isNear =>
           /\ long.ref = {} /\ Long(idx, long.ws)
           /\ StartsAt(idx, long.start, outprx, outprx + long.pad)
  PROVE  MovedRight(Rewrite(To(idx), isNear, w, long))
<1> DEFINE j == To(idx) - base
           v == [w EXCEPT !.off = Append(dat, outprx)[j + 1] - outprx]
           u == [w EXCEPT !.off = To(idx) - outprx]
<1>1. /\ idx \in Nat /\ outprx \in Int /\ Count \in Nat /\ base \in Nat
      /\ insn = program[idx + 1] /\ To(idx) \in Int
  BY Here, HereNames DEF TypeOK
<1>2. CASE is_in_fixing_range(To(idx)) /\ j <= idx
  <2>1. Rewrite(To(idx), isNear, w, long) = Moved(0, outprx, <<v>>)
    BY <1>2 DEF Rewrite, Refer
  <2>2. j + 1 \in 1..(Len(dat) + 1)
    BY <1>1, <1>2 DEF is_in_fixing_range, idx
  <2>3. Append(dat, outprx)[j + 1] \in Int
    BY <1>1, <2>2 DEF TypeOK
  <2>4. Says(idx, v)
    BY DEF Says, Words
  <2>5. outprx + v.off = Append(dat, outprx)[j + 1]
    <3>1. v.off = Append(dat, outprx)[j + 1] - outprx
      BY DEF Words
    <3> DEFINE d == Append(dat, outprx)[j + 1]
    <3> HIDE DEF v, d
    <3>2. v.off = d - outprx /\ d \in Int
      BY <2>3, <3>1 DEF d
    <3>3. outprx + v.off = d
      BY <1>1, <3>2
    <3>4. QED
      BY <3>3 DEF d
  <2>6. Inner(idx)
    BY <1>1, <1>2 DEF Inner
  <2> DEFINE m == Moved(0, outprx, <<v>>)
  <2> HIDE DEF v, j
  <2>7. /\ m.pad = 0 /\ m.start = outprx /\ m.ref = {}
        /\ Len(m.ws) = 1 /\ m.ws[1] = v
    BY DEF Moved
  <2> HIDE DEF m
  <2>8. StartsAt(idx, m.start, outprx, outprx + m.pad)
    BY <2>7 DEF StartsAt
  <2>9. MovedRight(m)
    BY <1>2, <2>4, <2>5, <2>6, <2>7, <2>8 DEF MovedRight, j
  <2>10. QED
    BY <2>1, <2>9 DEF m
<1>3. CASE is_in_fixing_range(To(idx)) /\ ~(j <= idx)
  <2>1. Rewrite(To(idx), isNear, w, long) =
          [Moved(0, outprx, <<w>>) EXCEPT !.ref = {[to |-> j, at |-> Len(words) + 1]}]
    BY <1>3 DEF Rewrite, Refer
  <2>2. Inner(idx)
    BY <1>1, <1>3 DEF Inner
  <2>3. QED
    BY <1>1, <1>3, <2>1, <2>2 DEF MovedRight, Moved, StartsAt
<1>4. CASE ~is_in_fixing_range(To(idx)) /\ isNear
  <2>1. Rewrite(To(idx), isNear, w, long) = Moved(0, outprx, <<u>>)
    BY <1>4 DEF Rewrite
  <2>2. Says(idx, u)
    BY DEF Says, Words
  <2>3. outprx + u.off = To(idx)
    BY <1>1 DEF Words
  <2>4. ~Inner(idx)
    BY <1>4 DEF Inner
  <2> HIDE DEF u
  <2>5. Short(idx, outprx + 0, <<u>>)
    BY <1>1, <2>2, <2>3 DEF Short
  <2>6. QED
    BY <1>1, <2>1, <2>4, <2>5 DEF MovedRight, Moved, StartsAt
<1>5. CASE ~is_in_fixing_range(To(idx)) /\ ~isNear
  <2>1. Rewrite(To(idx), isNear, w, long) = long
    BY <1>5 DEF Rewrite
  <2>2. ~Inner(idx)
    BY <1>5 DEF Inner
  <2>3. QED
    BY <1>5, <2>1, <2>2 DEF MovedRight
<1>6. QED
  BY <1>2, <1>3, <1>4, <1>5

LEMMA BranchRight ==
  ASSUME TypeOK, idx < Count, insn.kind \in {"b", "bl"}
  PROVE  MovedRight(fix_branch_imm)
<1> DEFINE a    == inprx + insn.imm
           pad  == IF insn.kind = "b" THEN Pad(outprx) ELSE 1 - Pad(outprx)
           ws   == IF insn.kind = "b" THEN LongJump(a) ELSE LongCall(a)
           long == Moved(pad, outprx + pad, ws)
           w    == Word(insn.kind, idx, 0)
<1>1. /\ idx \in Nat /\ insn = program[idx + 1] /\ a = To(idx)
      /\ insn.kind \in Kinds
  BY Here, HereNames
<1>2. w \in Words
  BY <1>1, WordType DEF Ops
<1>3. Says(idx, w)
  BY <1>1 DEF Says, Word
<1>4. fix_branch_imm = Rewrite(a, Within(a, 2^25 - 1), w, long)
  BY DEF fix_branch_imm
<1>5. Long(idx, ws)
  BY <1>1 DEF Long
<1> HIDE DEF a, pad, ws, w
<1>6. long.ref = {} /\ long.ws = ws /\ long.start = outprx + long.pad
  BY DEF Moved
<1> HIDE DEF long
<1>7. StartsAt(idx, long.start, outprx, outprx + long.pad)
  BY <1>6 DEF StartsAt
<1>8. QED
  BY <1>1, <1>2, <1>3, <1>4, <1>5, <1>6, <1>7, RewriteRight

LEMMA ConditionRight ==
  ASSUME TypeOK, idx < Count, insn.kind \in {"cond", "test"}, Supported
  PROVE  MovedRight(fix_cond_comp_test_branch)
<1> DEFINE bits == IF insn.kind = "test" THEN 14 ELSE 19
           a    == inprx + (insn.imm % 2^bits)
           ws   == <<Word("cond", idx, 2), Word("b", 0, 5)>> \o LongJump(a)
           long == Moved(Pad(outprx), outprx, ws)
           w    == Word("cond", idx, 0)
<1>1. /\ idx \in Nat /\ insn = program[idx + 1] /\ To(idx) = inprx + insn.imm
      /\ insn.imm \in Int
  BY Here, HereNames
<1>2. insn.imm % 2^bits = insn.imm
  <2>1. CASE insn.kind = "test"
    <3>1. insn.imm \in 0..(2^13 - 1)
      BY <1>1, <2>1, HereMovable DEF Movable
    <3>2. QED
      BY <2>1, <3>1
  <2>2. CASE insn.kind = "cond"
    <3>1. insn.imm \in 0..(2^18 - 1)
      BY <1>1, <2>2, HereMovable DEF Movable
    <3>2. QED
      BY <2>2, <3>1
  <2>3. QED
    BY <2>1, <2>2
<1>3. a = To(idx)
  BY <1>1, <1>2
<1>4. w \in Words /\ Says(idx, w)
  <2>1. w \in Words
    BY <1>1, WordType DEF Ops, Kinds
  <2>2. Says(idx, w)
    BY <1>1 DEF Says, Word
  <2>3. QED
    BY <2>1, <2>2
<1>5. fix_cond_comp_test_branch = Rewrite(a, Within(a, 2^(bits - 1) - 1), w, long)
  BY DEF fix_cond_comp_test_branch
<1>6. Long(idx, ws)
  BY <1>1, <1>3 DEF Long, LongCondition
<1> HIDE DEF a, ws, w
<1>7. long.ref = {} /\ long.ws = ws /\ long.start = outprx
  BY DEF Moved
<1> HIDE DEF long
<1>8. StartsAt(idx, long.start, outprx, outprx + long.pad)
  BY <1>7 DEF StartsAt
<1>9. QED
  BY <1>3, <1>4, <1>5, <1>6, <1>7, <1>8, RewriteRight

\* The next instruction leaves room for itself.
LEMMA HereInPool ==
  ASSUME IInv, idx < Count
  PROVE  outprx \in out..(out + 41)
<1>1. TypeOK /\ Count <= 5 /\ Len(words) <= 9 * idx + (IF done THEN 5 ELSE 0)
  BY DEF IInv, Bounded, MaxInstructions
<1>2. idx \in Nat /\ Len(words) \in Nat /\ out \in Nat /\ Count \in Nat
  BY <1>1, Here DEF TypeOK
<1>3. Len(words) <= 9 * idx + 5 /\ idx <= 4
  BY <1>1, <1>2
<1>4. Len(words) <= 41
  BY <1>2, <1>3
<1>5. QED
  BY <1>2, <1>4 DEF outprx

LEMMA LoadRight ==
  ASSUME IInv, idx < Count, insn.kind = "ldr", Supported
  PROVE  MovedRight(fix_loadlit)
<1> DEFINE a    == inprx + Uint32(insn.imm)
           n    == CopiedWords(insn.width)
           copy == (-(outprx + 2)) % n
           keep == (a - outprx) % n
           off  == a - (outprx + keep)
           v    == Load(insn.width, 2)
           ws   == <<v, Word("b", 0, 1 + n)>> \o Memory(a, n)
           u    == Load(Encoded(insn.width, off), off)
           d    == To(idx) - out
           far  == is_in_fixing_range(a) \/ ~Within(a, 2^18 - n)
<1>1. /\ TypeOK /\ idx \in Nat /\ insn = program[idx + 1] /\ insn \in Insns
      /\ To(idx) = inprx + insn.imm /\ To(idx) \in Int /\ out \in Nat
      /\ outprx \in out..(out + 41)
  BY Here, HereNames, HereInPool DEF IInv, TypeOK
<1>2. /\ insn.imm \in 0..(2^18 - 1)
      /\ \/ is_in_fixing_range(To(idx))
         \/ d >= TrampolineSize
         \/ d < (IF insn.width = "sw" THEN 0 ELSE -2^18)
  BY <1>1, HereMovable DEF Movable, To
<1>3. a = To(idx)
  BY <1>1, <1>2 DEF Uint32
<1>4. /\ insn.width \in Widths /\ n \in {1, 2, 4}
      /\ LoadedWords(insn.width) \in 1..n
      /\ insn.width = "sw" => LoadedWords(insn.width) = 1
  BY <1>1 DEF Insns, Widths, CopiedWords, LoadedWords
<1>5. ~Inner(idx)
  BY <1>1 DEF Inner
<1>6. \A width \in Widths, o \in Int :
        /\ Load(width, o) \in Words
        /\ width = insn.width => Says(idx, Load(width, o)) /\ Load(width, o).off = o
  <2>1. TAKE width \in Widths, o \in Int
  <2>2. Load(width, o) \in Words
    BY <1>1, LoadType
  <2>3. ASSUME width = insn.width
        PROVE  Says(idx, Load(width, o)) /\ Load(width, o).off = o
    BY <1>1, <2>3 DEF Says, Load, Word
  <2>4. QED
    BY <2>2, <2>3
<1>7. CASE far
  <2>1. fix_loadlit = Moved(copy, outprx + copy, ws)
    BY <1>7 DEF fix_loadlit
  <2>2. v \in Words /\ Says(idx, v) /\ v.off = 2
    BY <1>4, <1>6
  <2> DEFINE m == Moved(copy, outprx + copy, ws)
  <2>3. ws = CopiedLoad(idx, v, n)
    BY <1>3 DEF CopiedLoad
  <2> HIDE DEF a, n, v, ws
  <2>4. Long(idx, ws)
    BY <1>1, <1>4, <2>2, <2>3 DEF Long
  <2>5. /\ m.ref = {} /\ m.ws = ws /\ m.start = outprx + m.pad
    BY DEF Moved
  <2> HIDE DEF m
  <2>6. MovedRight(m)
    BY <1>5, <2>4, <2>5 DEF MovedRight, StartsAt
  <2>7. QED
    BY <2>1, <2>6 DEF m
<1>8. CASE ~far
  <2>1. fix_loadlit = Moved(keep, outprx + keep, <<u>>)
    BY <1>8 DEF fix_loadlit
  <2>2. keep \in 0..3 /\ off \in Int /\ outprx + keep + off = a
    <3>1. CASE n = 1
      BY <1>1, <1>3, <3>1
    <3>2. CASE n = 2
      BY <1>1, <1>3, <3>2
    <3>3. CASE n = 4
      BY <1>1, <1>3, <3>3
    <3>4. QED
      BY <1>4, <3>1, <3>2, <3>3
  <2> HIDE DEF n, keep
  <2>3. d \in Int /\ a - outprx \in (1 - (2^18 - n))..((2^18 - n) - 1)
    BY <1>1, <1>8 DEF Within
  <2>4. d >= TrampolineSize \/ (d < 0 /\ insn.width = "sw")
    BY <1>1, <1>2, <1>3, <1>4, <1>8, <2>3
  <2>5. off >= 0 \/ insn.width = "sw"
    BY <1>1, <1>3, <2>2, <2>3, <2>4 DEF TrampolineSize, MaxInstructions
  <2>6. Encoded(insn.width, off) = insn.width
    BY <2>5 DEF Encoded
  <2>7. Says(idx, u) /\ u.off = off
    BY <1>4, <1>6, <2>2, <2>6
  <2>8. \A j \in 0..(LoadedWords(insn.width) - 1) : To(idx) + j \notin Pool
    <3>1. TAKE j \in 0..(LoadedWords(insn.width) - 1)
    <3>2. CASE d >= TrampolineSize
      BY <1>1, <1>4, <3>2 DEF Pool, TrampolineSize, MaxInstructions
    <3>3. CASE d < 0 /\ insn.width = "sw"
      <4>1. j = 0
        BY <1>4, <3>3
      <4>2. QED
        BY <1>1, <3>3, <4>1 DEF Pool
    <3>4. QED
      BY <2>4, <3>2, <3>3
  <2> HIDE DEF u, off, d
  <2>9. Short(idx, outprx + keep, <<u>>)
    BY <1>1, <1>3, <2>2, <2>7, <2>8 DEF Short
  <2> DEFINE m == Moved(keep, outprx + keep, <<u>>)
  <2>10. /\ m.ref = {} /\ m.ws = <<u>> /\ m.pad = keep /\ m.start = outprx + m.pad
    BY DEF Moved
  <2> HIDE DEF m
  <2>11. MovedRight(m)
    BY <1>5, <2>9, <2>10 DEF MovedRight, StartsAt
  <2>12. QED
    BY <2>1, <2>11 DEF m
<1>9. QED
  BY <1>7, <1>8

LEMMA PrefetchRight ==
  ASSUME TypeOK, idx < Count, insn.kind = "prfm"
  PROVE  MovedRight(fix_prfm)
<1> DEFINE m == Moved(0, outprx, <<>>)
<1>1. m.pad = 0 /\ m.start = outprx /\ m.ws = <<>> /\ m.ref = {}
  BY DEF Moved
<1>2. insn = program[idx + 1]
  BY HereNames
<1>3. fix_prfm = m
  BY DEF fix_prfm
<1> HIDE DEF m
<1>4. QED
  BY <1>1, <1>2, <1>3 DEF MovedRight, StartsAt, Inner, Long

LEMMA PlainRight ==
  ASSUME TypeOK, idx < Count, insn.kind = "plain"
  PROVE  MovedRight(fix_none)
<1> DEFINE w == Word("plain", idx, 0)
           m == Moved(0, outprx, <<w>>)
<1>1. insn = program[idx + 1]
  BY HereNames
<1>2. Says(idx, w)
  BY <1>1 DEF Says, Word
<1>3. fix_none = m
  BY DEF fix_none
<1> HIDE DEF w
<1>4. m.pad = 0 /\ m.start = outprx /\ m.ws = <<w>> /\ m.ref = {}
  BY DEF Moved
<1> HIDE DEF m
<1>5. Short(idx, outprx + m.pad, m.ws)
  BY <1>1, <1>2, <1>4 DEF Short
<1>6. QED
  BY <1>1, <1>3, <1>4, <1>5 DEF MovedRight, StartsAt, Inner

LEMMA AdrRight ==
  ASSUME IInv, idx < Count, insn.kind = "adr", Supported
  PROVE  MovedRight(fix_adr)
<1> DEFINE a      == inprx + Uint32(insn.imm)
           isNear == (a - outprx) \in (-2^18)..(2^18 - 1)
                     /\ 4 * (a - outprx) + insn.byte \in (2 - 2^20)..(2^20 - 2)
           rd     == IF is_in_fixing_range(a) THEN insn.rd
                     ELSE Either(insn.rd, insn.byte)
           w      == [Word("adr", idx, 0) EXCEPT !.byte = insn.byte, !.rd = rd]
           ws     == LongLoad(idx, a, insn.byte)
           long   == Moved(Pad(outprx), outprx + Pad(outprx), ws)
           d      == To(idx) - out
<1>1. /\ TypeOK /\ idx \in Nat /\ insn = program[idx + 1] /\ insn \in Insns
      /\ To(idx) = inprx + insn.imm /\ To(idx) \in Int /\ out \in Nat
      /\ outprx \in out..(out + 41)
  BY Here, HereNames, HereInPool DEF IInv, TypeOK
<1>2. /\ insn.imm \in 0..(2^18 - 1)
      /\ \/ is_in_fixing_range(To(idx))
         \/ Either(insn.rd, insn.byte) = insn.rd
         \/ d >= TrampolineSize + 2^18
         \/ d < -2^18
  BY <1>1, HereMovable DEF Movable, To
<1>3. a = To(idx)
  BY <1>1, <1>2 DEF Uint32
<1>4. fix_adr = Rewrite(a, isNear, w, long)
  BY DEF fix_adr
<1>5. Long(idx, ws)
  BY <1>1, <1>3 DEF Long
<1>6. CASE is_in_fixing_range(a) \/ isNear
  <2>1. rd = insn.rd
    <3>1. CASE is_in_fixing_range(a)
      BY <3>1
    <3>2. CASE ~is_in_fixing_range(a) /\ isNear
      <4>1. ~(d >= TrampolineSize + 2^18) /\ ~(d < -2^18)
        BY <1>1, <1>3, <3>2 DEF TrampolineSize, MaxInstructions
      <4>2. QED
        BY <1>2, <1>3, <3>2, <4>1
    <3>3. QED
      BY <1>6, <3>1, <3>2
  <2> HIDE DEF rd
  <2>2. w \in Words
    <3>1. Word("adr", idx, 0) \in Words
      BY <1>1, WordType DEF Ops, Kinds
    <3>2. QED
      BY <1>1, <2>1, <3>1 DEF Words, Insns
  <2>3. Says(idx, w)
    BY <1>1, <2>1 DEF Says, Word
  <2> HIDE DEF w, ws, a, isNear
  <2>4. long.ref = {} /\ long.ws = ws /\ long.start = outprx + long.pad
    BY DEF Moved
  <2> HIDE DEF long
  <2>5. StartsAt(idx, long.start, outprx, outprx + long.pad)
    BY <2>4 DEF StartsAt
  <2>6. QED
    BY <1>1, <1>3, <1>4, <1>5, <2>2, <2>3, <2>4, <2>5, RewriteRight
<1>7. CASE ~(is_in_fixing_range(a) \/ isNear)
  <2>1. fix_adr = long
    BY <1>4, <1>7 DEF Rewrite
  <2> HIDE DEF ws, w
  <2>2. long.ref = {} /\ long.ws = ws /\ long.start = outprx + long.pad
    BY DEF Moved
  <2>3. ~Inner(idx)
    BY <1>3, <1>7 DEF Inner
  <2> HIDE DEF long
  <2>4. QED
    BY <1>5, <2>1, <2>2, <2>3 DEF MovedRight, StartsAt
<1>8. QED
  BY <1>6, <1>7

LEMMA AdrpRight ==
  ASSUME TypeOK, idx < Count, insn.kind = "adrp", Supported
  PROVE  MovedRight(fix_adrp)
<1> DEFINE a    == PageStart(inprx) + Uint32(1024 * insn.imm)
           said == IF Pad(outprx) = 0 THEN outprx + RwShift ELSE outprx + 1
           ws   == LongLoad(idx, a, 0)
           m    == Moved(Pad(outprx), said, ws)
<1>1. /\ idx \in Nat /\ insn = program[idx + 1] /\ outprx \in Int
      /\ Pad(outprx) \in 0..1 /\ RwShift \in Int /\ inprx = base + idx
      /\ insn.imm \in Int
  BY Here, HereNames, HooksAssumption DEF inprx
<1>2. /\ insn.imm \in 0..(2^20 - 1)
      /\ ~is_in_fixing_range(PageStart(base + idx) + 1024 * insn.imm)
  BY <1>1, HereMovable DEF Movable
<1>3. a = PageStart(base + idx) + 1024 * insn.imm
  <2>1. Uint32(1024 * insn.imm) = 1024 * insn.imm
    BY <1>2 DEF Uint32
  <2>2. QED
    BY <1>1, <2>1
<1>4. fix_adrp = m
  BY <1>2, <1>3 DEF fix_adrp
<1>5. Long(idx, ws)
  BY <1>1, <1>3 DEF Long
<1> HIDE DEF ws, a
<1>6. m.ref = {} /\ m.ws = ws /\ m.start = said /\ m.pad = Pad(outprx)
  BY DEF Moved
<1>7. ~Inner(idx)
  BY <1>1 DEF Inner
<1> HIDE DEF m
<1>8. StartsAt(idx, m.start, outprx, outprx + m.pad)
  BY <1>1, <1>6 DEF StartsAt
<1>9. QED
  BY <1>4, <1>5, <1>6, <1>7, <1>8 DEF MovedRight

LEMMA FixedRight ==
  ASSUME IInv, idx < Count, Supported
  PROVE  MovedRight(Fixed)
<1>1. TypeOK /\ insn.kind \in Kinds
  BY HereNames DEF IInv
<1>2. CASE insn.kind \in {"b", "bl"}
  BY <1>1, <1>2, BranchRight DEF Fixed
<1>3. CASE insn.kind \in {"cond", "test"}
  BY <1>1, <1>3, ConditionRight DEF Fixed
<1>4. CASE insn.kind = "ldr"
  BY <1>4, LoadRight DEF Fixed
<1>5. CASE insn.kind = "prfm"
  BY <1>1, <1>5, PrefetchRight DEF Fixed
<1>6. CASE insn.kind = "adr"
  BY <1>6, AdrRight DEF Fixed
<1>7. CASE insn.kind = "adrp"
  BY <1>1, <1>7, AdrpRight DEF Fixed
<1>8. CASE insn.kind = "plain"
  BY <1>1, <1>8, PlainRight DEF Fixed
<1>9. QED
  BY <1>1, <1>2, <1>3, <1>4, <1>5, <1>6, <1>7, <1>8 DEF Kinds

-----------------------------------------------------------------------------
(* The trampoline as it is laid out *)

\* The words ws are at s.
Stands(ws, s) == \A j \in 1..Len(ws) : At(s + j - 1) = ws[j]

Padded(b, c) == \A x \in b..(c - 1) : At(x) = Nop

\* Where instruction k at c names one that moves, it has the distance to it, or
\* a reference waits for it.
Named(k, c) ==
  LET j == To(k) - base
  IN  IF j < idx THEN c + At(c).off = dat[j + 1]
      ELSE \E r \in fmap : r.to = j /\ r.at = c - out + 1

\* Instruction k is at c, behind padding from b, and ends before e.
BlockAt(k, b, c, e) ==
  /\ c \in b..(b + 3) /\ c <= e
  /\ StartsAt(k, dat[k + 1], b, c)
  /\ Padded(b, c)
  /\ IF Inner(k) THEN e = c + 1 /\ Says(k, At(c)) /\ Named(k, c)
     ELSE \E ws \in Seq(Words) : /\ e = c + Len(ws) /\ Stands(ws, c)
                                 /\ Short(k, c, ws) \/ Long(k, ws)

\* The jump back is at c, behind padding from b.
JumpAt(b, c) ==
  /\ c \in b..(b + 1)
  /\ Padded(b, c)
  /\ \E ws \in Seq(Words) :
       /\ outprx = c + Len(ws) /\ Stands(ws, c)
       /\ \/ c = b /\ ws = <<Word("b", 0, base + Count - c)>>
          \/ ws = LongJump(base + Count)

\* Each reference is from an instruction that names one that moves.
RefsFrom(core) ==
  \A r \in fmap :
    \E k \in 0..(idx - 1) :
      Inner(k) /\ r.to = To(k) - base /\ r.at = core[k] - out + 1

\* Instructions follow each other, instruction k at core[k], and then the jump.
Laid(beg, core) ==
  /\ beg \in [0..idx -> Int] /\ core \in [0..(idx - 1) -> Int]
  /\ beg[0] = out
  /\ \A i, j \in 0..idx : i <= j => beg[i] <= beg[j]
  /\ \A k \in 0..(idx - 1) : BlockAt(k, beg[k], core[k], beg[k + 1])
  /\ RefsFrom(core)
  /\ IF done THEN idx = Count /\ \E c \in Int : JumpAt(beg[idx], c)
     ELSE outprx = beg[idx]

LEMMA Parts ==
  ASSUME NEW s \in Seq(Words), NEW t \in Seq(Words)
  PROVE  /\ s \o t \in Seq(Words) /\ Len(s \o t) = Len(s) + Len(t)
         /\ \A j \in 1..Len(s) : (s \o t)[j] = s[j]
         /\ \A j \in 1..Len(t) : (s \o t)[Len(s) + j] = t[j]
<1>1. \A j \in 1..Len(s) : (s \o t)[j] = s[j]
  OBVIOUS
<1>2. \A j \in 1..Len(t) : (s \o t)[Len(s) + j] = t[j]
  OBVIOUS
<1>3. QED
  BY <1>1, <1>2, Concatenation

\* What the words are after a step.
LEMMA Written ==
  ASSUME IInv, MoveInstruction
  PROVE  LET m == Fixed
         IN  /\ outprx' = outprx + m.pad + Len(m.ws)
             /\ \A x \in out..(outprx - 1) :
                  At(x)' = IF \E r \in fmap : r.to = idx /\ r.at = x - out + 1
                             THEN [At(x) EXCEPT !.off = m.start - x] ELSE At(x)
             /\ \A x \in outprx..(outprx + m.pad - 1) : At(x)' = Nop
             /\ \A x \in (outprx + m.pad)..(outprx' - 1) :
                  At(x)' = m.ws[x - (outprx + m.pad) + 1]
<1> DEFINE m   == Fixed
           pad == Nops(m.pad)
           ws  == words \o pad \o m.ws
<1>1. /\ TypeOK /\ idx < Count /\ words \in Seq(Words) /\ out \in Nat
      /\ outprx = out + Len(words) /\ Len(words) \in Nat
  BY DEF IInv, TypeOK, MoveInstruction, outprx
<1>2. MovedWell(m)
  BY <1>1, FixedMovesWell
<1>3. words' = process_fix_map(ws, m.start) /\ out' = out
  BY DEF MoveInstruction
<1> HIDE DEF m
<1>4. /\ m.pad \in 0..3 /\ m.start \in Int /\ m.ws \in Seq(Words)
      /\ Len(m.ws) \in Nat
  BY <1>2 DEF MovedWell
<1>5. pad \in Seq(Words) /\ Len(pad) = m.pad /\ \A j \in 1..m.pad : pad[j] = Nop
  <2>1. m.pad \in Nat
    BY <1>4
  <2>2. pad \in Seq(Words) /\ Len(pad) = m.pad
    BY <2>1, NopsType
  <2>3. \A j \in 1..m.pad : pad[j] = Nop
    BY <2>1 DEF Nops
  <2>4. QED
    BY <2>2, <2>3
<1> HIDE DEF pad
<1>6. /\ words \o pad \in Seq(Words) /\ Len(words \o pad) = Len(words) + m.pad
      /\ \A j \in 1..Len(words) : (words \o pad)[j] = words[j]
      /\ \A j \in 1..m.pad : (words \o pad)[Len(words) + j] = pad[j]
  BY <1>1, <1>5
<1>7. /\ ws \in Seq(Words) /\ Len(ws) = Len(words) + m.pad + Len(m.ws)
      /\ \A j \in 1..(Len(words) + m.pad) : ws[j] = (words \o pad)[j]
      /\ \A j \in 1..Len(m.ws) : ws[Len(words) + m.pad + j] = m.ws[j]
  <2> DEFINE front == words \o pad
  <2>1. front \in Seq(Words) /\ Len(front) = Len(words) + m.pad
    BY <1>6
  <2> HIDE DEF front
  <2>2. /\ front \o m.ws \in Seq(Words)
        /\ Len(front \o m.ws) = Len(front) + Len(m.ws)
        /\ \A j \in 1..Len(front) : (front \o m.ws)[j] = front[j]
        /\ \A j \in 1..Len(m.ws) : (front \o m.ws)[Len(front) + j] = m.ws[j]
    BY <1>4, <2>1, Parts
  <2>3. QED
    BY <1>1, <1>4, <2>1, <2>2 DEF front
<1> HIDE DEF ws
<1>8. /\ Len(words') = Len(ws)
      /\ \A j \in 1..Len(ws) :
           words'[j] = IF \E r \in fmap : r.to = idx /\ r.at = j
                         THEN [ws[j] EXCEPT !.off = m.start - (out + j - 1)]
                         ELSE ws[j]
  <2>1. Len(words') = Len(ws)
    BY <1>1, <1>3, <1>4, <1>7, ProcessType
  <2>2. QED
    BY <1>3, <2>1 DEF process_fix_map
<1>9. outprx' = outprx + m.pad + Len(m.ws)
  BY <1>1, <1>3, <1>4, <1>7, <1>8 DEF outprx
<1>10. PICK p \in Nat, l \in Nat : p = m.pad /\ l = Len(m.ws)
  BY <1>4
<1>11. outprx' = outprx + p + l /\ Len(ws) = Len(words) + p + l
  BY <1>7, <1>9, <1>10
<1>12. /\ outprx \in Int /\ outprx' \in Int
       /\ outprx = out + Len(words) /\ outprx' = outprx + p + l
       /\ outprx' = out + Len(ws) /\ out \in Nat /\ Len(words) \in Nat
       /\ Len(ws) \in Nat
  BY <1>1, <1>11
<1>13. \A x \in out..(outprx' - 1) :
         At(x)' = words'[x - out + 1] /\ x - out + 1 \in 1..Len(ws)
  <2>1. TAKE x \in out..(outprx' - 1)
  <2>2. At(x)' = words'[x - out + 1]
    BY <1>3 DEF At, InTrampoline
  <2>3. x - out + 1 \in 1..Len(ws)
    BY <1>12
  <2>4. QED
    BY <2>2, <2>3
<1>14. \A r \in fmap : r.at \in 1..Len(words)
  BY <1>1 DEF TypeOK
<1>15. ASSUME NEW x \in out..(outprx - 1)
       PROVE  At(x)' = IF \E r \in fmap : r.to = idx /\ r.at = x - out + 1
                         THEN [At(x) EXCEPT !.off = m.start - x] ELSE At(x)
  <2> DEFINE j == x - out + 1
  <2>1. x \in out..(outprx' - 1) /\ j \in 1..Len(words) /\ out + j - 1 = x
    BY <1>1, <1>4, <1>9
  <2>2. At(x) = words[j]
    BY DEF At, InTrampoline
  <2>3. ws[j] = words[j]
    BY <1>4, <1>6, <1>7, <2>1
  <2>4. At(x)' = words'[j] /\ j \in 1..Len(ws)
    BY <1>13, <2>1
  <2> HIDE DEF j
  <2>5. At(x)' = IF \E r \in fmap : r.to = idx /\ r.at = j
                   THEN [At(x) EXCEPT !.off = m.start - x] ELSE At(x)
    BY <1>8, <2>1, <2>2, <2>3, <2>4
  <2>6. QED
    BY <2>5 DEF j
<1>16. ASSUME NEW x \in outprx..(outprx' - 1)
       PROVE  At(x)' = ws[x - out + 1]
  <2> DEFINE j == x - out + 1
  <2>1. x \in out..(outprx' - 1) /\ j > Len(words)
    BY <1>12
  <2>2. At(x)' = words'[j] /\ j \in 1..Len(ws)
    BY <1>13, <2>1
  <2>3. ~\E r \in fmap : r.to = idx /\ r.at = j
    BY <1>1, <1>14, <2>1
  <2> HIDE DEF j
  <2>4. At(x)' = ws[j]
    BY <1>8, <2>2, <2>3
  <2>5. QED
    BY <2>4 DEF j
<1>17. ASSUME NEW x \in outprx..(outprx + m.pad - 1)
       PROVE  At(x)' = Nop
  <2> DEFINE j == x - outprx + 1
  <2>0. x \in outprx..(outprx + p - 1)
    BY <1>10
  <2>1. x \in outprx..(outprx' - 1) /\ j \in 1..p /\ x - out + 1 = Len(words) + j
    BY <1>12, <2>0
  <2>2. At(x)' = ws[Len(words) + j]
    BY <1>16, <2>1
  <2>3. Len(words) + j \in 1..(Len(words) + m.pad) /\ j \in 1..m.pad
    BY <1>1, <1>10, <2>1
  <2> HIDE DEF j
  <2>4. QED
    BY <1>5, <1>6, <1>7, <2>2, <2>3
<1>18. ASSUME NEW x \in (outprx + m.pad)..(outprx' - 1)
       PROVE  At(x)' = m.ws[x - (outprx + m.pad) + 1]
  <2> DEFINE j == x - (outprx + m.pad) + 1
  <2>0. /\ x \in (outprx + p)..(outprx' - 1) /\ j = x - (outprx + p) + 1
    BY <1>10
  <2>1. /\ x \in outprx..(outprx' - 1) /\ j \in 1..l
        /\ x - out + 1 = Len(words) + p + j
    BY <1>12, <2>0
  <2>2. At(x)' = ws[Len(words) + p + j]
    BY <1>16, <2>1
  <2> HIDE DEF j
  <2>3. At(x)' = m.ws[j]
    BY <1>7, <1>10, <2>1, <2>2
  <2>4. QED
    BY <2>3 DEF j
<1>19. QED
  BY <1>9, <1>15, <1>17, <1>18 DEF m

\* What depends on the function alone stays.
LEMMA SameStart ==
  ASSUME UNCHANGED <<program, base, out>>
  PROVE  /\ Count' = Count
         /\ \A k : To(k)' = To(k) /\ (Inner(k)' <=> Inner(k))
         /\ \A k, w : Says(k, w)' <=> Says(k, w)
         /\ \A k, c, ws : Short(k, c, ws)' <=> Short(k, c, ws)
         /\ \A k, ws : Long(k, ws)' <=> Long(k, ws)
         /\ \A k, d, b, c : StartsAt(k, d, b, c)' <=> StartsAt(k, d, b, c)
<1>1. Count' = Count
  BY DEF Count
<1>2. \A k : To(k)' = To(k)
  BY DEF To
<1>3. \A a : is_in_fixing_range(a)' <=> is_in_fixing_range(a)
  BY <1>1 DEF is_in_fixing_range
<1>4. \A k : Inner(k)' <=> Inner(k)
  BY <1>2, <1>3 DEF Inner
<1>5. \A k, w : Says(k, w)' <=> Says(k, w)
  BY DEF Says
<1>6. \A k, c, ws : Short(k, c, ws)' <=> Short(k, c, ws)
  <2>1. TAKE k, c, ws
  <2>2. /\ To(k)' = To(k) /\ Pool' = Pool /\ program' = program
        /\ Says(k, ws[1])' <=> Says(k, ws[1])
    BY <1>2, <1>5 DEF Pool
  <2>3. QED
    BY <2>2 DEF Short
<1>7. \A k, ws : Long(k, ws)' <=> Long(k, ws)
  <2>1. TAKE k, ws
  <2>2. /\ To(k)' = To(k) /\ base' = base /\ program' = program
        /\ \A w : Says(k, w)' <=> Says(k, w)
    BY <1>2, <1>5
  <2>3. /\ \A w, n : CopiedLoad(k, w, n)' = CopiedLoad(k, w, n)
        /\ LongCondition(k)' = LongCondition(k)
    BY <2>2 DEF CopiedLoad, LongCondition
  <2>4. QED
    BY <2>2, <2>3 DEF Long
<1>8. \A k, d, b, c : StartsAt(k, d, b, c)' <=> StartsAt(k, d, b, c)
  BY DEF StartsAt
<1>9. QED
  BY <1>1, <1>2, <1>4, <1>5, <1>6, <1>7, <1>8

LEMMA Blocks ==
  ASSUME TypeOK, NEW beg, NEW core, Laid(beg, core), NEW k \in 0..(idx - 1)
  PROVE  /\ beg[k] \in Int /\ core[k] \in Int /\ beg[k + 1] \in Int
         /\ out <= beg[k] /\ beg[k] <= core[k] /\ core[k] <= beg[k + 1]
         /\ core[k] <= beg[k] + 3
         /\ beg[k + 1] <= beg[idx] /\ beg[idx] \in Int /\ beg[idx] <= outprx
         /\ done => beg[idx] < outprx
         /\ Inner(k) => beg[k + 1] = core[k] + 1
<1>1. idx \in Nat /\ k + 1 \in 0..idx /\ 0 \in 0..idx /\ idx \in 0..idx
      /\ k \in 0..idx /\ out \in Nat /\ outprx \in Int
  BY DEF TypeOK, idx, outprx
<1>2. beg[k] \in Int /\ core[k] \in Int /\ beg[k + 1] \in Int /\ beg[idx] \in Int
  BY <1>1 DEF Laid
<1>3. out <= beg[k] /\ beg[k + 1] <= beg[idx]
  BY <1>1 DEF Laid
<1>4. BlockAt(k, beg[k], core[k], beg[k + 1])
  BY DEF Laid
<1>5. CASE ~done
  BY <1>1, <1>2, <1>3, <1>4, <1>5 DEF Laid, BlockAt
<1>6. CASE done
  <2>1. PICK c \in Int : JumpAt(beg[idx], c)
    BY <1>6 DEF Laid
  <2>2. PICK ws \in Seq(Words) :
          /\ outprx = c + Len(ws)
          /\ \/ c = beg[idx] /\ ws = <<Word("b", 0, base + Count - c)>>
             \/ ws = LongJump(base + Count)
    BY <2>1 DEF JumpAt
  <2>3. Len(ws) \in Nat /\ Len(ws) > 0
    <3>1. CASE ws = <<Word("b", 0, base + Count - c)>>
      BY <3>1
    <3>2. CASE ws = LongJump(base + Count)
      <4>1. base + Count \in Int
        BY DEF TypeOK, Count
      <4>2. Len(LongJump(base + Count)) = 4
        BY <4>1, LongType
      <4>3. QED
        BY <3>2, <4>2
    <3>3. QED
      BY <2>2, <3>1, <3>2
  <2>4. c >= beg[idx]
    BY <1>2, <2>1 DEF JumpAt
  <2>5. beg[idx] < outprx
    BY <1>1, <1>2, <2>2, <2>3, <2>4
  <2>6. QED
    BY <1>1, <1>2, <1>3, <1>4, <2>5 DEF BlockAt
<1>7. QED
  BY <1>5, <1>6

LEMMA Apart ==
  ASSUME TypeOK, NEW beg, NEW core, Laid(beg, core),
         NEW k \in 0..(idx - 1), NEW i \in 0..(idx - 1), Inner(i),
         core[i] \in beg[k]..(beg[k + 1] - 1)
  PROVE  k = i
<1>1. /\ beg[k] \in Int /\ beg[k + 1] \in Int /\ beg[i] \in Int /\ core[i] \in Int
      /\ beg[i] <= core[i] /\ beg[i + 1] = core[i] + 1
  BY Blocks
<1>2. \A a, b \in 0..idx : a <= b => beg[a] <= beg[b]
  BY DEF Laid
<1>3. idx \in Nat
  BY DEF TypeOK, idx
<1>4. CASE i < k
  <2>1. beg[i + 1] <= beg[k]
    BY <1>2, <1>3, <1>4
  <2>2. QED
    BY <1>1, <2>1
<1>5. CASE k < i
  <2>1. beg[k + 1] <= beg[i]
    BY <1>2, <1>3, <1>5
  <2>2. QED
    BY <1>1, <2>1
<1>6. QED
  BY <1>4, <1>5

\* A block stays where the trampoline grows, but for its reference to the
\* instruction that moves now.
LEMMA OldBlockKept ==
  ASSUME IInv, Supported, MoveInstruction, NEW beg, NEW core, Laid(beg, core),
         NEW k \in 0..(idx - 1), NEW b, NEW c, NEW e,
         b = beg[k], c = core[k], e = beg[k + 1]
  PROVE  BlockAt(k, b, c, e)'
<1> DEFINE st == Fixed.start
<1>1. /\ TypeOK /\ idx \in Nat /\ UNCHANGED <<program, base, out>>
      /\ idx < Count /\ out \in Nat /\ base \in Nat
  BY DEF IInv, TypeOK, MoveInstruction, idx
<1>2. /\ b \in Int /\ c \in Int /\ e \in Int /\ out <= b /\ b <= c /\ c <= e
      /\ e <= outprx /\ outprx \in Int
      /\ Inner(k) => e = c + 1
  BY <1>1, Blocks, Here
<1>3. BlockAt(k, b, c, e)
  BY DEF Laid
<1>4. /\ dat' = Append(dat, st) /\ st \in Int /\ idx' = idx + 1
      /\ dat'[k + 1] = dat[k + 1] /\ dat'[idx + 1] = st
  <2>1. dat' = Append(dat, st) /\ MovedWell(Fixed)
    BY <1>1, FixedMovesWell DEF MoveInstruction
  <2>2. dat \in Seq(Int) /\ st \in Int /\ k + 1 \in 1..Len(dat)
    BY <1>1, <2>1 DEF TypeOK, MovedWell, idx
  <2> HIDE DEF st
  <2>3. QED
    BY <2>1, <2>2 DEF idx
<1>5. \A x \in out..(outprx - 1) :
        At(x)' = IF \E r \in fmap : r.to = idx /\ r.at = x - out + 1
                   THEN [At(x) EXCEPT !.off = st - x] ELSE At(x)
  BY Written
<1> HIDE DEF st
<1>6. \A x \in b..(e - 1) :
        (\E r \in fmap : r.to = idx /\ r.at = x - out + 1)
          => Inner(k) /\ x = c /\ To(k) - base = idx
  <2>1. SUFFICES ASSUME NEW x \in b..(e - 1), NEW r \in fmap,
                        r.to = idx, r.at = x - out + 1
                 PROVE  Inner(k) /\ x = c /\ To(k) - base = idx
    OBVIOUS
  <2>2. PICK i \in 0..(idx - 1) :
          Inner(i) /\ r.to = To(i) - base /\ r.at = core[i] - out + 1
    BY DEF Laid, RefsFrom
  <2>3. core[i] \in Int
    BY <1>1, Blocks
  <2>4. core[i] = x
    BY <1>1, <1>2, <2>1, <2>2, <2>3
  <2>5. k = i
    BY <1>1, <2>2, <2>4, Apart
  <2>6. QED
    BY <2>1, <2>2, <2>4, <2>5
<1>7. \A x \in b..(e - 1) : x # c \/ ~Inner(k) => At(x)' = At(x)
  <2>1. TAKE x \in b..(e - 1)
  <2>2. x \in out..(outprx - 1)
    BY <1>1, <1>2
  <2>3. QED
    BY <1>5, <1>6, <2>2
<1>8. Padded(b, c)'
  <2>1. Padded(b, c)
    BY <1>3 DEF BlockAt
  <2>2. \A x \in b..(c - 1) : x \in b..(e - 1) /\ x # c
    BY <1>2
  <2>3. QED
    BY <1>7, <2>1, <2>2 DEF Padded
<1>9. StartsAt(k, dat[k + 1], b, c)'
  <2>1. PICK d : d = dat[k + 1]
    OBVIOUS
  <2>2. StartsAt(k, d, b, c)
    BY <1>3, <2>1 DEF BlockAt
  <2>3. dat'[k + 1] = d
    BY <1>4, <2>1
  <2>4. QED
    BY <1>1, <2>2, <2>3 DEF StartsAt
<1>10. CASE Inner(k)
  <2>1. Says(k, At(c)) /\ Named(k, c) /\ c \in b..(e - 1) /\ c \in out..(outprx - 1)
    BY <1>1, <1>2, <1>3, <1>10 DEF BlockAt
  <2>2. At(c) \in Words
    BY <1>1, <2>1 DEF At, InTrampoline, TypeOK, outprx
  <2>3. At(c)' = At(c) \/ At(c)' = [At(c) EXCEPT !.off = st - c]
    BY <1>5, <2>1
  <2>4. Says(k, At(c))'
    <3>1. PICK w : w = At(c)'
      OBVIOUS
    <3>2. Says(k, w)
      BY <2>1, <2>2, <2>3, <3>1 DEF Says, Words
    <3>3. QED
      BY <1>1, <3>1, <3>2 DEF Says
  <2>5. Named(k, c)'
    <3>1. PICK j \in Int : j = To(k) - base
      BY <1>1, <1>10 DEF Inner, is_in_fixing_range
    <3>2. j \in 0..(Count - 1) /\ To(k)' - base' = j
      <4>1. To(k) \in base..(base + Count - 1) /\ Count \in Nat
        BY <1>1, <1>10, Here DEF Inner, is_in_fixing_range
      <4>2. To(k)' = To(k) /\ base' = base
        BY <1>1, SameStart
      <4>3. QED
        BY <1>1, <3>1, <4>1, <4>2
    <3>3. CASE j < idx
      <4>1. c + At(c).off = dat[j + 1]
        BY <2>1, <3>1, <3>3 DEF Named
      <4>2. At(c)' = At(c)
        BY <1>1, <1>5, <1>6, <2>1, <3>1, <3>3
      <4>3. dat'[j + 1] = dat[j + 1]
        BY <1>1, <1>4, <3>2, <3>3 DEF TypeOK, idx
      <4>4. j < idx'
        BY <1>1, <1>4, <3>3
      <4>5. QED
        BY <3>2, <4>1, <4>2, <4>3, <4>4 DEF Named
    <3>4. CASE j = idx
      <4>1. \E r \in fmap : r.to = idx /\ r.at = c - out + 1
        BY <1>1, <2>1, <3>1, <3>4 DEF Named
      <4>2. At(c)' = [At(c) EXCEPT !.off = st - c]
        BY <1>5, <2>1, <4>1
      <4>3. At(c)'.off = st - c
        BY <2>2, <4>2 DEF Words
      <4>4. c + At(c)'.off = st
        BY <1>2, <1>4, <4>3
      <4>5. idx \in Nat /\ idx' = idx + 1 /\ dat'[idx + 1] = st
        BY <1>1, <1>4
      <4>6. j < idx' /\ dat'[j + 1] = st
        BY <3>4, <4>5
      <4>7. QED
        BY <3>2, <4>4, <4>6 DEF Named
    <3>5. CASE j > idx
      <4>1. PICK r \in fmap : r.to = j /\ r.at = c - out + 1
        BY <1>1, <2>1, <3>1, <3>5 DEF Named
      <4>2. r \in fmap' /\ ~(j < idx')
        BY <1>1, <1>4, <3>1, <3>5 DEF MoveInstruction
      <4>3. QED
        BY <1>1, <3>2, <4>1, <4>2 DEF Named
    <3>6. QED
      BY <1>1, <3>1, <3>3, <3>4, <3>5
  <2>6. Inner(k)'
    BY <1>1, <1>10, SameStart
  <2>7. QED
    BY <1>2, <1>3, <1>8, <1>9, <1>10, <2>4, <2>5, <2>6 DEF BlockAt
<1>11. CASE ~Inner(k)
  <2>1. PICK ws \in Seq(Words) : /\ e = c + Len(ws) /\ Stands(ws, c)
                                 /\ Short(k, c, ws) \/ Long(k, ws)
    BY <1>3, <1>11 DEF BlockAt
  <2>2. Stands(ws, c)'
    <3>1. SUFFICES ASSUME NEW j \in 1..Len(ws)
                   PROVE  At(c + j - 1)' = ws[j]
      BY DEF Stands
    <3>2. c + j - 1 \in b..(e - 1)
      BY <1>2, <2>1
    <3>3. At(c + j - 1) = ws[j]
      BY <2>1 DEF Stands
    <3>4. QED
      BY <1>7, <1>11, <3>2, <3>3
  <2>3. ~Inner(k)' /\ (Short(k, c, ws)' \/ Long(k, ws)')
    BY <1>1, <1>11, <2>1, SameStart
  <2>4. QED
    BY <1>2, <1>3, <1>8, <1>9, <2>1, <2>2, <2>3 DEF BlockAt
<1>12. QED
  BY <1>10, <1>11

\* The instruction that moves is a block behind the others.
LEMMA NewBlock ==
  ASSUME IInv, Supported, MoveInstruction, NEW k, NEW b, NEW c, NEW e,
         k = idx, b = outprx, c = outprx + Fixed.pad, e = outprx'
  PROVE  BlockAt(k, b, c, e)'
<1> DEFINE m == Fixed
<1>1. /\ TypeOK /\ k \in Nat /\ UNCHANGED <<program, base, out>>
      /\ idx < Count /\ out \in Nat /\ base \in Nat /\ Count \in Nat
      /\ dat \in Seq(Int) /\ k = Len(dat)
      /\ b \in Int /\ b = out + Len(words) /\ Len(words) \in Nat
  BY Here DEF IInv, TypeOK, MoveInstruction, idx, outprx
<1>2. MovedWell(m) /\ MovedRight(m)
  BY <1>1, FixedMovesWell, FixedRight
<1>3. dat' = Append(dat, m.start) /\ fmap' = fmap \cup m.ref
  BY DEF MoveInstruction
<1>4. /\ e = b + m.pad + Len(m.ws)
      /\ \A x \in b..(b + m.pad - 1) : At(x)' = Nop
      /\ \A x \in (b + m.pad)..(e - 1) : At(x)' = m.ws[x - (b + m.pad) + 1]
  BY Written
<1> HIDE DEF m
<1>5. /\ m.pad \in 0..3 /\ m.start \in Int /\ m.ws \in Seq(Words)
      /\ Len(m.ws) \in Nat /\ c = b + m.pad /\ c \in b..(b + 3) /\ c \in Int
      /\ c <= e /\ e = c + Len(m.ws) /\ e \in Int
  <2>1. m.pad \in 0..3 /\ m.start \in Int /\ m.ws \in Seq(Words)
    BY <1>2 DEF MovedWell
  <2>2. c = b + m.pad
    BY DEF m
  <2>3. QED
    BY <1>1, <1>4, <2>1, <2>2
<1>6. idx' = k + 1 /\ dat'[k + 1] = m.start
  <2>1. PICK st \in Int : st = m.start
    BY <1>5
  <2>2. dat' = Append(dat, st)
    BY <1>3, <2>1
  <2>3. Len(dat') = Len(dat) + 1 /\ dat'[Len(dat) + 1] = st
    BY <1>1, <2>2
  <2>4. idx' = Len(dat') /\ k = Len(dat) /\ k \in Nat /\ dat \in Seq(Int)
    BY <1>1 DEF idx
  <2>5. Len(dat) + 1 = k + 1
    BY <2>4
  <2>6. idx' = k + 1
    BY <2>3, <2>4, <2>5
  <2>7. dat'[k + 1] = m.start
    BY <2>1, <2>3, <2>5
  <2>8. QED
    BY <2>6, <2>7
<1>7. Padded(b, c)'
  <2>0. c = b + m.pad /\ b \in Int /\ m.pad \in Int
    BY <1>1, <1>5
  <2>1. b + m.pad - 1 = c - 1
    BY <2>0
  <2>2. \A x \in b..(c - 1) : At(x)' = Nop
    BY <1>4, <2>1
  <2>3. QED
    BY <2>2 DEF Padded, Nop, Word
<1>8. \A x \in c..(e - 1) : At(x)' = m.ws[x - c + 1]
  BY <1>4, <1>5
<1>9. StartsAt(k, dat[k + 1], b, c)'
  <2>1. PICK d : d = m.start
    OBVIOUS
  <2>2. StartsAt(k, d, b, c)
    BY <1>2, <1>5, <2>1 DEF MovedRight
  <2>3. dat'[k + 1] = d
    BY <1>6, <2>1
  <2>4. QED
    BY <1>1, <2>2, <2>3 DEF StartsAt
<1>10. CASE Inner(k)
  <2>1. PICK j \in 0..(Count - 1) : j = To(k) - base
    BY <1>1, <1>10 DEF Inner, is_in_fixing_range
  <2>2. /\ m.pad = 0 /\ m.start = b /\ Len(m.ws) = 1 /\ Says(k, m.ws[1])
        /\ IF j <= k
             THEN b + m.ws[1].off = Append(dat, b)[j + 1]
             ELSE m.ref = {[to |-> j, at |-> Len(words) + 1]}
    BY <1>2, <1>10, <2>1 DEF MovedRight
  <2>3. e = c + 1 /\ c = b /\ c \in c..(e - 1) /\ c - c + 1 = 1
    BY <1>1, <1>5, <2>2
  <2>4. At(c)' = m.ws[1]
    BY <1>8, <2>3
  <2>5. Says(k, At(c))'
    <3>1. PICK w : w = m.ws[1]
      OBVIOUS
    <3>2. Says(k, w) /\ At(c)' = w
      BY <2>2, <2>4, <3>1
    <3>3. QED
      BY <1>1, <3>2 DEF Says
  <2>6. To(k)' - base' = j /\ Inner(k)'
    BY <1>1, <1>10, <2>1, SameStart
  <2>7. Named(k, c)'
    <3>1. CASE j <= k
      <4>1. c + At(c)'.off = Append(dat, b)[j + 1]
        BY <2>2, <2>3, <2>4, <3>1
      <4>2. Append(dat, b)[j + 1] = dat'[j + 1]
        BY <1>3, <2>2
      <4>3. j < idx'
        BY <1>1, <1>6, <2>1, <3>1
      <4>4. QED
        BY <2>6, <4>1, <4>2, <4>3 DEF Named
    <3>2. CASE ~(j <= k)
      <4> DEFINE r == [to |-> j, at |-> Len(words) + 1]
      <4>1. r \in fmap'
        BY <1>3, <2>2, <3>2
      <4>2. r.to = j /\ r.at = c - out + 1
        BY <1>1, <2>3
      <4> HIDE DEF r
      <4>3. ~(j < idx')
        BY <1>1, <1>6, <2>1, <3>2
      <4>4. QED
        BY <1>1, <2>6, <4>1, <4>2, <4>3 DEF Named
    <3>3. QED
      BY <3>1, <3>2
  <2>8. QED
    BY <1>5, <1>7, <1>9, <2>3, <2>5, <2>6, <2>7 DEF BlockAt
<1>11. CASE ~Inner(k)
  <2>1. PICK ws \in Seq(Words) : ws = m.ws
    BY <1>5
  <2>2. Short(k, c, ws) \/ Long(k, ws)
    BY <1>2, <1>5, <1>11, <2>1 DEF MovedRight
  <2>3. ~Inner(k)' /\ (Short(k, c, ws)' \/ Long(k, ws)')
    BY <1>1, <1>11, <2>2, SameStart
  <2>4. Stands(ws, c)'
    <3>1. SUFFICES ASSUME NEW j \in 1..Len(ws)
                   PROVE  At(c + j - 1)' = ws[j]
      BY DEF Stands
    <3>2. c + j - 1 \in c..(e - 1) /\ (c + j - 1) - c + 1 = j
      BY <1>5, <2>1
    <3>3. QED
      BY <1>8, <2>1, <3>2
  <2>5. e = c + Len(ws)
    BY <1>5, <2>1
  <2>6. QED
    BY <1>5, <1>7, <1>9, <2>1, <2>3, <2>4, <2>5 DEF BlockAt
<1>12. QED
  BY <1>10, <1>11

LEMMA MoveLays ==
  ASSUME IInv, Supported, MoveInstruction, NEW beg, NEW core, Laid(beg, core)
  PROVE  (\E b, c : Laid(b, c))'
<1>1. PICK n \in Nat : n = idx
  BY DEF idx, IInv, TypeOK
<1>2. PICK s : s = outprx + Fixed.pad
  OBVIOUS
<1>3. PICK e : e = outprx'
  OBVIOUS
<1>4. PICK b2, c2 : /\ b2 = [i \in 0..(n + 1) |-> IF i <= n THEN beg[i] ELSE e]
                    /\ c2 = [i \in 0..n |-> IF i < n THEN core[i] ELSE s]
  OBVIOUS
<1>5. /\ TypeOK /\ idx < Count /\ ~done /\ done' = done
      /\ UNCHANGED <<program, base, out>>
      /\ dat' = Append(dat, Fixed.start) /\ fmap' = fmap \cup Fixed.ref
      /\ outprx \in Int /\ outprx = beg[n] /\ outprx = out + Len(words)
      /\ Len(words) \in Nat /\ out \in Nat
  <2>1. TypeOK /\ idx < Count
    BY DEF IInv, MoveInstruction
  <2>2. Count \in Int
    BY <2>1, Here
  <2>3. ~done
    BY <1>1, <2>1, <2>2 DEF Laid
  <2>4. QED
    BY <1>1, <2>1, <2>3, Here DEF MoveInstruction, Laid, outprx, TypeOK
<1>6. idx' = n + 1
  BY <1>1, <1>5 DEF idx, TypeOK
<1>7. BlockAt(n, beg[n], s, e)'
  <2>1. PICK b : b = beg[n]
    OBVIOUS
  <2>2. BlockAt(n, b, s, e)'
    BY <1>1, <1>2, <1>3, <1>5, <2>1, NewBlock
  <2>3. QED
    BY <2>1, <2>2
<1>8. /\ s \in Int /\ e \in Int /\ s \in outprx..(outprx + 3) /\ s <= e
  <2>1. MovedWell(Fixed)
    BY <1>5, FixedMovesWell
  <2>2. Fixed.pad \in 0..3 /\ Fixed.ws \in Seq(Words)
    BY <2>1 DEF MovedWell
  <2>3. Len(Fixed.ws) \in Nat /\ e = outprx + Fixed.pad + Len(Fixed.ws)
    BY <1>3, <2>2, Written
  <2>4. QED
    BY <1>2, <1>5, <2>2, <2>3
<1>9. /\ beg \in [0..n -> Int] /\ core \in [0..(n - 1) -> Int] /\ beg[0] = out
      /\ \A i, j \in 0..n : i <= j => beg[i] <= beg[j]
  BY <1>1 DEF Laid
<1>10. /\ b2 \in [0..(n + 1) -> Int] /\ c2 \in [0..n -> Int]
       /\ \A i \in 0..n : b2[i] = beg[i]
       /\ b2[n + 1] = e /\ c2[n] = s
       /\ \A i \in 0..(n - 1) : c2[i] = core[i]
  BY <1>4, <1>1, <1>8, <1>9
<1>11. \A i, j \in 0..(n + 1) : i <= j => b2[i] <= b2[j]
  <2>1. SUFFICES ASSUME NEW i \in 0..(n + 1), NEW j \in 0..(n + 1), i <= j
                 PROVE  b2[i] <= b2[j]
    OBVIOUS
  <2>2. CASE j \in 0..n
    <3>1. i \in 0..n
      BY <2>1, <2>2
    <3>2. QED
      BY <1>9, <1>10, <2>1, <2>2, <3>1
  <2>3. CASE j = n + 1 /\ i \in 0..n
    <3>1. beg[i] <= beg[n] /\ beg[i] \in Int /\ beg[n] \in Int
      BY <1>1, <1>9, <2>3
    <3>2. beg[n] <= e
      BY <1>5, <1>8
    <3>3. QED
      BY <1>8, <1>10, <2>3, <3>1, <3>2
  <2>4. CASE j = n + 1 /\ i = n + 1
    BY <1>8, <1>10, <2>4
  <2>5. QED
    BY <1>1, <2>2, <2>3, <2>4
<1>12. \A k \in 0..n : BlockAt(k, b2[k], c2[k], b2[k + 1])'
  <2>1. TAKE k \in 0..n
  <2>2. CASE k = n
    <3>1. b2[k] = beg[n] /\ c2[k] = s /\ b2[k + 1] = e
      BY <1>1, <1>10, <2>2
    <3>2. QED
      BY <1>7, <2>2, <3>1
  <2>3. CASE k \in 0..(n - 1)
    <3>1. b2[k] = beg[k] /\ c2[k] = core[k] /\ b2[k + 1] = beg[k + 1]
      BY <1>1, <1>10, <2>3
    <3>2. PICK b, c, f : b = beg[k] /\ c = core[k] /\ f = beg[k + 1]
      OBVIOUS
    <3>3. BlockAt(k, b, c, f)'
      BY <1>1, <2>3, <3>2, OldBlockKept
    <3>4. QED
      BY <3>1, <3>2, <3>3
  <2>4. QED
    BY <1>1, <2>2, <2>3
<1>13. RefsFrom(c2)'
  <2>1. SUFFICES ASSUME NEW r \in fmap'
                 PROVE  \E k \in 0..n : /\ Inner(k)' /\ r.to = To(k)' - base'
                                        /\ r.at = c2[k] - out' + 1
    BY <1>1, <1>6 DEF RefsFrom
  <2>2. CASE r \in fmap
    <3>1. PICK k \in 0..(n - 1) :
            Inner(k) /\ r.to = To(k) - base /\ r.at = core[k] - out + 1
      BY <1>1, <2>2 DEF Laid, RefsFrom
    <3>2. k \in 0..n /\ c2[k] = core[k]
      BY <1>1, <1>10
    <3>3. Inner(k)' /\ To(k)' = To(k)
      BY <1>5, <3>1, SameStart
    <3>4. QED
      BY <1>5, <3>1, <3>2, <3>3
  <2>3. CASE r \in Fixed.ref
    <3>1. MovedRight(Fixed)
      BY <1>5, FixedRight
    <3>2. /\ Inner(n) /\ Fixed.pad = 0
          /\ r = [to |-> To(n) - base, at |-> Len(words) + 1]
      BY <1>1, <2>3, <3>1 DEF MovedRight
    <3>3. Inner(n)' /\ To(n)' = To(n)
      BY <1>5, <3>2, SameStart
    <3>4. c2[n] = out + Len(words) /\ n \in 0..n
      BY <1>1, <1>2, <1>5, <1>10, <3>2
    <3>5. r.to = To(n)' - base' /\ r.at = c2[n] - out' + 1
      BY <1>5, <3>2, <3>3, <3>4
    <3>6. QED
      BY <3>3, <3>4, <3>5
  <2>4. QED
    BY <1>5, <2>2, <2>3
<1>14. ~done' /\ outprx' = b2[n + 1] /\ b2[0] = out'
  <2>1. ~done'
    BY <1>5
  <2>2. outprx' = b2[n + 1]
    BY <1>3, <1>10
  <2>3. 0 \in 0..n
    OBVIOUS
  <2>4. b2[0] = beg[0]
    BY <1>10, <2>3
  <2>5. QED
    BY <1>5, <1>9, <2>1, <2>2, <2>4
<1>15. Laid(b2, c2)'
  BY <1>1, <1>6, <1>10, <1>11, <1>12, <1>13, <1>14 DEF Laid
<1>16. QED
  BY <1>15

\* The jump back is written behind the last instruction.
LEMMA JumpWritten ==
  ASSUME IInv, JumpBack, ~done
  PROVE  /\ \A x \in out..(outprx - 1) : At(x)' = At(x)
         /\ \A b : b = outprx => \E c \in Int : JumpAt(b, c)'
<1> DEFINE near  == Within(inprx, 2^25 - 1)
           short == <<Word("b", 0, inprx - outprx)>>
           pad   == IF near THEN <<>> ELSE Nops(Pad(outprx))
           jump  == IF near THEN short ELSE LongJump(inprx)
           ws    == words \o pad
           new   == IF near THEN short ELSE Nops(Pad(outprx)) \o LongJump(inprx)
<1>1. /\ TypeOK /\ idx = Count /\ words \in Seq(Words) /\ Len(words) \in Nat
      /\ out \in Nat /\ base \in Nat /\ idx \in Nat
      /\ outprx = out + Len(words) /\ inprx = base + Count
      /\ outprx \in Int /\ inprx \in Int /\ Pad(outprx) \in {0, 1}
  BY DEF IInv, TypeOK, JumpBack, idx, outprx, inprx, Pad
<1>2. words' = words \o new /\ UNCHANGED <<program, base, out>>
  <2>1. CASE near
    BY <2>1, Zenon DEF JumpBack
  <2>2. CASE ~near
    BY <2>2, Zenon DEF JumpBack
  <2>3. QED
    BY <2>1, <2>2
<1>3. pad \in Seq(Words) /\ Len(pad) \in 0..1 /\ \A j \in 1..Len(pad) : pad[j] = Nop
  <2>1. CASE near
    <3>1. pad = <<>>
      BY <2>1
    <3> HIDE DEF pad
    <3>2. QED
      BY <3>1
  <2>2. CASE ~near
    <3>1. PICK p \in Nat : p = Pad(outprx) /\ p \in 0..1
      BY <1>1
    <3>2. pad = Nops(p)
      BY <2>2, <3>1
    <3>3. Nops(p) \in Seq(Words) /\ Len(Nops(p)) = p
      BY NopsType
    <3>4. \A j \in 1..p : Nops(p)[j] = Nop
      BY DEF Nops
    <3>5. QED
      BY <3>1, <3>2, <3>3, <3>4
  <2>3. QED
    BY <2>1, <2>2
<1>4. jump \in Seq(Words)
  <2>1. CASE near
    <3>1. Word("b", 0, inprx - outprx) \in Words
      BY <1>1, WordType DEF Ops, Kinds
    <3>2. QED
      BY <2>1, <3>1
  <2>2. CASE ~near
    BY <1>1, <2>2, LongType
  <2>3. QED
    BY <2>1, <2>2
<1>5. \/ jump = <<Word("b", 0, inprx - outprx)>> /\ pad = <<>>
      \/ jump = LongJump(inprx)
  OBVIOUS
<1>6. new = pad \o jump
  <2>1. CASE near
    <3>1. pad = <<>> /\ jump = new
      BY <2>1
    <3> HIDE DEF pad, jump, new
    <3>2. QED
      BY <1>4, <3>1
  <2>2. CASE ~near
    BY <2>2, Zenon
  <2>3. QED
    BY <2>1, <2>2
<1> HIDE DEF pad, jump, new, near, short
<1>7. words' = ws \o jump
  <2>1. words \in Seq(Words) /\ pad \in Seq(Words) /\ jump \in Seq(Words)
    BY <1>1, <1>3, <1>4
  <2>2. words \o (pad \o jump) = (words \o pad) \o jump
    BY <2>1, ConcatAssociative
  <2>3. QED
    BY <1>2, <1>6, <2>2
<1>8. /\ ws \in Seq(Words) /\ Len(ws) = Len(words) + Len(pad)
      /\ \A j \in 1..Len(words) : ws[j] = words[j]
      /\ \A j \in 1..Len(pad) : ws[Len(words) + j] = pad[j]
  BY <1>1, <1>3, Parts
<1> HIDE DEF ws
<1>9. /\ Len(words') = Len(ws) + Len(jump)
      /\ \A j \in 1..Len(ws) : words'[j] = ws[j]
      /\ \A j \in 1..Len(jump) : words'[Len(ws) + j] = jump[j]
  BY <1>4, <1>7, <1>8, Parts
<1>10. PICK p \in 0..1, l \in Nat, n \in Nat : p = Len(pad) /\ l = Len(jump) /\ n = Len(words)
  BY <1>1, <1>3, <1>4
<1>11. /\ outprx = out + n /\ Len(ws) = n + p /\ outprx' = out + n + p + l
       /\ Len(words') = n + p + l
  <2>1. outprx = out + n
    BY <1>1, <1>10
  <2>2. Len(ws) = n + p
    BY <1>8, <1>10
  <2>3. Len(words') = n + p + l
    BY <1>9, <1>10, <2>2
  <2>4. outprx' = out' + Len(words')
    BY DEF outprx
  <2>5. QED
    BY <1>1, <1>2, <2>1, <2>2, <2>3, <2>4
<1>12. \A x \in out..(outprx' - 1) : At(x)' = words'[x - out + 1]
  BY <1>2 DEF At, InTrampoline
<1>13. ASSUME NEW x \in out..(outprx - 1)
       PROVE  At(x)' = At(x)
  <2>1. x \in out..(outprx' - 1) /\ x - out + 1 \in 1..n /\ x - out + 1 \in 1..Len(ws)
    BY <1>1, <1>11
  <2>2. At(x) = words[x - out + 1]
    BY DEF At, InTrampoline
  <2>3. QED
    BY <1>8, <1>9, <1>10, <1>12, <2>1, <2>2
<1>14. ASSUME NEW b, b = outprx
       PROVE  \E c \in Int : JumpAt(b, c)'
  <2>1. PICK c \in Int : c = b + p
    BY <1>1, <1>14
  <2>2. c \in b..(b + 1) /\ b \in Int /\ b = out + n
    BY <1>1, <1>11, <1>14, <2>1
  <2>3. Padded(b, c)'
    <3>1. SUFFICES ASSUME NEW x \in b..(c - 1)
                   PROVE  At(x)' = Nop
      BY DEF Padded, Nop, Word
    <3>2. PICK j \in 1..p : x - out + 1 = n + j
      <4>1. x - b + 1 \in 1..p /\ x - out + 1 = n + (x - b + 1)
        BY <1>1, <2>1, <2>2
      <4>2. QED
        BY <4>1
    <3>3. x \in out..(outprx' - 1) /\ n + j \in 1..Len(ws)
      BY <1>1, <1>11, <2>1, <2>2, <3>2
    <3>4. At(x)' = words'[n + j]
      BY <1>12, <3>2, <3>3
    <3>5. words'[n + j] = ws[n + j]
      BY <1>9, <3>3
    <3>6. ws[n + j] = Nop
      BY <1>3, <1>8, <1>10
    <3>7. QED
      BY <3>4, <3>5, <3>6
  <2>4. PICK js \in Seq(Words) : js = jump
    BY <1>4
  <2>5. Stands(js, c)'
    <3>1. SUFFICES ASSUME NEW j \in 1..Len(js)
                   PROVE  At(c + j - 1)' = js[j]
      BY DEF Stands
    <3>2. j \in 1..l /\ Len(js) = l
      BY <1>10, <2>4
    <3>3. /\ c + j - 1 \in out..(outprx' - 1)
          /\ (c + j - 1) - out + 1 = Len(ws) + j
      BY <1>1, <1>11, <2>1, <2>2, <3>2
    <3>4. At(c + j - 1)' = words'[Len(ws) + j]
      BY <1>12, <3>3
    <3>5. QED
      BY <1>9, <1>10, <2>4, <3>2, <3>4
  <2>6. outprx' = c + Len(js)
    BY <1>1, <1>10, <1>11, <2>1, <2>2, <2>4
  <2>7. base' + Count' = inprx
    BY <1>1, <1>2 DEF Count
  <2>8. \/ c = b /\ js = <<Word("b", 0, base' + Count' - c)>>
        \/ js = LongJump(base' + Count')
    <3>1. CASE js = <<Word("b", 0, inprx - outprx)>> /\ pad = <<>>
      <4>1. p = 0
        BY <1>10, <3>1
      <4>2. c = b
        BY <2>1, <2>2, <4>1
      <4>3. c = outprx
        BY <1>14, <4>2
      <4>4. base' + Count' - c = inprx - outprx
        <5>1. PICK i \in Int, q \in Int : i = base' /\ q = Count'
          <6>1. base' \in Int /\ Count' \in Int
            BY <1>1, <1>2 DEF Count
          <6>2. QED
            BY <6>1
        <5>2. i + q = inprx
          BY <2>7, <5>1
        <5>3. i + q - c = inprx - outprx
          BY <1>1, <4>3, <5>2
        <5>4. QED
          BY <5>1, <5>3
      <4>5. QED
        BY <3>1, <4>2, <4>4
    <3>2. CASE js = LongJump(inprx)
      BY <2>7, <3>2
    <3>3. QED
      BY <1>5, <2>4, <3>1, <3>2
  <2>9. QED
    BY <2>2, <2>3, <2>5, <2>6, <2>8 DEF JumpAt
<1>15. QED
  BY <1>13, <1>14

LEMMA JumpBackLays ==
  ASSUME IInv, JumpBack, NEW beg, NEW core, Laid(beg, core)
  PROVE  Laid(beg, core)'
<1>1. PICK n \in Nat : n = idx
  BY DEF idx, IInv, TypeOK
<1>2. /\ TypeOK /\ ~done /\ done' /\ idx' = n /\ Count' = n
      /\ UNCHANGED <<program, base, out, dat, fmap>>
      /\ out \in Nat /\ outprx \in Int
  BY <1>1 DEF IInv, TypeOK, JumpBack, idx, Count, outprx
<1>3. /\ \A x \in out..(outprx - 1) : At(x)' = At(x)
      /\ \A b : b = outprx => \E c \in Int : JumpAt(b, c)'
  BY <1>2, JumpWritten
<1>4. ASSUME NEW k \in 0..(n - 1), NEW b, NEW c, NEW e,
             b = beg[k], c = core[k], e = beg[k + 1]
      PROVE  BlockAt(k, b, c, e)'
  <2>1. /\ b \in Int /\ c \in Int /\ e \in Int /\ out <= b /\ b <= c /\ c <= e
        /\ e <= outprx /\ (Inner(k) => e = c + 1)
    <3>1. /\ b \in Int /\ c \in Int /\ e \in Int /\ out <= b /\ b <= c /\ c <= e
          /\ e <= beg[idx] /\ beg[idx] \in Int /\ beg[idx] <= outprx
          /\ (Inner(k) => e = c + 1)
      BY <1>1, <1>2, <1>4, Blocks
    <3>2. e <= outprx
      BY <1>2, <3>1
    <3>3. QED
      BY <3>1, <3>2
  <2>2. BlockAt(k, b, c, e)
    BY <1>1, <1>4 DEF Laid
  <2>3. \A x \in b..(e - 1) : At(x)' = At(x)
    <3>1. \A x \in b..(e - 1) : x \in out..(outprx - 1)
      BY <1>2, <2>1
    <3>2. QED
      BY <1>3, <3>1
  <2>4. Padded(b, c)'
    <3>1. Padded(b, c)
      BY <2>2 DEF BlockAt
    <3>2. \A x \in b..(c - 1) : x \in b..(e - 1)
      BY <2>1
    <3>3. QED
      BY <2>3, <3>1, <3>2 DEF Padded
  <2>5. StartsAt(k, dat[k + 1], b, c)'
    <3>1. PICK d : d = dat[k + 1]
      OBVIOUS
    <3>2. StartsAt(k, d, b, c)
      BY <2>2, <3>1 DEF BlockAt
    <3>3. QED
      BY <1>2, <3>1, <3>2 DEF StartsAt
  <2>6. CASE Inner(k)
    <3>1. Says(k, At(c)) /\ Named(k, c) /\ e = c + 1
      BY <2>2, <2>6 DEF BlockAt
    <3>2. At(c)' = At(c)
      <4>1. c \in b..(e - 1)
        BY <2>1, <3>1
      <4>2. QED
        BY <2>3, <4>1
    <3>3. PICK w : w = At(c)
      OBVIOUS
    <3>4. Inner(k)' /\ To(k)' = To(k) /\ Says(k, w)'
      BY <1>2, <2>6, <3>1, <3>3, SameStart
    <3>5. Says(k, At(c))'
      BY <3>2, <3>3, <3>4 DEF Says
    <3>6. Named(k, c)'
      BY <1>1, <1>2, <3>1, <3>2, <3>4 DEF Named
    <3>7. QED
      BY <2>2, <2>4, <2>5, <3>1, <3>4, <3>5, <3>6 DEF BlockAt
  <2>7. CASE ~Inner(k)
    <3>1. PICK ws \in Seq(Words) : /\ e = c + Len(ws) /\ Stands(ws, c)
                                   /\ Short(k, c, ws) \/ Long(k, ws)
      BY <2>2, <2>7 DEF BlockAt
    <3>2. Stands(ws, c)'
      <4>1. SUFFICES ASSUME NEW j \in 1..Len(ws)
                     PROVE  At(c + j - 1)' = ws[j]
        BY DEF Stands
      <4>2. c + j - 1 \in b..(e - 1)
        BY <2>1, <3>1
      <4>3. At(c + j - 1) = ws[j]
        BY <3>1 DEF Stands
      <4>4. QED
        BY <2>3, <4>2, <4>3
    <3>3. ~Inner(k)' /\ (Short(k, c, ws)' \/ Long(k, ws)')
      BY <1>2, <2>7, <3>1, SameStart
    <3>4. QED
      BY <2>2, <2>4, <2>5, <3>1, <3>2, <3>3 DEF BlockAt
  <2>8. QED
    BY <2>6, <2>7
<1>5. \A k \in 0..(n - 1) : BlockAt(k, beg[k], core[k], beg[k + 1])'
  <2>1. TAKE k \in 0..(n - 1)
  <2>2. PICK b, c, e : b = beg[k] /\ c = core[k] /\ e = beg[k + 1]
    OBVIOUS
  <2>3. BlockAt(k, b, c, e)'
    BY <1>4, <2>2
  <2>4. QED
    BY <2>2, <2>3
<1>6. RefsFrom(core)'
  <2>1. \A k : To(k)' = To(k) /\ (Inner(k)' <=> Inner(k))
    BY <1>2, SameStart
  <2>2. RefsFrom(core)
    BY DEF Laid
  <2>3. QED
    BY <1>1, <1>2, <2>1, <2>2 DEF RefsFrom
<1>7. \E c \in Int : JumpAt(beg[n], c)'
  <2>1. PICK b : b = beg[n]
    OBVIOUS
  <2>2. b = outprx
    BY <1>1, <1>2, <2>1 DEF Laid
  <2>3. \E c \in Int : JumpAt(b, c)'
    BY <1>3, <2>2
  <2>4. QED
    BY <2>1, <2>3
<1>8. /\ beg \in [0..n -> Int] /\ core \in [0..(n - 1) -> Int] /\ beg[0] = out'
      /\ \A i, j \in 0..n : i <= j => beg[i] <= beg[j]
  BY <1>1, <1>2 DEF Laid
<1>9. QED
  BY <1>2, <1>5, <1>6, <1>7, <1>8 DEF Laid

LEMMA InitLays ==
  ASSUME Init, IInv
  PROVE  \E beg, core : Laid(beg, core)
<1>1. idx = 0 /\ fmap = {} /\ ~done /\ outprx = out /\ out \in Int
  BY DEF Init, idx, IInv, TypeOK, outprx
<1> DEFINE beg  == [i \in 0..0 |-> out]
           core == [i \in 0..(0 - 1) |-> out]
<1>2. Laid(beg, core)
  <2>1. beg \in [0..0 -> Int] /\ core \in [0..(0 - 1) -> Int] /\ beg[0] = out
    BY <1>1
  <2>2. \A i, j \in 0..0 : i <= j => beg[i] <= beg[j]
    BY <1>1, <2>1
  <2> HIDE DEF beg, core
  <2>3. QED
    BY <1>1, <2>1, <2>2 DEF Laid, RefsFrom
<1>3. QED
  BY <1>2

\* The trampoline is laid out as its instructions say.
LaidOut == Supported => \E beg, core : Laid(beg, core)

LEMMA SameSupported ==
  ASSUME TypeOK, UNCHANGED <<program, base, out>>
  PROVE  Supported' <=> Supported
<1>1. Count' = Count /\ Pool' = Pool
  BY DEF Count, Pool
<1>2. \A a : is_in_fixing_range(a)' <=> is_in_fixing_range(a)
  BY <1>1 DEF is_in_fixing_range
<1>3. \A a : Original(a)' = Original(a)
  BY DEF Original
<1>4. ASSUME NEW k \in 0..(Count - 1)
      PROVE  Movable(k)' <=> Movable(k)
  <2>1. PICK i : i = program[k + 1] /\ i \in Insns
    BY DEF TypeOK, Count
  <2>2. program'[k + 1] = i /\ base' = base /\ out' = out
    BY <2>1
  <2>3. i.kind \in Kinds
    BY <2>1 DEF Insns
  <2>4. CASE i.kind \in {"b", "bl"}
    BY <1>1, <1>2, <1>3, <2>1, <2>2, <2>4 DEF Movable
  <2>5. CASE i.kind = "cond"
    BY <1>1, <1>2, <1>3, <2>1, <2>2, <2>5 DEF Movable
  <2>6. CASE i.kind = "test"
    BY <1>1, <1>2, <1>3, <2>1, <2>2, <2>6 DEF Movable
  <2>7. CASE i.kind = "ldr"
    BY <1>1, <1>2, <1>3, <2>1, <2>2, <2>7 DEF Movable
  <2>8. CASE i.kind = "adr"
    BY <1>1, <1>2, <1>3, <2>1, <2>2, <2>8 DEF Movable
  <2>9. CASE i.kind = "adrp"
    BY <1>1, <1>2, <1>3, <2>1, <2>2, <2>9 DEF Movable
  <2>10. CASE i.kind \in {"plain", "prfm"}
    BY <1>1, <1>2, <1>3, <2>1, <2>2, <2>10 DEF Movable
  <2>11. QED
    BY <2>3, <2>4, <2>5, <2>6, <2>7, <2>8, <2>9, <2>10 DEF Kinds
<1>5. QED
  BY <1>1, <1>4 DEF Supported

LEMMA SameLaid ==
  ASSUME UNCHANGED vars, NEW beg, NEW core, Laid(beg, core)
  PROVE  Laid(beg, core)'
<1>1. /\ UNCHANGED <<program, base, out, words, dat, fmap, done>>
      /\ idx' = idx /\ outprx' = outprx /\ Count' = Count
  BY DEF vars, idx, outprx, Count
<1>2. \A x : At(x)' = At(x)
  BY <1>1 DEF At, InTrampoline
<1>3. /\ \A b, c : Padded(b, c)' <=> Padded(b, c)
      /\ \A ws, s : Stands(ws, s)' <=> Stands(ws, s)
  BY <1>2 DEF Padded, Stands, Nop, Word
<1>4. /\ \A k : To(k)' = To(k) /\ (Inner(k)' <=> Inner(k))
      /\ \A k, w : Says(k, w)' <=> Says(k, w)
      /\ \A k, c, ws : Short(k, c, ws)' <=> Short(k, c, ws)
      /\ \A k, ws : Long(k, ws)' <=> Long(k, ws)
      /\ \A k, d, b, c : StartsAt(k, d, b, c)' <=> StartsAt(k, d, b, c)
  BY <1>1, SameStart
<1>5. ASSUME NEW k, NEW b, NEW c, NEW e, BlockAt(k, b, c, e)
      PROVE  BlockAt(k, b, c, e)'
  <2>1. StartsAt(k, dat[k + 1], b, c)'
    BY <1>1, <1>5 DEF BlockAt, StartsAt
  <2>2. CASE Inner(k)
    <3>1. Says(k, At(c))'
      BY <1>1, <1>2, <1>5, <2>2 DEF BlockAt, Says
    <3>2. Named(k, c)'
      BY <1>1, <1>2, <1>4, <1>5, <2>2 DEF BlockAt, Named
    <3>3. QED
      BY <1>3, <1>4, <1>5, <2>1, <2>2, <3>1, <3>2 DEF BlockAt
  <2>3. CASE ~Inner(k)
    BY <1>3, <1>4, <1>5, <2>1, <2>3 DEF BlockAt
  <2>4. QED
    BY <2>2, <2>3
<1>6. \A k \in 0..(idx - 1) : BlockAt(k, beg[k], core[k], beg[k + 1])'
  <2>1. TAKE k \in 0..(idx - 1)
  <2>2. PICK b, c, e : b = beg[k] /\ c = core[k] /\ e = beg[k + 1]
    OBVIOUS
  <2>3. BlockAt(k, b, c, e)
    BY <2>2 DEF Laid
  <2>4. BlockAt(k, b, c, e)'
    BY <1>5, <2>3
  <2>5. QED
    BY <2>2, <2>4
<1>7. RefsFrom(core)'
  BY <1>1, <1>4 DEF Laid, RefsFrom
<1>8. ASSUME NEW b, NEW c, JumpAt(b, c)
      PROVE  JumpAt(b, c)'
  BY <1>1, <1>3, <1>8 DEF JumpAt
<1>9. done => \E c \in Int : JumpAt(beg[idx], c)'
  <2>1. PICK n, b : n = idx /\ b = beg[n]
    OBVIOUS
  <2>2. done => \E c \in Int : JumpAt(b, c)'
    BY <1>8, <2>1 DEF Laid
  <2>3. beg[idx'] = b
    BY <1>1, <2>1
  <2>4. QED
    BY <2>2, <2>3
<1>10. QED
  BY <1>1, <1>6, <1>7, <1>9 DEF Laid

\* Of a function whose start the code can move, what was moved so far lies in
\* order in the trampoline: for each instruction the words one of the handlers
\* makes of it, references filled in where what they refer to has moved, and
\* the jump back at the end.
THEOREM LayoutInvariant == Spec => []LaidOut
<1>1. Init /\ IInv => LaidOut
  BY InitLays DEF LaidOut
<1>2. LaidOut /\ IInv /\ [Next]_vars => LaidOut'
  <2> SUFFICES ASSUME LaidOut, IInv, [Next]_vars, Supported'
               PROVE  (\E b, c : Laid(b, c))'
    BY DEF LaidOut
  <2>1. Supported
    BY SameSupported DEF IInv, Next, MoveInstruction, JumpBack, vars
  <2>2. PICK beg, core : Laid(beg, core)
    BY <2>1 DEF LaidOut
  <2>3. CASE MoveInstruction
    BY <2>1, <2>2, <2>3, MoveLays
  <2>4. CASE JumpBack
    <3>1. Laid(beg, core)'
      BY <2>2, <2>4, JumpBackLays
    <3>2. QED
      BY <3>1
  <2>5. CASE UNCHANGED vars
    <3>1. Laid(beg, core)'
      BY <2>2, <2>5, SameLaid
    <3>2. QED
      BY <3>1
  <2>6. QED
    BY <2>3, <2>4, <2>5 DEF Next
<1>3. QED
  BY <1>1, <1>2, Invariant, PTL DEF Spec

-----------------------------------------------------------------------------
(* Executing it: jumps and padding *)

\* From x, n hops lead to z.
Leads(x, z, n) ==
  \E p \in [0..n -> Int] :
    p[0] = x /\ p[n] = z /\ \A i \in 0..(n - 1) : p[i + 1] = Hop(p[i])

\* From x, at most n hops lead to z.
Reaches(x, z, n) == \E m \in 0..n : Leads(x, z, m)

LEMMA LeadsOn ==
  ASSUME NEW x, NEW y, NEW z, NEW n \in Nat, NEW m \in Nat,
         Leads(x, y, n), Leads(y, z, m)
  PROVE  Leads(x, z, n + m)
<1>1. PICK p \in [0..n -> Int] :
        p[0] = x /\ p[n] = y /\ \A i \in 0..(n - 1) : p[i + 1] = Hop(p[i])
  BY DEF Leads
<1>2. PICK q \in [0..m -> Int] :
        q[0] = y /\ q[m] = z /\ \A i \in 0..(m - 1) : q[i + 1] = Hop(q[i])
  BY DEF Leads
<1> DEFINE r == [i \in 0..(n + m) |-> IF i <= n THEN p[i] ELSE q[i - n]]
<1>3. r \in [0..(n + m) -> Int]
  OBVIOUS
<1>4. /\ \A i \in 0..n : r[i] = p[i]
      /\ \A i \in n..(n + m) : r[i] = q[i - n]
  <2>1. \A i \in 0..n : r[i] = p[i]
    OBVIOUS
  <2>2. ASSUME NEW i \in n..(n + m)
        PROVE  r[i] = q[i - n]
    <3>1. CASE i = n
      <4>1. i - n = 0 /\ r[i] = p[n]
        BY <2>1, <3>1
      <4>2. QED
        BY <1>1, <1>2, <4>1
    <3>2. CASE i > n
      BY <3>2
    <3>3. QED
      BY <3>1, <3>2
  <2>3. QED
    BY <2>1, <2>2
<1> HIDE DEF r
<1>5. r[0] = x /\ r[n + m] = z
  <2>1. 0 \in 0..n /\ n + m \in n..(n + m) /\ (n + m) - n = m
    OBVIOUS
  <2>2. QED
    BY <1>1, <1>2, <1>4, <2>1
<1>6. ASSUME NEW i \in 0..((n + m) - 1)
      PROVE  r[i + 1] = Hop(r[i])
  <2>1. CASE i < n
    <3>1. i \in 0..n /\ i + 1 \in 0..n /\ i \in 0..(n - 1)
      BY <2>1
    <3>2. QED
      BY <1>1, <1>4, <3>1
  <2>2. CASE i >= n
    <3>1. /\ i \in n..(n + m) /\ i + 1 \in n..(n + m) /\ i - n \in 0..(m - 1)
          /\ (i + 1) - n = (i - n) + 1
      BY <2>2
    <3>2. QED
      BY <1>2, <1>4, <3>1
  <2>3. QED
    BY <2>1, <2>2
<1>7. QED
  BY <1>3, <1>5, <1>6 DEF Leads

LEMMA ReachesOn ==
  ASSUME NEW x, NEW y, NEW z, NEW n \in Nat, NEW m \in Nat,
         Reaches(x, y, n), Reaches(y, z, m)
  PROVE  Reaches(x, z, n + m)
<1>1. PICK i \in 0..n : Leads(x, y, i)
  BY DEF Reaches
<1>2. PICK j \in 0..m : Leads(y, z, j)
  BY DEF Reaches
<1>3. Leads(x, z, i + j)
  BY <1>1, <1>2, LeadsOn
<1>4. i + j \in 0..(n + m)
  OBVIOUS
<1>5. QED
  BY <1>3, <1>4 DEF Reaches

LEMMA ReachesMore ==
  ASSUME NEW x, NEW z, NEW n \in Nat, NEW m \in Nat, n <= m, Reaches(x, z, n)
  PROVE  Reaches(x, z, m)
<1>1. \A i \in 0..n : i \in 0..m
  OBVIOUS
<1>2. QED
  BY <1>1 DEF Reaches

LEMMA ReachesItself ==
  ASSUME NEW x \in Int, NEW n \in Nat
  PROVE  Reaches(x, x, n)
<1> DEFINE p == [i \in 0..0 |-> x]
<1>1. p \in [0..0 -> Int] /\ p[0] = x /\ \A i \in 0..(0 - 1) : p[i + 1] = Hop(p[i])
  OBVIOUS
<1>2. Leads(x, x, 0)
  BY <1>1 DEF Leads
<1>3. QED
  BY <1>2 DEF Reaches

LEMMA ReachesByHop ==
  ASSUME NEW x \in Int, NEW z \in Int, z = Hop(x)
  PROVE  Reaches(x, z, 1)
<1> DEFINE p == [i \in 0..1 |-> IF i = 0 THEN x ELSE z]
<1>1. p \in [0..1 -> Int] /\ p[0] = x /\ p[1] = z
  OBVIOUS
<1> HIDE DEF p
<1>2. \A i \in 0..(1 - 1) : p[i + 1] = Hop(p[i])
  <2>1. \A i \in 0..(1 - 1) : i = 0 /\ i + 1 = 1
    OBVIOUS
  <2>2. QED
    BY <1>1, <2>1
<1>3. Leads(x, z, 1)
  BY <1>1, <1>2 DEF Leads
<1>4. QED
  BY <1>3 DEF Reaches

LEMMA ReachesOverPadding ==
  ASSUME NEW b \in Int, NEW c \in Int, NEW n \in Nat, c \in b..(b + n),
         Padded(b, c)
  PROVE  Reaches(b, c, n)
<1>1. PICK m \in 0..n : c = b + m
  <2>1. c - b \in 0..n /\ c = b + (c - b)
    OBVIOUS
  <2>2. QED
    BY <2>1
<1> DEFINE p == [i \in 0..m |-> b + i]
<1>2. p \in [0..m -> Int] /\ p[0] = b /\ p[m] = c
  BY <1>1
<1>3. ASSUME NEW i \in 0..(m - 1)
      PROVE  p[i + 1] = Hop(p[i])
  <2>1. p[i] = b + i /\ p[i + 1] = (b + i) + 1 /\ b + i \in b..(c - 1)
    BY <1>1
  <2> HIDE DEF p
  <2>2. At(b + i).op = "nop"
    BY <2>1 DEF Padded, Nop, Word
  <2>3. Hop(b + i) = (b + i) + 1
    BY <2>2 DEF Hop
  <2>4. QED
    BY <2>1, <2>3
<1> HIDE DEF p
<1>4. Leads(b, c, m)
  BY <1>2, <1>3 DEF Leads
<1>5. QED
  BY <1>4 DEF Reaches

\* No path to where execution stays is longer than Follow is.
LEMMA FollowReaches ==
  ASSUME NEW x, NEW z \in Int, Reaches(x, z, 24), Hop(z) = z
  PROVE  Follow(x) = z
<1>1. PICK n \in 0..24 : Leads(x, z, n)
  BY DEF Reaches
<1>2. PICK p \in [0..n -> Int] :
        p[0] = x /\ p[n] = z /\ \A i \in 0..(n - 1) : p[i + 1] = Hop(p[i])
  BY <1>1 DEF Leads
<1> DEFINE r == [i \in 0..24 |-> IF i <= n THEN p[i] ELSE z]
<1>3. \A i \in 0..24 : r[i] = IF i <= n THEN p[i] ELSE z
  OBVIOUS
<1> HIDE DEF r
<1>4. r[0] = x /\ r[24] = z
  <2>1. r[0] = p[0]
    BY <1>3
  <2>2. r[24] = IF 24 <= n THEN p[24] ELSE z
    BY <1>3
  <2>3. 24 <= n => n = 24
    OBVIOUS
  <2>4. QED
    BY <1>2, <2>1, <2>2, <2>3
<1>5. ASSUME NEW i \in 0..23
      PROVE  r[i + 1] = Hop(r[i])
  <2>1. CASE i < n
    <3>1. i \in 0..(n - 1) /\ i \in 0..24 /\ i + 1 \in 0..24 /\ i <= n /\ i + 1 <= n
      BY <2>1
    <3>2. r[i] = p[i]
      BY <1>3, <3>1
    <3>3. r[i + 1] = p[i + 1]
      BY <1>3, <3>1
    <3>4. QED
      BY <1>2, <3>1, <3>2, <3>3
  <2>2. CASE i >= n
    <3>1. i \in 0..24 /\ i + 1 \in 0..24 /\ ~(i + 1 <= n)
      BY <2>2
    <3>2. r[i] = z
      <4>1. CASE i = n
        <5>1. r[n] = IF n <= n THEN p[n] ELSE z
          BY <1>3
        <5>2. QED
          BY <1>2, <4>1, <5>1
      <4>2. CASE i > n
        <5>1. ~(i <= n)
          BY <4>2
        <5>2. QED
          BY <1>3, <3>1, <5>1
      <4>3. QED
        BY <2>2, <4>1, <4>2
    <3>3. r[i + 1] = z
      BY <1>3, <3>1
    <3>4. QED
      BY <3>2, <3>3
  <2>3. QED
    BY <2>1, <2>2
<1>6. ASSUME NEW i \in 0..20
      PROVE  Hops4(r[i]) = r[i + 4]
  <2>1. /\ i \in 0..23 /\ i + 1 \in 0..23 /\ i + 2 \in 0..23 /\ i + 3 \in 0..23
        /\ (i + 1) + 1 = i + 2 /\ (i + 2) + 1 = i + 3 /\ (i + 3) + 1 = i + 4
    OBVIOUS
  <2>2. /\ r[i + 1] = Hop(r[i]) /\ r[i + 2] = Hop(r[i + 1])
        /\ r[i + 3] = Hop(r[i + 2]) /\ r[i + 4] = Hop(r[i + 3])
    <3>1. r[i + 1] = Hop(r[i])
      BY <1>5, <2>1
    <3>2. r[i + 2] = Hop(r[i + 1])
      BY <1>5, <2>1
    <3>3. r[i + 3] = Hop(r[i + 2])
      BY <1>5, <2>1
    <3>4. r[i + 4] = Hop(r[i + 3])
      BY <1>5, <2>1
    <3>5. QED
      BY <3>1, <3>2, <3>3, <3>4
  <2>3. QED
    BY <2>2 DEF Hops4
<1>7. ASSUME NEW i \in {0, 12}
      PROVE  Hops12(r[i]) = r[i + 12]
  <2>1. Hops4(Hops4(Hops4(r[i]))) = r[i + 12]
    <3>1. /\ i \in 0..20 /\ i + 4 \in 0..20 /\ i + 8 \in 0..20
          /\ (i + 4) + 4 = i + 8 /\ (i + 8) + 4 = i + 12
      OBVIOUS
    <3>2. Hops4(r[i]) = r[i + 4]
      BY <1>6, <3>1
    <3>3. Hops4(r[i + 4]) = r[i + 8]
      BY <1>6, <3>1
    <3>4. Hops4(r[i + 8]) = r[i + 12]
      BY <1>6, <3>1
    <3>5. QED
      BY <3>2, <3>3, <3>4
  <2>2. CASE Hop(r[i]) = r[i]
    <3>1. Hops4(r[i]) = r[i]
      BY <2>2 DEF Hops4
    <3>2. QED
      BY <2>1, <2>2, <3>1 DEF Hops12
  <2>3. CASE Hop(r[i]) # r[i]
    BY <2>1, <2>3 DEF Hops12
  <2>4. QED
    BY <2>2, <2>3
<1>8. Hops12(r[0]) = r[12] /\ Hops12(r[12]) = r[24]
  BY <1>7
<1>9. QED
  BY <1>4, <1>8 DEF Follow

-----------------------------------------------------------------------------
(* Where execution of the finished trampoline stands in the function *)

Finished(beg, core) == IInv /\ Supported /\ done /\ Laid(beg, core)

\* At x, what is left to do is what is left to do at a.
Place(beg, core, x, a) ==
  \/ \E k \in 0..(Count - 1) : a = base + k /\ x \in {beg[k], core[k]}
  \/ a = base + Count /\ x \in {beg[Count], a}
  \/ a \notin base..(base + Count) /\ a \notin Pool /\ x = a

LEMMA Whole ==
  ASSUME NEW beg, NEW core, Finished(beg, core)
  PROVE  /\ TypeOK /\ idx = Count /\ Count \in 0..5 /\ base \in Nat /\ out \in Nat
         /\ outprx \in out..(out + 50) /\ outprx = out + Len(words)
         /\ beg \in [0..Count -> Int] /\ core \in [0..(Count - 1) -> Int]
         /\ base + Count \notin Pool
         /\ \A x : x \notin Pool => ~InTrampoline(x) /\ Hop(x) = x
<1>1. /\ TypeOK /\ Count <= 5 /\ Len(words) <= 9 * idx + 5 /\ idx = Count
  BY DEF Finished, IInv, Bounded, MaxInstructions, Laid
<1>2. /\ Count \in Nat /\ Len(words) \in Nat /\ out \in Nat /\ base \in Nat
      /\ outprx = out + Len(words)
  BY <1>1 DEF TypeOK, Count, outprx
<1>3. Count \in 0..5 /\ outprx \in out..(out + 50)
  BY <1>1, <1>2
<1>4. ASSUME NEW x, x \notin Pool
      PROVE  ~InTrampoline(x) /\ Hop(x) = x
  <2>1. ~InTrampoline(x)
    <3>1. Pool = out..(out + 49)
      BY <1>2 DEF Pool, TrampolineSize, MaxInstructions
    <3>2. \A y \in out..(outprx - 1) : y \in out..(out + 49)
      BY <1>2, <1>3
    <3>3. QED
      BY <1>4, <3>1, <3>2 DEF InTrampoline
  <2>2. At(x) = Word("none", 0, 0)
    BY <2>1 DEF At
  <2>3. At(x).op = "none"
    BY <2>2 DEF Word
  <2>4. QED
    BY <2>1, <2>3 DEF Hop
<1>5. beg \in [0..Count -> Int] /\ core \in [0..(Count - 1) -> Int]
  BY <1>1 DEF Finished, Laid
<1>6. base + Count \notin Pool
  BY DEF Finished, Supported
<1>7. QED
  BY <1>1, <1>2, <1>3, <1>4, <1>5, <1>6

LEMMA BlockOf ==
  ASSUME NEW beg, NEW core, Finished(beg, core), NEW k \in 0..(Count - 1)
  PROVE  /\ beg[k] \in Int /\ core[k] \in Int /\ beg[k + 1] \in Int
         /\ out <= beg[k] /\ core[k] \in beg[k]..(beg[k] + 3)
         /\ core[k] <= beg[k + 1] /\ beg[k + 1] < outprx
         /\ BlockAt(k, beg[k], core[k], beg[k + 1])
         /\ Movable(k) /\ program[k + 1] \in Insns /\ To(k) \in Int
         /\ Reaches(beg[k], core[k], 3)
<1>1. /\ TypeOK /\ idx = Count /\ Laid(beg, core) /\ done /\ Supported
      /\ Count \in 0..5 /\ base \in Nat /\ outprx \in Int
  BY Whole DEF Finished
<1>2. BlockAt(k, beg[k], core[k], beg[k + 1]) /\ Movable(k)
  BY <1>1 DEF Laid, Supported
<1>3. /\ beg[k] \in Int /\ core[k] \in Int /\ beg[k + 1] \in Int
      /\ out <= beg[k] /\ beg[k] <= core[k] /\ core[k] <= beg[k] + 3
      /\ core[k] <= beg[k + 1] /\ beg[k + 1] < outprx
  <2>1. /\ beg[k] \in Int /\ core[k] \in Int /\ beg[k + 1] \in Int
        /\ out <= beg[k] /\ beg[k] <= core[k] /\ core[k] <= beg[k] + 3
        /\ core[k] <= beg[k + 1]
        /\ beg[k + 1] <= beg[idx] /\ beg[idx] \in Int /\ beg[idx] < outprx
    BY <1>1, Blocks
  <2>2. beg[k + 1] < outprx
    BY <1>1, <2>1
  <2>3. QED
    BY <2>1, <2>2
<1>4. program[k + 1] \in Insns
  BY <1>1 DEF TypeOK, Count
<1>5. To(k) \in Int
  BY <1>1, <1>4 DEF To, Insns
<1>6. Reaches(beg[k], core[k], 3)
  <2>1. Padded(beg[k], core[k])
    BY <1>2 DEF BlockAt
  <2>2. core[k] \in beg[k]..(beg[k] + 3)
    BY <1>3
  <2>3. QED
    BY <1>3, <2>1, <2>2, ReachesOverPadding
<1>7. QED
  BY <1>2, <1>3, <1>4, <1>5, <1>6

\* Behind instruction k is the next one, or the jump to the rest.
LEMMA PlaceBehind ==
  ASSUME NEW beg, NEW core, Finished(beg, core), NEW k \in 0..(Count - 1)
  PROVE  Place(beg, core, beg[k + 1], base + k + 1)
<1>1. Count \in 0..5 /\ base \in Nat
  BY Whole
<1>2. PICK j \in 1..Count : j = k + 1
  BY <1>1
<1>3. base + k + 1 = base + j
  BY <1>1, <1>2
<1>4. CASE j = Count
  BY <1>2, <1>3, <1>4 DEF Place
<1>5. CASE j \in 0..(Count - 1)
  BY <1>2, <1>3, <1>5 DEF Place
<1>6. QED
  BY <1>1, <1>2, <1>4, <1>5

\* An address that does not move is where it was.
LEMMA PlaceOutside ==
  ASSUME NEW beg, NEW core, Finished(beg, core), NEW a \in Int,
         ~is_in_fixing_range(a), a \notin Pool
  PROVE  Place(beg, core, a, a)
<1>1. Count \in 0..5 /\ base \in Nat
  BY Whole
<1>2. a = base + Count \/ a \notin base..(base + Count)
  BY <1>1 DEF is_in_fixing_range
<1>3. QED
  BY <1>2 DEF Place

\* Unless it is an adrp, an instruction is said to start where it does.
LEMMA StartsThere ==
  ASSUME NEW beg, NEW core, Finished(beg, core), NEW k \in 0..(Count - 1),
         program[k + 1].kind # "adrp"
  PROVE  /\ dat[k + 1] \in {beg[k], core[k]}
         /\ Place(beg, core, dat[k + 1], base + k)
<1>1. StartsAt(k, dat[k + 1], beg[k], core[k])
  BY BlockOf DEF BlockAt
<1>2. dat[k + 1] \in {beg[k], core[k]}
  BY <1>1 DEF StartsAt
<1>3. QED
  BY <1>2 DEF Place

\* The distance of an instruction that names one that moves leads there.
LEMMA NamesPlace ==
  ASSUME NEW beg, NEW core, Finished(beg, core), NEW k \in 0..(Count - 1), Inner(k)
  PROVE  /\ Says(k, At(core[k])) /\ beg[k + 1] = core[k] + 1
         /\ Place(beg, core, core[k] + At(core[k]).off, To(k))
         /\ core[k] + At(core[k]).off \in Int
<1>1. /\ TypeOK /\ idx = Count /\ Count \in 0..5 /\ base \in Nat
  BY Whole
<1>2. PICK c \in Int, e \in Int : c = core[k] /\ e = beg[k + 1]
  BY BlockOf
<1>3. BlockAt(k, beg[k], c, e) /\ Movable(k) /\ To(k) \in Int
  BY <1>2, BlockOf
<1>4. Says(k, At(c)) /\ e = c + 1 /\ Named(k, c)
  BY <1>3 DEF BlockAt
<1>5. PICK j \in 0..(Count - 1) : j = To(k) - base
  BY <1>1, <1>3 DEF Inner, is_in_fixing_range
<1>6. To(k) = base + j
  BY <1>1, <1>3, <1>5
<1>7. c + At(c).off = dat[j + 1]
  BY <1>1, <1>4, <1>5 DEF Named
<1>8. program[j + 1].kind # "adrp"
  <2>1. program[k + 1].kind \in {"b", "bl", "cond", "test", "adr"}
    BY DEF Inner
  <2>2. ~(is_in_fixing_range(To(k)) /\ Original(To(k)).kind = "adrp")
    <3>1. CASE program[k + 1].kind \in {"b", "bl"}
      BY <1>3, <3>1 DEF Movable, To
    <3>2. CASE program[k + 1].kind = "cond"
      BY <1>3, <3>2 DEF Movable, To
    <3>3. CASE program[k + 1].kind = "test"
      BY <1>3, <3>3 DEF Movable, To
    <3>4. CASE program[k + 1].kind = "adr"
      BY <1>3, <3>4 DEF Movable, To
    <3>5. QED
      BY <2>1, <3>1, <3>2, <3>3, <3>4
  <2>3. Original(To(k)) = program[j + 1]
    BY <1>5 DEF Original
  <2>4. QED
    BY <2>2, <2>3 DEF Inner
<1>9. Place(beg, core, dat[j + 1], base + j) /\ dat[j + 1] \in {beg[j], core[j]}
  BY <1>8, StartsThere
<1>10. dat[j + 1] \in Int
  BY <1>9, BlockOf
<1>11. QED
  BY <1>2, <1>4, <1>6, <1>7, <1>9, <1>10

\* What stands alone is one word or spelled out.
LEMMA StandsAlone ==
  ASSUME NEW beg, NEW core, Finished(beg, core), NEW k \in 0..(Count - 1), ~Inner(k)
  PROVE  \E ws \in Seq(Words) :
           /\ beg[k + 1] = core[k] + Len(ws)
           /\ \A i \in 0..(Len(ws) - 1) :
                At(core[k] + i) = ws[i + 1] /\ InTrampoline(core[k] + i)
           /\ Short(k, core[k], ws) \/ Long(k, ws)
<1>1. PICK b \in Int, c \in Int, e \in Int : b = beg[k] /\ c = core[k] /\ e = beg[k + 1]
  BY BlockOf
<1>2. BlockAt(k, b, c, e) /\ out <= b /\ b <= c /\ e < outprx
  BY <1>1, BlockOf
<1>3. PICK ws \in Seq(Words) : /\ e = c + Len(ws) /\ Stands(ws, c)
                               /\ Short(k, c, ws) \/ Long(k, ws)
  BY <1>2 DEF BlockAt
<1>4. ASSUME NEW i \in 0..(Len(ws) - 1)
      PROVE  At(c + i) = ws[i + 1] /\ InTrampoline(c + i)
  <2>1. i + 1 \in 1..Len(ws) /\ c + (i + 1) - 1 = c + i
    OBVIOUS
  <2>2. At(c + i) = ws[i + 1]
    BY <1>3, <2>1 DEF Stands
  <2>3. out \in Int /\ outprx \in Int /\ Len(ws) \in Nat
    BY Whole
  <2>4. c + i \in out..(outprx - 1)
    BY <1>2, <1>3, <2>3
  <2>5. QED
    BY <2>2, <2>4 DEF InTrampoline
<1>5. QED
  BY <1>1, <1>3, <1>4

-----------------------------------------------------------------------------
(* What is spelled out, word by word *)

LEMMA AddressWords ==
  ASSUME NEW a \in Int, NEW byte \in 0..3
  PROVE  /\ Address(a, byte)[1].of = a /\ Address(a, byte) \in Seq(Words)
         /\ Len(Address(a, byte)) = 2
BY AddressType DEF Address, Word

LEMMA LongJumpWords ==
  ASSUME NEW a \in Int
  PROVE  /\ Len(LongJump(a)) = 4 /\ LongJump(a) \in Seq(Words)
         /\ LongJump(a)[1] = Word("ldr_x17", 0, 2)
         /\ LongJump(a)[2] = Word("br_x17", 0, 0)
         /\ LongJump(a)[3] = Address(a, 0)[1] /\ LongJump(a)[4] = Address(a, 0)[2]
<1>1. Word("ldr_x17", 0, 2) \in Words /\ Word("br_x17", 0, 0) \in Words
  <2>1. "ldr_x17" \in Ops /\ "br_x17" \in Ops
    BY DEF Ops
  <2>2. QED
    BY <2>1, WordType
<1> DEFINE s == <<Word("ldr_x17", 0, 2), Word("br_x17", 0, 0)>>
           t == Address(a, 0)
<1>2. s \in Seq(Words) /\ Len(s) = 2
  BY <1>1
<1>3. s[1] = Word("ldr_x17", 0, 2) /\ s[2] = Word("br_x17", 0, 0)
  OBVIOUS
<1>4. t \in Seq(Words) /\ Len(t) = 2
  BY AddressType
<1>5. LongJump(a) = s \o t
  BY DEF LongJump
<1> HIDE DEF s, t
<1>6. /\ Len(s \o t) = 4
      /\ (s \o t)[1] = s[1] /\ (s \o t)[2] = s[2]
  <2>1. /\ Len(s \o t) = Len(s) + Len(t)
        /\ \A j \in 1..Len(s) : (s \o t)[j] = s[j]
    BY <1>2, <1>4, Parts
  <2>2. Len(s) = 2 /\ Len(t) = 2
    BY <1>2, <1>4
  <2>3. QED
    BY <2>1, <2>2
<1>7. (s \o t)[2 + 1] = t[1] /\ (s \o t)[2 + 2] = t[2]
  <2>1. \A j \in 1..Len(t) : (s \o t)[Len(s) + j] = t[j]
    BY <1>2, <1>4, Parts
  <2>2. \A j \in 1..2 : (s \o t)[2 + j] = t[j]
    BY <1>2, <1>4, <2>1
  <2>3. 1 \in 1..2 /\ 2 \in 1..2
    OBVIOUS
  <2>4. QED
    BY <2>2, <2>3, Zenon
<1>8. (s \o t)[3] = t[1] /\ (s \o t)[4] = t[2]
  <2>1. 2 + 1 = 3 /\ 2 + 2 = 4
    OBVIOUS
  <2>2. QED
    BY <1>7, <2>1
<1>9. QED
  BY <1>3, <1>5, <1>6, <1>8, LongType DEF t

LEMMA LongCallWords ==
  ASSUME NEW a \in Int
  PROVE  /\ Len(LongCall(a)) = 5 /\ LongCall(a) \in Seq(Words)
         /\ LongCall(a)[1] = Word("ldr_x17", 0, 3)
         /\ LongCall(a)[2] = Word("adr_x30", 0, 4)
         /\ LongCall(a)[3] = Word("br_x17", 0, 0)
         /\ LongCall(a)[4] = Address(a, 0)[1] /\ LongCall(a)[5] = Address(a, 0)[2]
<1>1. /\ Word("ldr_x17", 0, 3) \in Words /\ Word("adr_x30", 0, 4) \in Words
      /\ Word("br_x17", 0, 0) \in Words
  <2>1. "ldr_x17" \in Ops /\ "adr_x30" \in Ops /\ "br_x17" \in Ops
    BY DEF Ops
  <2>2. QED
    BY <2>1, WordType
<1> DEFINE s == <<Word("ldr_x17", 0, 3), Word("adr_x30", 0, 4), Word("br_x17", 0, 0)>>
           t == Address(a, 0)
<1>2. s \in Seq(Words) /\ Len(s) = 3
  BY <1>1
<1>3. s[1] = Word("ldr_x17", 0, 3) /\ s[2] = Word("adr_x30", 0, 4)
      /\ s[3] = Word("br_x17", 0, 0)
  OBVIOUS
<1>4. t \in Seq(Words) /\ Len(t) = 2
  BY AddressType
<1>5. LongCall(a) = s \o t
  BY DEF LongCall
<1> HIDE DEF s, t
<1>6. /\ Len(s \o t) = 5
      /\ (s \o t)[1] = s[1] /\ (s \o t)[2] = s[2] /\ (s \o t)[3] = s[3]
  <2>1. /\ Len(s \o t) = Len(s) + Len(t)
        /\ \A j \in 1..Len(s) : (s \o t)[j] = s[j]
    BY <1>2, <1>4, Parts
  <2>2. Len(s) = 3 /\ Len(t) = 2
    BY <1>2, <1>4
  <2>3. QED
    BY <2>1, <2>2
<1>7. (s \o t)[3 + 1] = t[1] /\ (s \o t)[3 + 2] = t[2]
  <2>1. \A j \in 1..Len(t) : (s \o t)[Len(s) + j] = t[j]
    BY <1>2, <1>4, Parts
  <2>2. \A j \in 1..2 : (s \o t)[3 + j] = t[j]
    BY <1>2, <1>4, <2>1
  <2>3. 1 \in 1..2 /\ 2 \in 1..2
    OBVIOUS
  <2>4. QED
    BY <2>2, <2>3, Zenon
<1>8. (s \o t)[4] = t[1] /\ (s \o t)[5] = t[2]
  <2>1. 3 + 1 = 4 /\ 3 + 2 = 5
    OBVIOUS
  <2>2. QED
    BY <1>7, <2>1
<1>9. QED
  BY <1>3, <1>5, <1>6, <1>8, LongType DEF t

LEMMA LongLoadWords ==
  ASSUME NEW k \in Int, NEW a \in Int, NEW byte \in 0..3
  PROVE  /\ Len(LongLoad(k, a, byte)) = 4
         /\ LongLoad(k, a, byte)[1] = Word("ldr_rd", k, 2)
         /\ LongLoad(k, a, byte)[2] = Word("b", 0, 3)
         /\ LongLoad(k, a, byte)[3] = Address(a, byte)[1]
         /\ LongLoad(k, a, byte)[4] = Address(a, byte)[2]
<1> DEFINE s == <<Word("ldr_rd", k, 2), Word("b", 0, 3)>>
<1>1. s \in Seq(Words) /\ Len(s) = 2
  BY WordType DEF Ops, Kinds
<1>2. Address(a, byte) \in Seq(Words) /\ Len(Address(a, byte)) = 2
  BY AddressType
<1>3. s[1] = Word("ldr_rd", k, 2) /\ s[2] = Word("b", 0, 3)
  OBVIOUS
<1>4. LongLoad(k, a, byte) = s \o Address(a, byte)
  BY DEF LongLoad
<1> HIDE DEF s
<1>5. /\ (s \o Address(a, byte))[1] = s[1] /\ (s \o Address(a, byte))[2] = s[2]
      /\ (s \o Address(a, byte))[2 + 1] = Address(a, byte)[1]
      /\ (s \o Address(a, byte))[2 + 2] = Address(a, byte)[2]
      /\ Len(s \o Address(a, byte)) = 4
  BY <1>1, <1>2, Parts
<1>6. QED
  BY <1>3, <1>4, <1>5

LEMMA LongConditionWords ==
  ASSUME NEW k \in Int, To(k) \in Int
  PROVE  /\ Len(LongCondition(k)) = 6
         /\ LongCondition(k)[1] = Word("cond", k, 2)
         /\ LongCondition(k)[2] = Word("b", 0, 5)
         /\ LongCondition(k)[3] = Word("ldr_x17", 0, 2)
         /\ LongCondition(k)[4] = Word("br_x17", 0, 0)
         /\ LongCondition(k)[5].of = To(k)
<1>1. Word("cond", k, 2) \in Words /\ Word("b", 0, 5) \in Words
  BY WordType DEF Ops, Kinds
<1> DEFINE s == <<Word("cond", k, 2), Word("b", 0, 5)>>
           t == LongJump(To(k))
<1>2. s \in Seq(Words) /\ Len(s) = 2
  BY <1>1
<1>3. s[1] = Word("cond", k, 2) /\ s[2] = Word("b", 0, 5)
  OBVIOUS
<1>4. /\ t \in Seq(Words) /\ Len(t) = 4
      /\ t[1] = Word("ldr_x17", 0, 2) /\ t[2] = Word("br_x17", 0, 0)
      /\ t[3] = Address(To(k), 0)[1]
  BY LongJumpWords
<1>5. t[3].of = To(k)
  BY <1>4, AddressWords
<1>6. LongCondition(k) = s \o t
  BY DEF LongCondition
<1> HIDE DEF s, t
<1>7. /\ Len(s \o t) = 6
      /\ (s \o t)[1] = s[1] /\ (s \o t)[2] = s[2]
  <2>1. /\ Len(s \o t) = Len(s) + Len(t)
        /\ \A j \in 1..Len(s) : (s \o t)[j] = s[j]
    BY <1>2, <1>4, Parts
  <2>2. Len(s) = 2 /\ Len(t) = 4
    BY <1>2, <1>4
  <2>3. QED
    BY <2>1, <2>2
<1>8. (s \o t)[2 + 1] = t[1] /\ (s \o t)[2 + 2] = t[2] /\ (s \o t)[2 + 3] = t[3]
  <2>1. \A j \in 1..Len(t) : (s \o t)[Len(s) + j] = t[j]
    BY <1>2, <1>4, Parts
  <2>2. \A j \in 1..4 : (s \o t)[2 + j] = t[j]
    BY <1>2, <1>4, <2>1
  <2>3. 1 \in 1..4 /\ 2 \in 1..4 /\ 3 \in 1..4
    OBVIOUS
  <2>4. QED
    BY <2>2, <2>3, Zenon
<1>9. (s \o t)[3] = t[1] /\ (s \o t)[4] = t[2] /\ (s \o t)[5] = t[3]
  <2>1. 2 + 1 = 3 /\ 2 + 2 = 4 /\ 2 + 3 = 5
    OBVIOUS
  <2>2. QED
    BY <1>8, <2>1
<1>10. /\ Len(s \o t) = 6
       /\ (s \o t)[1] = Word("cond", k, 2) /\ (s \o t)[2] = Word("b", 0, 5)
       /\ (s \o t)[3] = Word("ldr_x17", 0, 2)
       /\ (s \o t)[4] = Word("br_x17", 0, 0) /\ (s \o t)[5].of = To(k)
  BY <1>3, <1>4, <1>5, <1>7, <1>9
<1>11. QED
  BY <1>6, <1>10

LEMMA CopiedLoadWords ==
  ASSUME NEW k \in Int, To(k) \in Int, NEW w \in Words, NEW n \in {1, 2, 4}
  PROVE  /\ Len(CopiedLoad(k, w, n)) = 2 + n
         /\ CopiedLoad(k, w, n)[1] = w
         /\ CopiedLoad(k, w, n)[2] = Word("b", 0, 1 + n)
         /\ \A j \in 0..(n - 1) :
              CopiedLoad(k, w, n)[3 + j] = Word("memory", To(k) + j, 0)
<1>1. Word("b", 0, 1 + n) \in Words
  BY WordType DEF Ops, Kinds
<1> DEFINE s == <<w, Word("b", 0, 1 + n)>>
           t == Memory(To(k), n)
<1>2. s \in Seq(Words) /\ Len(s) = 2
  BY <1>1
<1>3. s[1] = w /\ s[2] = Word("b", 0, 1 + n)
  OBVIOUS
<1>4. t \in Seq(Words) /\ Len(t) = n
  BY MemoryType
<1>5. \A j \in 1..n : t[j] = Word("memory", To(k) + j - 1, 0)
  BY DEF Memory
<1>6. CopiedLoad(k, w, n) = s \o t
  BY DEF CopiedLoad
<1> HIDE DEF s, t
<1>7. (s \o t)[1] = s[1] /\ (s \o t)[2] = s[2] /\ Len(s \o t) = 2 + n
  BY <1>2, <1>4, Parts
<1>8. \A j \in 1..n : (s \o t)[2 + j] = t[j]
  <2>1. \A j \in 1..Len(t) : (s \o t)[Len(s) + j] = t[j]
    BY <1>2, <1>4, Parts
  <2>2. QED
    BY <1>2, <1>4, <2>1
<1>9. ASSUME NEW j \in 0..(n - 1)
      PROVE  (s \o t)[3 + j] = Word("memory", To(k) + j, 0)
  <2>1. j + 1 \in 1..n /\ 2 + (j + 1) = 3 + j
    OBVIOUS
  <2>2. To(k) + (j + 1) - 1 = To(k) + j
    OBVIOUS
  <2>3. (s \o t)[2 + (j + 1)] = t[j + 1]
    BY <1>8, <2>1
  <2>4. t[j + 1] = Word("memory", To(k) + (j + 1) - 1, 0)
    BY <1>5, <2>1
  <2>5. QED
    BY <2>1, <2>2, <2>3, <2>4
<1>10. QED
  BY <1>3, <1>6, <1>7, <1>9

LEMMA HopFar ==
  ASSUME NEW x, NEW a, At(x) = Word("ldr_x17", 0, 2),
         At(x + 1) = Word("br_x17", 0, 0), At(x + 2).of = a
  PROVE  Hop(x) = a
<1>1. At(x).op = "ldr_x17" /\ At(x).off = 2 /\ At(x + 1).op = "br_x17"
  BY DEF Word
<1>2. QED
  BY <1>1 DEF Hop

LEMMA HopBranch ==
  ASSUME NEW x, At(x).op = "b"
  PROVE  Hop(x) = x + At(x).off
BY DEF Hop

LEMMA HopOther ==
  ASSUME NEW x, At(x).op \notin {"nop", "b", "ldr_x17"}
  PROVE  Hop(x) = x
BY DEF Hop

-----------------------------------------------------------------------------
(* Going on in the trampoline is going on in the function *)

LEMMA PlaceOutsideNamed ==
  ASSUME NEW beg, NEW core, Finished(beg, core), NEW k \in 0..(Count - 1), ~Inner(k),
         program[k + 1].kind \in {"b", "bl", "cond", "test"}
  PROVE  ~is_in_fixing_range(To(k)) /\ Place(beg, core, To(k), To(k))
<1>1. ~is_in_fixing_range(To(k)) /\ Movable(k) /\ To(k) \in Int
  BY BlockOf DEF Inner
<1>2. To(k) \notin Pool
  <2>1. CASE program[k + 1].kind \in {"b", "bl"}
    BY <1>1, <2>1 DEF Movable, To
  <2>2. CASE program[k + 1].kind = "cond"
    BY <1>1, <2>2 DEF Movable, To
  <2>3. CASE program[k + 1].kind = "test"
    BY <1>1, <2>3 DEF Movable, To
  <2>4. QED
    BY <2>1, <2>2, <2>3
<1>3. QED
  BY <1>1, <1>2, PlaceOutside

\* A branch goes on where what it names has moved.
LEMMA BranchGoesOn ==
  ASSUME NEW beg, NEW core, Finished(beg, core), NEW k \in 0..(Count - 1),
         program[k + 1].kind = "b"
  PROVE  Place(beg, core, Hop(core[k]), To(k)) /\ Hop(core[k]) \in Int
<1>1. core[k] \in Int /\ To(k) \in Int
  BY BlockOf
<1>2. CASE Inner(k)
  <2>1. /\ Says(k, At(core[k]))
        /\ Place(beg, core, core[k] + At(core[k]).off, To(k))
        /\ core[k] + At(core[k]).off \in Int
    BY <1>2, NamesPlace
  <2>2. At(core[k]).op = "b"
    BY <2>1 DEF Says
  <2>3. QED
    BY <2>1, <2>2, HopBranch
<1>3. CASE ~Inner(k)
  <2>1. PICK ws \in Seq(Words) :
          /\ \A i \in 0..(Len(ws) - 1) : At(core[k] + i) = ws[i + 1]
          /\ Short(k, core[k], ws) \/ Long(k, ws)
    BY <1>3, StandsAlone
  <2>2. Hop(core[k]) = To(k)
    <3>1. CASE Short(k, core[k], ws)
      <4>1. Len(ws) = 1 /\ ws[1].op = "b" /\ core[k] + ws[1].off = To(k)
        BY <3>1 DEF Short, Says
      <4>2. At(core[k] + 0) = ws[0 + 1]
        BY <2>1, <4>1
      <4>3. At(core[k]) = ws[1]
        BY <1>1, <4>2
      <4>4. QED
        BY <4>1, <4>3, HopBranch
    <3>2. CASE Long(k, ws)
      <4>1. ws = LongJump(To(k))
        BY <3>2 DEF Long
      <4>2. /\ Len(ws) = 4 /\ ws[1] = Word("ldr_x17", 0, 2)
            /\ ws[2] = Word("br_x17", 0, 0) /\ ws[3].of = To(k)
        BY <1>1, <4>1, LongJumpWords, AddressWords
      <4>3. /\ At(core[k] + 0) = ws[0 + 1] /\ At(core[k] + 1) = ws[1 + 1]
            /\ At(core[k] + 2) = ws[2 + 1]
        BY <2>1, <4>2
      <4>4. /\ At(core[k]) = ws[1] /\ At(core[k] + 1) = ws[2]
            /\ At(core[k] + 2) = ws[3]
        BY <1>1, <4>3
      <4>5. QED
        BY <4>2, <4>4, HopFar
    <3>3. QED
      BY <2>1, <3>1, <3>2
  <2>3. QED
    BY <1>1, <1>3, <2>2, PlaceOutsideNamed
<1>4. QED
  BY <1>2, <1>3

LEMMA PrefetchIsNothing ==
  ASSUME NEW beg, NEW core, Finished(beg, core), NEW k \in 0..(Count - 1),
         program[k + 1].kind = "prfm"
  PROVE  core[k] = beg[k + 1]
<1>1. core[k] \in Int /\ ~Inner(k)
  BY BlockOf DEF Inner
<1>2. PICK ws \in Seq(Words) :
        /\ beg[k + 1] = core[k] + Len(ws)
        /\ Short(k, core[k], ws) \/ Long(k, ws)
  BY <1>1, StandsAlone
<1>3. ws = <<>>
  BY <1>2 DEF Short, Long
<1>4. Len(ws) = 0
  BY <1>3
<1>5. QED
  BY <1>1, <1>2, <1>4

LEMMA PlaceIsAddress ==
  ASSUME NEW beg, NEW core, Finished(beg, core), NEW a \in Int, NEW x,
         Place(beg, core, x, a)
  PROVE  x \in Int
<1>1. /\ Count \in 0..5 /\ beg \in [0..Count -> Int] /\ core \in [0..(Count - 1) -> Int]
  BY Whole
<1>2. \A k \in 0..(Count - 1) : beg[k] \in Int /\ core[k] \in Int
  BY BlockOf
<1>3. beg[Count] \in Int
  BY <1>1
<1>4. QED
  BY <1>2, <1>3 DEF Place

\* Any padding leads to the instruction.
LEMMA ReachesCore ==
  ASSUME NEW beg, NEW core, Finished(beg, core), NEW k \in 0..(Count - 1),
         NEW x \in {beg[k], core[k]}
  PROVE  Reaches(x, core[k], 3)
<1>1. core[k] \in Int /\ Reaches(beg[k], core[k], 3)
  BY BlockOf
<1>2. Reaches(core[k], core[k], 3)
  BY <1>1, ReachesItself
<1>3. QED
  BY <1>1, <1>2

\* The place of an address that moves is the instruction's or its padding.
LEMMA PlaceInside ==
  ASSUME NEW beg, NEW core, Finished(beg, core), NEW a, NEW x,
         Place(beg, core, x, a), is_in_fixing_range(a)
  PROVE  \E k \in 0..(Count - 1) :
           a = base + k /\ x \in {beg[k], core[k]} /\ Original(a) = program[k + 1]
<1>1. Count \in 0..5 /\ base \in Nat
  BY Whole
<1>2. a \in base..(base + Count - 1)
  BY DEF is_in_fixing_range
<1>3. a # base + Count /\ a \in base..(base + Count)
  BY <1>1, <1>2
<1>4. PICK k \in 0..(Count - 1) : a = base + k /\ x \in {beg[k], core[k]}
  BY <1>3 DEF Place
<1>5. a - base + 1 = k + 1
  BY <1>1, <1>4
<1>6. QED
  BY <1>4, <1>5 DEF Original

LEMMA PassPlace ==
  ASSUME NEW beg, NEW core, Finished(beg, core), NEW a \in Int, NEW x,
         Place(beg, core, x, a)
  PROVE  /\ Pass(a) \in Int
         /\ \E y : Place(beg, core, y, Pass(a)) /\ Reaches(x, y, 4)
<1>1. /\ Count \in 0..5 /\ base \in Nat /\ x \in Int
  BY Whole, PlaceIsAddress
<1>2. CASE Pass(a) = a
  BY <1>1, <1>2, ReachesItself
<1>3. CASE Pass(a) # a
  <2>1. is_in_fixing_range(a)
    BY <1>3 DEF Pass
  <2>2. PICK k \in 0..(Count - 1) :
          a = base + k /\ x \in {beg[k], core[k]} /\ Original(a) = program[k + 1]
    BY <2>1, PlaceInside
  <2>3. Reaches(x, core[k], 3) /\ core[k] \in Int
    BY <2>2, ReachesCore, BlockOf
  <2>4. CASE Original(a).kind = "b"
    <3>1. Pass(a) = To(k)
      BY <2>1, <2>2, <2>4 DEF Pass, To
    <3>2. Place(beg, core, Hop(core[k]), To(k)) /\ Hop(core[k]) \in Int
      BY <2>2, <2>4, BranchGoesOn
    <3>3. Reaches(core[k], Hop(core[k]), 1)
      BY <2>3, <3>2, ReachesByHop
    <3>4. Reaches(x, Hop(core[k]), 3 + 1)
      BY <2>3, <3>3, ReachesOn
    <3>5. To(k) \in Int
      BY BlockOf
    <3>6. QED
      BY <3>1, <3>2, <3>4, <3>5
  <2>5. CASE Original(a).kind = "prfm"
    <3>1. Pass(a) = a + 1
      BY <2>1, <2>5 DEF Pass
    <3>2. core[k] = beg[k + 1]
      BY <2>2, <2>5, PrefetchIsNothing
    <3>3. Place(beg, core, core[k], Pass(a))
      BY <2>2, <3>1, <3>2, PlaceBehind
    <3>4. Reaches(x, core[k], 4)
      BY <2>3, ReachesMore
    <3>5. QED
      BY <3>1, <3>3, <3>4
  <2>6. QED
    BY <1>3, <2>1, <2>4, <2>5 DEF Pass
<1>4. QED
  BY <1>2, <1>3

LEMMA ArrivePlace ==
  ASSUME NEW beg, NEW core, Finished(beg, core), NEW a \in Int, NEW x,
         Place(beg, core, x, a)
  PROVE  /\ Arrive(a) \in Int
         /\ \E y : Place(beg, core, y, Arrive(a)) /\ Reaches(x, y, 20)
<1>1. PICK a1, y1 : /\ a1 \in Int /\ a1 = Pass(a)
                    /\ Place(beg, core, y1, a1) /\ Reaches(x, y1, 4)
  BY PassPlace
<1>2. PICK a2, y2 : /\ a2 \in Int /\ a2 = Pass(a1)
                    /\ Place(beg, core, y2, a2) /\ Reaches(y1, y2, 4)
  BY <1>1, PassPlace
<1>3. PICK a3, y3 : /\ a3 \in Int /\ a3 = Pass(a2)
                    /\ Place(beg, core, y3, a3) /\ Reaches(y2, y3, 4)
  BY <1>2, PassPlace
<1>4. PICK a4, y4 : /\ a4 \in Int /\ a4 = Pass(a3)
                    /\ Place(beg, core, y4, a4) /\ Reaches(y3, y4, 4)
  BY <1>3, PassPlace
<1>5. PICK a5, y5 : /\ a5 \in Int /\ a5 = Pass(a4)
                    /\ Place(beg, core, y5, a5) /\ Reaches(y4, y5, 4)
  BY <1>4, PassPlace
<1>6. Arrive(a) = a5
  BY <1>1, <1>2, <1>3, <1>4, <1>5 DEF Arrive
<1>7. Reaches(x, y2, 4 + 4)
  BY <1>1, <1>2, ReachesOn
<1>8. Reaches(x, y3, 8 + 4)
  BY <1>3, <1>7, ReachesOn
<1>9. Reaches(x, y4, 12 + 4)
  BY <1>4, <1>8, ReachesOn
<1>10. Reaches(x, y5, 16 + 4)
  BY <1>5, <1>9, ReachesOn
<1>11. QED
  BY <1>5, <1>6, <1>10

\* The jump at the end leads to the rest of the function.
LEMMA JumpsBack ==
  ASSUME NEW beg, NEW core, Finished(beg, core)
  PROVE  Reaches(beg[Count], base + Count, 2)
<1>1. /\ TypeOK /\ idx = Count /\ Count \in 0..5 /\ base \in Nat
      /\ Laid(beg, core) /\ done /\ beg[Count] \in Int
  BY Whole DEF Finished
<1>2. PICK t \in Int : t = base + Count
  BY <1>1
<1>3. PICK b \in Int : b = beg[Count]
  BY <1>1
<1>4. PICK c \in Int : JumpAt(b, c)
  BY <1>1, <1>3 DEF Laid
<1>5. c \in b..(b + 1) /\ Padded(b, c)
  BY <1>4 DEF JumpAt
<1>6. PICK ws \in Seq(Words) :
        /\ outprx = c + Len(ws) /\ Stands(ws, c)
        /\ \/ c = b /\ ws = <<Word("b", 0, t - c)>>
           \/ ws = LongJump(t)
  <2>1. PICK q \in Int : q = base + Count - c
    BY <1>1
  <2>2. q = t - c
    BY <1>1, <1>2, <2>1
  <2>3. QED
    BY <1>2, <1>4, <2>1, <2>2 DEF JumpAt
<1>7. \A i \in 1..Len(ws) : At(c + i - 1) = ws[i]
  BY <1>6 DEF Stands
<1>8. Hop(c) = t
  <2>1. CASE ws = <<Word("b", 0, t - c)>>
    <3>1. Len(ws) = 1 /\ ws[1] = Word("b", 0, t - c)
      BY <2>1
    <3>2. At(c + 1 - 1) = ws[1] /\ c + 1 - 1 = c
      BY <1>7, <3>1
    <3>3. At(c).op = "b" /\ At(c).off = t - c
      BY <3>1, <3>2 DEF Word
    <3>4. Hop(c) = c + (t - c)
      BY <3>3, HopBranch
    <3>5. QED
      BY <3>4
  <2>2. CASE ws = LongJump(t)
    <3>1. /\ Len(ws) = 4 /\ ws[1] = Word("ldr_x17", 0, 2)
          /\ ws[2] = Word("br_x17", 0, 0) /\ ws[3].of = t
      BY <2>2, LongJumpWords, AddressWords
    <3>2. /\ At(c + 1 - 1) = ws[1] /\ At(c + 2 - 1) = ws[2]
          /\ At(c + 3 - 1) = ws[3]
      BY <1>7, <3>1
    <3>3. c + 1 - 1 = c /\ c + 2 - 1 = c + 1 /\ c + 3 - 1 = c + 2
      OBVIOUS
    <3>4. At(c) = ws[1] /\ At(c + 1) = ws[2] /\ At(c + 2) = ws[3]
      BY <3>2, <3>3
    <3>5. QED
      BY <3>1, <3>4, HopFar
  <2>3. QED
    BY <1>6, <2>1, <2>2
<1>9. Reaches(b, c, 1)
  BY <1>5, ReachesOverPadding
<1>10. Reaches(c, t, 1)
  BY <1>8, ReachesByHop
<1>11. Reaches(b, t, 1 + 1)
  BY <1>9, <1>10, ReachesOn
<1>12. QED
  BY <1>2, <1>3, <1>11

\* Execution stays at any instruction but a branch or a prefetch.
LEMMA StaysThere ==
  ASSUME NEW beg, NEW core, Finished(beg, core), NEW k \in 0..(Count - 1),
         program[k + 1].kind \notin {"b", "prfm"}
  PROVE  Hop(core[k]) = core[k]
<1>1. /\ core[k] \in Int /\ To(k) \in Int /\ program[k + 1] \in Insns
      /\ program[k + 1].kind \in Kinds
      /\ k \in Int /\ base \in Int /\ program[k + 1].imm \in Int
  BY BlockOf, Whole DEF Insns
<1>2. CASE Inner(k)
  <2>1. At(core[k]).op \in {"bl", "cond", "adr"}
    BY <1>2, NamesPlace DEF Inner, Says
  <2>2. QED
    BY <2>1, HopOther
<1>3. CASE ~Inner(k)
  <2>1. PICK ws \in Seq(Words) :
          /\ \A i \in 0..(Len(ws) - 1) : At(core[k] + i) = ws[i + 1]
          /\ Short(k, core[k], ws) \/ Long(k, ws)
    BY <1>3, StandsAlone
  <2>2. Len(ws) >= 1 => At(core[k]) = ws[1]
    <3>1. ASSUME Len(ws) >= 1
          PROVE  At(core[k]) = ws[1]
      <4>1. 0 \in 0..(Len(ws) - 1) /\ core[k] + 0 = core[k]
        BY <1>1, <3>1
      <4>2. At(core[k] + 0) = ws[0 + 1]
        BY <2>1, <4>1
      <4>3. QED
        BY <4>1, <4>2
    <3>2. QED
      BY <3>1
  <2>3. CASE Short(k, core[k], ws)
    <3>1. Len(ws) = 1 /\ ws[1].op \in {"plain", "bl", "cond", "ldr", "adr"}
      BY <2>3 DEF Short, Says
    <3>2. QED
      BY <2>2, <3>1, HopOther
  <2>4. CASE Long(k, ws)
    <3>1. CASE program[k + 1].kind = "bl"
      <4>1. ws = LongCall(To(k))
        BY <2>4, <3>1 DEF Long
      <4>2. /\ Len(ws) = 5 /\ ws[1] = Word("ldr_x17", 0, 3)
            /\ ws[2] = Word("adr_x30", 0, 4)
        BY <1>1, <4>1, LongCallWords
      <4>3. At(core[k] + 1) = ws[1 + 1]
        BY <2>1, <4>2
      <4>4. At(core[k]).op = "ldr_x17" /\ At(core[k] + 1).op = "adr_x30"
        BY <2>2, <4>2, <4>3 DEF Word
      <4>5. QED
        BY <4>4 DEF Hop
    <3>2. CASE program[k + 1].kind \in {"cond", "test"}
      <4>1. ws = LongCondition(k)
        BY <2>4, <3>2 DEF Long
      <4>2. Len(ws) = 6 /\ ws[1] = Word("cond", k, 2)
        BY <1>1, <4>1, LongConditionWords
      <4>3. At(core[k]).op = "cond"
        BY <2>2, <4>2 DEF Word
      <4>4. QED
        BY <4>3, HopOther
    <3>3. CASE program[k + 1].kind = "ldr"
      <4>1. PICK w \in Words, n \in {1, 2, 4} : Says(k, w) /\ ws = CopiedLoad(k, w, n)
        BY <2>4, <3>3 DEF Long
      <4>2. Len(ws) = 2 + n /\ ws[1] = w /\ w.op = "ldr"
        <5>1. Len(CopiedLoad(k, w, n)) = 2 + n /\ CopiedLoad(k, w, n)[1] = w
          BY <1>1, CopiedLoadWords
        <5>2. w.op = "ldr"
          BY <3>3, <4>1 DEF Says
        <5>3. QED
          BY <4>1, <5>1, <5>2
      <4>3. At(core[k]).op = "ldr"
        BY <2>2, <4>2
      <4>4. QED
        BY <4>3, HopOther
    <3>4. CASE program[k + 1].kind \in {"adr", "adrp"}
      <4>1. PICK a \in Int, byte \in 0..3 : ws = LongLoad(k, a, byte)
        <5>1. CASE program[k + 1].kind = "adr"
          <6>1. ws = LongLoad(k, To(k), program[k + 1].byte)
            BY <2>4, <5>1 DEF Long
          <6>2. program[k + 1].byte \in 0..3
            BY <1>1 DEF Insns
          <6>3. QED
            BY <1>1, <6>1, <6>2
        <5>2. CASE program[k + 1].kind = "adrp"
          <6>1. ws = LongLoad(k, PageStart(base + k) + 1024 * program[k + 1].imm, 0)
            BY <2>4, <5>2 DEF Long
          <6>2. PageStart(base + k) + 1024 * program[k + 1].imm \in Int
            BY <1>1 DEF PageStart
          <6>3. QED
            BY <6>1, <6>2
        <5>3. QED
          BY <3>4, <5>1, <5>2
      <4>2. Len(ws) = 4 /\ ws[1] = Word("ldr_rd", k, 2)
        <5>1. /\ Len(LongLoad(k, a, byte)) = 4
              /\ LongLoad(k, a, byte)[1] = Word("ldr_rd", k, 2)
          BY <1>1, LongLoadWords
        <5>2. QED
          BY <4>1, <5>1
      <4>3. At(core[k]).op = "ldr_rd"
        BY <2>2, <4>2 DEF Word
      <4>4. QED
        BY <4>3, HopOther
    <3>5. program[k + 1].kind # "plain"
      BY <2>4 DEF Long
    <3>6. QED
      BY <1>1, <3>1, <3>2, <3>3, <3>4, <3>5 DEF Kinds
  <2>5. QED
    BY <2>1, <2>3, <2>4
<1>4. QED
  BY <1>2, <1>3

\* From there it does not get far, so it is found.
LEMMA FollowsToCore ==
  ASSUME NEW beg, NEW core, Finished(beg, core), NEW k \in 0..(Count - 1),
         program[k + 1].kind \notin {"b", "prfm"},
         NEW x, Reaches(x, core[k], 24)
  PROVE  Follow(x) = core[k]
BY BlockOf, StaysThere, FollowReaches

LEMMA StartIsCore ==
  ASSUME NEW beg, NEW core, Finished(beg, core), NEW k \in 0..(Count - 1),
         program[k + 1].kind \notin {"b", "prfm"}
  PROVE  StartOf(k) = core[k]
<1>1. /\ beg[k] \in Int /\ core[k] \in Int /\ out <= beg[k]
      /\ core[k] \in beg[k]..(beg[k] + 3)
      /\ core[k] <= beg[k + 1] /\ beg[k + 1] < outprx /\ beg[k + 1] \in Int
  BY BlockOf
<1>2. out \in Nat /\ outprx \in out..(out + 50)
  BY Whole
<1>3. RwShift \in Int /\ RwShift \notin (-50)..50
  BY HooksAssumption DEF TrampolineSize, MaxInstructions
<1>4. StartsAt(k, dat[k + 1], beg[k], core[k])
  BY BlockOf DEF BlockAt
<1>5. \A x \in {beg[k], core[k]} : x \in out..(outprx - 1)
  BY <1>1, <1>2
<1>6. \A x \in {beg[k], core[k]} : Follow(x) = core[k]
  <2>1. TAKE x \in {beg[k], core[k]}
  <2>2. Reaches(x, core[k], 3)
    BY ReachesCore
  <2>3. Reaches(x, core[k], 24)
    BY <2>2, ReachesMore
  <2>4. QED
    BY <2>3, FollowsToCore
<1>7. CASE dat[k + 1] \in {beg[k], core[k]}
  <2>1. PICK d \in Int : d = dat[k + 1] /\ d \in {beg[k], core[k]}
    BY <1>1, <1>7
  <2>2. d - RwShift \notin out..(outprx - 1)
    BY <1>2, <1>3, <1>5, <2>1
  <2>3. StartOf(k) = Follow(d)
    BY <2>1, <2>2 DEF StartOf, InTrampoline
  <2>4. QED
    BY <1>6, <2>1, <2>3
<1>8. CASE dat[k + 1] - RwShift \in {beg[k], core[k]}
  <2>1. dat[k + 1] - RwShift \in out..(outprx - 1)
    BY <1>5, <1>8
  <2>2. StartOf(k) = Follow(dat[k + 1] - RwShift)
    BY <2>1 DEF StartOf, InTrampoline
  <2>3. QED
    BY <1>6, <1>8, <2>2
<1>9. QED
  BY <1>4, <1>7, <1>8 DEF StartsAt

\* One hop from the place of a, or at it, execution goes on as at a.
LEMMA GoesOn ==
  ASSUME NEW beg, NEW core, Finished(beg, core), NEW a \in Int, NEW x, NEW y,
         Place(beg, core, y, a), Reaches(x, y, 1)
  PROVE  GoesOnAt(x, a)
<1>1. PICK z : Place(beg, core, z, Arrive(a)) /\ Reaches(y, z, 20)
  BY ArrivePlace
<1>2. Reaches(x, z, 1 + 20)
  BY <1>1, ReachesOn
<1>3. PICK t : t = Arrive(a)
  OBVIOUS
<1>4. Count \in 0..5 /\ base \in Nat /\ base + Count \notin Pool
  BY Whole
<1>5. CASE ~is_in_fixing_range(t)
  <2>1. Reaches(z, t, 3) /\ t \notin Pool /\ t \in Int
    <3>1. \A k \in 0..(Count - 1) : t # base + k
      BY <1>4, <1>5 DEF is_in_fixing_range
    <3>2. CASE t = base + Count /\ z = beg[Count]
      <4>1. Reaches(z, t, 2)
        BY <3>2, JumpsBack
      <4>2. QED
        BY <1>4, <3>2, <4>1, ReachesMore
    <3>3. CASE t = base + Count /\ z = t
      BY <1>4, <3>3, ReachesItself
    <3>4. CASE t \notin Pool /\ z = t
      <4>1. t \in Int
        BY <1>3, ArrivePlace
      <4>2. QED
        BY <3>4, <4>1, ReachesItself
    <3>5. QED
      BY <1>1, <1>3, <3>1, <3>2, <3>3, <3>4 DEF Place
  <2>2. Reaches(x, t, 21 + 3)
    BY <1>2, <2>1, ReachesOn
  <2>3. Hop(t) = t
    BY <2>1, Whole
  <2>4. Follow(x) = t
    BY <2>1, <2>2, <2>3, FollowReaches
  <2>5. QED
    BY <1>3, <1>5, <2>4 DEF GoesOnAt
<1>6. CASE is_in_fixing_range(t) /\ Original(t).kind \notin {"b", "prfm"}
  <2>1. PICK k \in 0..(Count - 1) :
          t = base + k /\ z \in {beg[k], core[k]} /\ Original(t) = program[k + 1]
    BY <1>1, <1>3, <1>6, PlaceInside
  <2>2. Reaches(z, core[k], 3)
    BY <2>1, ReachesCore
  <2>3. Reaches(x, core[k], 21 + 3)
    BY <1>2, <2>2, ReachesOn
  <2>4. Follow(x) = core[k] /\ StartOf(k) = core[k]
    BY <1>6, <2>1, <2>3, FollowsToCore, StartIsCore
  <2>5. t - base = k
    BY <1>4, <2>1
  <2>6. QED
    BY <1>3, <1>6, <2>4, <2>5 DEF GoesOnAt
<1>7. CASE is_in_fixing_range(t) /\ Original(t).kind \in {"b", "prfm"}
  BY <1>3, <1>7 DEF GoesOnAt
<1>8. QED
  BY <1>5, <1>6, <1>7

-----------------------------------------------------------------------------
(* Each instruction does what it did *)

\* Where the next block starts, or one hop before, the next instruction follows.
LEMMA GoesOnBehind ==
  ASSUME NEW beg, NEW core, Finished(beg, core), NEW k \in 0..(Count - 1),
         NEW x \in Int, x = beg[k + 1] \/ Hop(x) = beg[k + 1]
  PROVE  GoesOnAt(x, base + k + 1)
<1>1. Place(beg, core, beg[k + 1], base + k + 1)
  BY PlaceBehind
<1>2. beg[k + 1] \in Int /\ base + k + 1 \in Int
  BY BlockOf, Whole
<1>3. Reaches(x, beg[k + 1], 1)
  <2>1. CASE x = beg[k + 1]
    BY <1>2, <2>1, ReachesItself
  <2>2. CASE Hop(x) = beg[k + 1]
    BY <1>2, <2>2, ReachesByHop
  <2>3. QED
    BY <2>1, <2>2
<1>4. QED
  BY <1>1, <1>2, <1>3, GoesOn

\* An instruction of one word is followed by the next, and names what it named.
LEMMA OneWord ==
  ASSUME NEW beg, NEW core, Finished(beg, core), NEW k \in 0..(Count - 1),
         NEW ws \in Seq(Words), beg[k + 1] = core[k] + Len(ws),
         \A i \in 0..(Len(ws) - 1) :
           At(core[k] + i) = ws[i + 1] /\ InTrampoline(core[k] + i),
         Short(k, core[k], ws)
  PROVE  /\ Says(k, At(core[k])) /\ beg[k + 1] = core[k] + 1
         /\ program[k + 1].kind # "plain" => core[k] + At(core[k]).off = To(k)
<1>1. Len(ws) = 1 /\ core[k] \in Int
  BY BlockOf DEF Short
<1>2. At(core[k] + 0) = ws[0 + 1] /\ core[k] + 0 = core[k]
  BY <1>1
<1>3. At(core[k]) = ws[1]
  BY <1>2
<1>4. QED
  BY <1>1, <1>3 DEF Short

\* What names an address by its distance goes on there.
LEMMA GoesOnAtNamed ==
  ASSUME NEW beg, NEW core, Finished(beg, core), NEW k \in 0..(Count - 1),
         \/ Inner(k)
         \/ /\ program[k + 1].kind \in {"bl", "cond", "test"} /\ ~Inner(k)
            /\ core[k] + At(core[k]).off = To(k)
  PROVE  GoesOnAt(core[k] + At(core[k]).off, To(k))
<1>1. To(k) \in Int
  BY BlockOf
<1>2. CASE Inner(k)
  <2>1. PICK y \in Int : y = core[k] + At(core[k]).off /\ Place(beg, core, y, To(k))
    BY <1>2, NamesPlace
  <2>2. Reaches(y, y, 1)
    BY ReachesItself
  <2>3. GoesOnAt(y, To(k))
    BY <1>1, <2>1, <2>2, GoesOn
  <2>4. QED
    BY <2>1, <2>3
<1>3. CASE /\ program[k + 1].kind \in {"bl", "cond", "test"} /\ ~Inner(k)
           /\ core[k] + At(core[k]).off = To(k)
  <2>1. Place(beg, core, To(k), To(k))
    BY <1>3, PlaceOutsideNamed
  <2>2. Reaches(To(k), To(k), 1)
    BY <1>1, ReachesItself
  <2>3. GoesOnAt(To(k), To(k))
    BY <1>1, <2>1, <2>2, GoesOn
  <2>4. QED
    BY <1>3, <2>3
<1>4. QED
  BY <1>2, <1>3

LEMMA AddressStands ==
  ASSUME NEW x \in Int, NEW a, NEW byte,
         At(x) = Address(a, byte)[1], At(x + 1) = Address(a, byte)[2]
  PROVE  HoldsAddress(x, a, byte)
<1>1. x + 1 - 1 = x /\ x + 2 - 1 = x + 1
  OBVIOUS
<1>2. QED
  BY <1>1 DEF HoldsAddress

LEMMA PlainDoes ==
  ASSUME NEW beg, NEW core, Finished(beg, core), NEW k \in 0..(Count - 1),
         program[k + 1].kind = "plain"
  PROVE  DoesAsBefore(k)
<1>1. core[k] \in Int /\ StartOf(k) = core[k] /\ ~Inner(k)
  BY BlockOf, StartIsCore DEF Inner
<1>2. PICK ws \in Seq(Words) :
        /\ beg[k + 1] = core[k] + Len(ws)
        /\ \A i \in 0..(Len(ws) - 1) :
             At(core[k] + i) = ws[i + 1] /\ InTrampoline(core[k] + i)
        /\ Short(k, core[k], ws) \/ Long(k, ws)
  BY <1>1, StandsAlone
<1>3. Short(k, core[k], ws)
  BY <1>2 DEF Long
<1>4. Says(k, At(core[k])) /\ beg[k + 1] = core[k] + 1
  BY <1>2, <1>3, OneWord
<1>5. GoesOnAt(core[k] + 1, base + k + 1)
  BY <1>1, <1>4, GoesOnBehind
<1>6. At(core[k]).op = "plain" /\ At(core[k]).of = k
  BY <1>4 DEF Says
<1>7. QED
  BY <1>1, <1>5, <1>6 DEF DoesAsBefore

LEMMA BranchDoes ==
  ASSUME NEW beg, NEW core, Finished(beg, core), NEW k \in 0..(Count - 1),
         program[k + 1].kind \in {"b", "prfm"}
  PROVE  DoesAsBefore(k)
<1>1. dat[k + 1] \in {beg[k], core[k]} /\ Place(beg, core, dat[k + 1], base + k)
  BY StartsThere
<1>2. dat[k + 1] \in Int /\ base + k \in Int
  <2>1. Count \in 0..5 /\ base \in Nat
    BY Whole
  <2>2. beg[k] \in Int /\ core[k] \in Int
    BY BlockOf
  <2>3. QED
    BY <1>1, <2>1, <2>2
<1>3. Reaches(dat[k + 1], dat[k + 1], 1)
  BY <1>2, ReachesItself
<1>4. GoesOnAt(dat[k + 1], base + k)
  BY <1>1, <1>2, <1>3, GoesOn
<1>5. QED
  BY <1>4 DEF DoesAsBefore

LEMMA CallDoes ==
  ASSUME NEW beg, NEW core, Finished(beg, core), NEW k \in 0..(Count - 1),
         program[k + 1].kind = "bl"
  PROVE  DoesAsBefore(k)
<1>1. /\ core[k] \in Int /\ StartOf(k) = core[k] /\ To(k) \in Int
      /\ To(k) = base + k + program[k + 1].imm
  BY BlockOf, StartIsCore DEF To
<1>2. ASSUME Says(k, At(core[k])), beg[k + 1] = core[k] + 1,
             GoesOnAt(core[k] + At(core[k]).off, To(k))
      PROVE  DoesAsBefore(k)
  <2>1. GoesOnAt(core[k] + 1, base + k + 1)
    BY <1>1, <1>2, GoesOnBehind
  <2>2. At(core[k]).op = "bl" /\ At(core[k]).of = k
    BY <1>2 DEF Says
  <2>3. QED
    BY <1>1, <1>2, <2>1, <2>2 DEF DoesAsBefore
<1>3. CASE Inner(k)
  BY <1>2, <1>3, NamesPlace, GoesOnAtNamed
<1>4. CASE ~Inner(k)
  <2>1. PICK ws \in Seq(Words) :
          /\ beg[k + 1] = core[k] + Len(ws)
          /\ \A i \in 0..(Len(ws) - 1) :
               At(core[k] + i) = ws[i + 1] /\ InTrampoline(core[k] + i)
          /\ Short(k, core[k], ws) \/ Long(k, ws)
    BY <1>4, StandsAlone
  <2>2. CASE Short(k, core[k], ws)
    <3>1. /\ Says(k, At(core[k])) /\ beg[k + 1] = core[k] + 1
          /\ core[k] + At(core[k]).off = To(k)
      BY <2>1, <2>2, OneWord
    <3>2. GoesOnAt(core[k] + At(core[k]).off, To(k))
      BY <1>4, <3>1, GoesOnAtNamed
    <3>3. QED
      BY <1>2, <3>1, <3>2
  <2>3. CASE Long(k, ws)
    <3>1. ws = LongCall(To(k))
      BY <2>3 DEF Long
    <3>2. /\ Len(ws) = 5 /\ ws[1] = Word("ldr_x17", 0, 3)
          /\ ws[2] = Word("adr_x30", 0, 4) /\ ws[3] = Word("br_x17", 0, 0)
          /\ ws[4] = Address(To(k), 0)[1] /\ ws[5] = Address(To(k), 0)[2]
      BY <1>1, <3>1, LongCallWords
    <3>3. /\ At(core[k] + 0) = ws[0 + 1] /\ At(core[k] + 1) = ws[1 + 1]
          /\ At(core[k] + 2) = ws[2 + 1] /\ At(core[k] + 3) = ws[3 + 1]
          /\ At(core[k] + 4) = ws[4 + 1] /\ beg[k + 1] = core[k] + 5
      BY <2>1, <3>2
    <3>4. /\ At(core[k]) = ws[1] /\ At(core[k] + 1) = ws[2]
          /\ At(core[k] + 2) = ws[3] /\ At(core[k] + 3) = ws[4]
          /\ At((core[k] + 3) + 1) = ws[5]
      BY <1>1, <3>3
    <3>5. /\ At(core[k]).op = "ldr_x17" /\ At(core[k]).off = 3
          /\ At(core[k] + 1).op = "adr_x30" /\ At(core[k] + 1).off = 4
          /\ At(core[k] + 2).op = "br_x17"
      BY <3>2, <3>4 DEF Word
    <3>6. HoldsAddress(core[k] + 3, To(k), 0)
      BY <1>1, <3>2, <3>4, AddressStands
    <3>7. GoesOnAt(core[k] + 5, base + k + 1)
      BY <1>1, <3>3, GoesOnBehind
    <3>8. HoldsAddress(core[k] + At(core[k]).off, To(k), 0)
      BY <3>5, <3>6
    <3>9. GoesOnAt(core[k] + (1 + At(core[k] + 1).off), base + k + 1)
      BY <3>5, <3>7
    <3>10. QED
      BY <1>1, <3>5, <3>8, <3>9 DEF DoesAsBefore
  <2>4. QED
    BY <2>1, <2>2, <2>3
<1>5. QED
  BY <1>3, <1>4

LEMMA ConditionDoes ==
  ASSUME NEW beg, NEW core, Finished(beg, core), NEW k \in 0..(Count - 1),
         program[k + 1].kind \in {"cond", "test"}
  PROVE  DoesAsBefore(k)
<1>1. /\ core[k] \in Int /\ StartOf(k) = core[k] /\ To(k) \in Int
      /\ To(k) = base + k + program[k + 1].imm /\ k \in Int
  BY BlockOf, StartIsCore, Whole DEF To
<1>2. ASSUME At(core[k]).op = "cond", At(core[k]).of = k,
             GoesOnAt(core[k] + 1, base + k + 1),
             GoesOnAt(core[k] + At(core[k]).off, To(k))
      PROVE  DoesAsBefore(k)
  BY <1>1, <1>2 DEF DoesAsBefore
<1>3. ASSUME Says(k, At(core[k])), beg[k + 1] = core[k] + 1,
             GoesOnAt(core[k] + At(core[k]).off, To(k))
      PROVE  DoesAsBefore(k)
  <2>1. GoesOnAt(core[k] + 1, base + k + 1)
    BY <1>1, <1>3, GoesOnBehind
  <2>2. At(core[k]).op = "cond" /\ At(core[k]).of = k
    BY <1>3 DEF Says
  <2>3. QED
    BY <1>2, <1>3, <2>1, <2>2
<1>4. CASE Inner(k)
  BY <1>3, <1>4, NamesPlace, GoesOnAtNamed
<1>5. CASE ~Inner(k)
  <2>1. PICK ws \in Seq(Words) :
          /\ beg[k + 1] = core[k] + Len(ws)
          /\ \A i \in 0..(Len(ws) - 1) :
               At(core[k] + i) = ws[i + 1] /\ InTrampoline(core[k] + i)
          /\ Short(k, core[k], ws) \/ Long(k, ws)
    BY <1>5, StandsAlone
  <2>2. CASE Short(k, core[k], ws)
    <3>1. /\ Says(k, At(core[k])) /\ beg[k + 1] = core[k] + 1
          /\ core[k] + At(core[k]).off = To(k)
      BY <2>1, <2>2, OneWord
    <3>2. GoesOnAt(core[k] + At(core[k]).off, To(k))
      BY <1>5, <3>1, GoesOnAtNamed
    <3>3. QED
      BY <1>3, <3>1, <3>2
  <2>3. CASE Long(k, ws)
    <3>1. ws = LongCondition(k)
      BY <2>3 DEF Long
    <3>2. /\ Len(ws) = 6
          /\ ws[1] = Word("cond", k, 2) /\ ws[2] = Word("b", 0, 5)
          /\ ws[3] = Word("ldr_x17", 0, 2) /\ ws[4] = Word("br_x17", 0, 0)
          /\ ws[5].of = To(k)
      BY <1>1, <3>1, LongConditionWords
    <3>3. /\ At(core[k] + 0) = ws[0 + 1] /\ At(core[k] + 1) = ws[1 + 1]
          /\ At(core[k] + 2) = ws[2 + 1] /\ At(core[k] + 3) = ws[3 + 1]
          /\ At(core[k] + 4) = ws[4 + 1] /\ beg[k + 1] = core[k] + 6
      BY <2>1, <3>2
    <3>4. /\ At(core[k]) = ws[1] /\ At(core[k] + 1) = ws[2]
          /\ At(core[k] + 2) = ws[3] /\ At((core[k] + 2) + 1) = ws[4]
          /\ At((core[k] + 2) + 2) = ws[5]
      BY <1>1, <3>3
    <3>5. /\ At(core[k]).op = "cond" /\ At(core[k]).of = k /\ At(core[k]).off = 2
          /\ At(core[k] + 1).op = "b" /\ At(core[k] + 1).off = 5
      BY <3>2, <3>4 DEF Word
    <3>6. Hop(core[k] + 2) = To(k)
      BY <3>2, <3>4, HopFar
    <3>7. GoesOnAt(core[k] + 2, To(k))
      <4>1. Place(beg, core, To(k), To(k))
        BY <1>5, PlaceOutsideNamed
      <4>2. Reaches(core[k] + 2, To(k), 1)
        BY <1>1, <3>6, ReachesByHop
      <4>3. QED
        BY <1>1, <4>1, <4>2, GoesOn
    <3>8. GoesOnAt(core[k] + 1, base + k + 1)
      <4>1. Hop(core[k] + 1) = (core[k] + 1) + 5
        BY <3>5, HopBranch
      <4>2. Hop(core[k] + 1) = beg[k + 1] /\ core[k] + 1 \in Int
        BY <1>1, <3>3, <4>1
      <4>3. QED
        BY <4>2, GoesOnBehind
    <3>9. GoesOnAt(core[k] + At(core[k]).off, To(k))
      BY <3>5, <3>7
    <3>10. QED
      BY <1>2, <3>5, <3>8, <3>9
  <2>4. QED
    BY <2>1, <2>2, <2>3
<1>6. QED
  BY <1>4, <1>5

LEMMA LoadDoes ==
  ASSUME NEW beg, NEW core, Finished(beg, core), NEW k \in 0..(Count - 1),
         program[k + 1].kind = "ldr"
  PROVE  DoesAsBefore(k)
<1>1. /\ core[k] \in Int /\ StartOf(k) = core[k] /\ To(k) \in Int /\ ~Inner(k)
      /\ To(k) = base + k + program[k + 1].imm /\ k \in Int
      /\ program[k + 1].width \in Widths
  <2>1. Count \in 0..5
    BY Whole
  <2>2. /\ core[k] \in Int /\ To(k) \in Int /\ StartOf(k) = core[k]
        /\ program[k + 1] \in Insns
    BY BlockOf, StartIsCore
  <2>3. QED
    BY <2>1, <2>2 DEF To, Inner, Insns
<1>2. PICK n \in {1, 2, 4} : n = LoadedWords(program[k + 1].width)
  BY <1>1 DEF LoadedWords, CopiedWords, Widths
<1>3. ASSUME Says(k, At(core[k])), GoesOnAt(core[k] + 1, base + k + 1),
             Holds(core[k] + At(core[k]).off, To(k), n)
      PROVE  DoesAsBefore(k)
  <2>1. /\ At(core[k]).op = "ldr" /\ At(core[k]).of = k
        /\ At(core[k]).width = program[k + 1].width
    BY <1>3 DEF Says
  <2>2. QED
    BY <1>1, <1>2, <1>3, <2>1 DEF DoesAsBefore
<1>4. PICK ws \in Seq(Words) :
        /\ beg[k + 1] = core[k] + Len(ws)
        /\ \A i \in 0..(Len(ws) - 1) :
             At(core[k] + i) = ws[i + 1] /\ InTrampoline(core[k] + i)
        /\ Short(k, core[k], ws) \/ Long(k, ws)
  BY <1>1, StandsAlone
<1>5. CASE Short(k, core[k], ws)
  <2>1. /\ Says(k, At(core[k])) /\ beg[k + 1] = core[k] + 1
        /\ core[k] + At(core[k]).off = To(k)
    BY <1>4, <1>5, OneWord
  <2>2. GoesOnAt(core[k] + 1, base + k + 1)
    BY <1>1, <2>1, GoesOnBehind
  <2>3. Holds(To(k), To(k), n)
    <3>1. \A j \in 0..(n - 1) : To(k) + j \notin Pool
      BY <1>2, <1>5 DEF Short
    <3>2. \A j \in 0..(n - 1) : ~InTrampoline(To(k) + j)
      BY <3>1, Whole
    <3>3. QED
      BY <3>2 DEF Holds
  <2>4. QED
    BY <1>3, <2>1, <2>2, <2>3
<1>6. CASE Long(k, ws)
  <2>1. PICK w \in Words, l \in {1, 2, 4} :
          /\ Says(k, w) /\ w.off = 2 /\ l >= LoadedWords(program[k + 1].width)
          /\ ws = CopiedLoad(k, w, l)
    BY <1>6 DEF Long
  <2>2. /\ Len(ws) = 2 + l /\ ws[1] = w /\ ws[2] = Word("b", 0, 1 + l)
        /\ \A j \in 0..(l - 1) : ws[3 + j] = Word("memory", To(k) + j, 0)
    BY <1>1, <2>1, CopiedLoadWords
  <2>3. /\ At(core[k] + 0) = ws[0 + 1] /\ At(core[k] + 1) = ws[1 + 1]
        /\ beg[k + 1] = core[k] + (2 + l)
    BY <1>4, <2>2
  <2>4. At(core[k]) = w /\ At(core[k] + 1) = Word("b", 0, 1 + l)
    BY <1>1, <2>2, <2>3
  <2>5. GoesOnAt(core[k] + 1, base + k + 1)
    <3>1. At(core[k] + 1).op = "b" /\ At(core[k] + 1).off = 1 + l
      BY <2>4 DEF Word
    <3>2. Hop(core[k] + 1) = (core[k] + 1) + (1 + l)
      BY <3>1, HopBranch
    <3>3. Hop(core[k] + 1) = beg[k + 1] /\ core[k] + 1 \in Int
      BY <1>1, <2>3, <3>2
    <3>4. QED
      BY <3>3, GoesOnBehind
  <2>6. ASSUME NEW j \in 0..(n - 1)
        PROVE  /\ InTrampoline((core[k] + 2) + j)
               /\ At((core[k] + 2) + j) = Word("memory", To(k) + j, 0)
    <3>1. /\ j \in 0..(l - 1) /\ 2 + j \in 0..(Len(ws) - 1) /\ (2 + j) + 1 = 3 + j
          /\ core[k] + (2 + j) = (core[k] + 2) + j
      BY <1>1, <1>2, <2>1, <2>2
    <3>2. /\ At(core[k] + (2 + j)) = ws[(2 + j) + 1]
          /\ InTrampoline(core[k] + (2 + j))
      BY <1>4, <3>1
    <3>3. ws[3 + j] = Word("memory", To(k) + j, 0)
      BY <2>2, <3>1
    <3>4. QED
      BY <3>1, <3>2, <3>3
  <2>7. Holds(core[k] + 2, To(k), n)
    BY <2>6 DEF Holds
  <2>8. QED
    BY <1>3, <2>1, <2>4, <2>5, <2>7
<1>7. QED
  BY <1>4, <1>5, <1>6

\* A load of an address that is spelled out.
LEMMA LongLoadDoes ==
  ASSUME NEW beg, NEW core, Finished(beg, core), NEW k \in 0..(Count - 1),
         NEW a \in Int, NEW byte \in 0..3,
         beg[k + 1] = core[k] + Len(LongLoad(k, a, byte)),
         \A i \in 0..(Len(LongLoad(k, a, byte)) - 1) :
           At(core[k] + i) = LongLoad(k, a, byte)[i + 1]
  PROVE  /\ At(core[k]).op = "ldr_rd" /\ At(core[k]).of = k
         /\ HoldsAddress(core[k] + At(core[k]).off, a, byte)
         /\ GoesOnAt(core[k] + 1, base + k + 1)
<1>1. core[k] \in Int /\ k \in Int
  BY BlockOf, Whole
<1>2. PICK ws : ws = LongLoad(k, a, byte)
  OBVIOUS
<1>3. /\ Len(ws) = 4 /\ ws[1] = Word("ldr_rd", k, 2) /\ ws[2] = Word("b", 0, 3)
      /\ ws[3] = Address(a, byte)[1] /\ ws[4] = Address(a, byte)[2]
  BY <1>1, <1>2, LongLoadWords
<1>4. beg[k + 1] = core[k] + 4 /\ \A i \in 0..3 : At(core[k] + i) = ws[i + 1]
  BY <1>2, <1>3
<1>5. /\ At(core[k] + 0) = ws[0 + 1] /\ At(core[k] + 1) = ws[1 + 1]
      /\ At(core[k] + 2) = ws[2 + 1] /\ At(core[k] + 3) = ws[3 + 1]
  BY <1>4
<1>6. /\ At(core[k]) = ws[1] /\ At(core[k] + 1) = ws[2]
      /\ At(core[k] + 2) = ws[3] /\ At((core[k] + 2) + 1) = ws[4]
  BY <1>1, <1>5
<1>7. /\ At(core[k]).op = "ldr_rd" /\ At(core[k]).of = k /\ At(core[k]).off = 2
      /\ At(core[k] + 1).op = "b" /\ At(core[k] + 1).off = 3
  BY <1>3, <1>6 DEF Word
<1>8. HoldsAddress(core[k] + 2, a, byte)
  BY <1>1, <1>3, <1>6, AddressStands
<1>9. GoesOnAt(core[k] + 1, base + k + 1)
  <2>1. Hop(core[k] + 1) = (core[k] + 1) + 3
    BY <1>7, HopBranch
  <2>2. Hop(core[k] + 1) = beg[k + 1] /\ core[k] + 1 \in Int
    BY <1>1, <1>4, <2>1
  <2>3. QED
    BY <2>2, GoesOnBehind
<1>10. QED
  BY <1>7, <1>8, <1>9

LEMMA AdrDoes ==
  ASSUME NEW beg, NEW core, Finished(beg, core), NEW k \in 0..(Count - 1),
         program[k + 1].kind = "adr"
  PROVE  DoesAsBefore(k)
<1>1. /\ core[k] \in Int /\ StartOf(k) = core[k] /\ To(k) \in Int
      /\ To(k) = base + k + program[k + 1].imm /\ program[k + 1].byte \in 0..3
  BY BlockOf, StartIsCore DEF To, Insns
<1>2. ASSUME Says(k, At(core[k])), beg[k + 1] = core[k] + 1,
             IF is_in_fixing_range(To(k))
               THEN GoesOnAt(core[k] + At(core[k]).off, To(k))
               ELSE core[k] + At(core[k]).off = To(k)
      PROVE  DoesAsBefore(k)
  <2>1. GoesOnAt(core[k] + 1, base + k + 1)
    BY <1>1, <1>2, GoesOnBehind
  <2>2. /\ At(core[k]).op = "adr" /\ At(core[k]).of = k
        /\ At(core[k]).rd = program[k + 1].rd
        /\ At(core[k]).byte = program[k + 1].byte
    BY <1>2 DEF Says
  <2>3. QED
    BY <1>1, <1>2, <2>1, <2>2 DEF DoesAsBefore
<1>3. CASE Inner(k)
  <2>1. is_in_fixing_range(To(k))
    BY <1>3 DEF Inner
  <2>2. QED
    BY <1>2, <1>3, <2>1, NamesPlace, GoesOnAtNamed
<1>4. CASE ~Inner(k)
  <2>1. PICK ws \in Seq(Words) :
          /\ beg[k + 1] = core[k] + Len(ws)
          /\ \A i \in 0..(Len(ws) - 1) :
               At(core[k] + i) = ws[i + 1] /\ InTrampoline(core[k] + i)
          /\ Short(k, core[k], ws) \/ Long(k, ws)
    BY <1>4, StandsAlone
  <2>2. CASE Short(k, core[k], ws)
    <3>1. /\ Says(k, At(core[k])) /\ beg[k + 1] = core[k] + 1
          /\ core[k] + At(core[k]).off = To(k)
      BY <2>1, <2>2, OneWord
    <3>2. ~is_in_fixing_range(To(k))
      BY <1>4 DEF Inner
    <3>3. QED
      BY <1>2, <3>1, <3>2
  <2>3. CASE Long(k, ws)
    <3>1. PICK byte \in 0..3, a \in Int : byte = program[k + 1].byte /\ a = To(k)
      BY <1>1
    <3>2. ws = LongLoad(k, a, byte)
      BY <2>3, <3>1 DEF Long
    <3>3. /\ At(core[k]).op = "ldr_rd" /\ At(core[k]).of = k
          /\ HoldsAddress(core[k] + At(core[k]).off, a, byte)
          /\ GoesOnAt(core[k] + 1, base + k + 1)
      <4>1. /\ beg[k + 1] = core[k] + Len(LongLoad(k, a, byte))
            /\ \A i \in 0..(Len(LongLoad(k, a, byte)) - 1) :
                 At(core[k] + i) = LongLoad(k, a, byte)[i + 1]
        BY <2>1, <3>2
      <4>2. QED
        BY <4>1, LongLoadDoes
    <3>4. QED
      BY <1>1, <3>1, <3>3 DEF DoesAsBefore
  <2>4. QED
    BY <2>1, <2>2, <2>3
<1>5. QED
  BY <1>3, <1>4

LEMMA AdrpDoes ==
  ASSUME NEW beg, NEW core, Finished(beg, core), NEW k \in 0..(Count - 1),
         program[k + 1].kind = "adrp"
  PROVE  DoesAsBefore(k)
<1>1. StartOf(k) = core[k] /\ ~Inner(k) /\ program[k + 1].imm \in Int
  BY BlockOf, StartIsCore DEF Inner, Insns
<1>2. PICK a \in Int : a = PageStart(base + k) + 1024 * program[k + 1].imm
  <2>1. Count \in 0..5 /\ base \in Nat
    BY Whole
  <2>2. PageStart(base + k) + 1024 * program[k + 1].imm \in Int
    BY <1>1, <2>1 DEF PageStart
  <2>3. QED
    BY <2>2
<1>3. PICK ws \in Seq(Words) :
        /\ beg[k + 1] = core[k] + Len(ws)
        /\ \A i \in 0..(Len(ws) - 1) :
             At(core[k] + i) = ws[i + 1] /\ InTrampoline(core[k] + i)
        /\ Short(k, core[k], ws) \/ Long(k, ws)
  BY <1>1, StandsAlone
<1>4. ws = LongLoad(k, a, 0)
  BY <1>2, <1>3 DEF Short, Long
<1>5. /\ At(core[k]).op = "ldr_rd" /\ At(core[k]).of = k
      /\ HoldsAddress(core[k] + At(core[k]).off, a, 0)
      /\ GoesOnAt(core[k] + 1, base + k + 1)
  <2>1. /\ beg[k + 1] = core[k] + Len(LongLoad(k, a, 0))
        /\ \A i \in 0..(Len(LongLoad(k, a, 0)) - 1) :
             At(core[k] + i) = LongLoad(k, a, 0)[i + 1]
    BY <1>3, <1>4
  <2>2. 0 \in 0..3
    OBVIOUS
  <2>3. QED
    BY <2>1, <2>2, LongLoadDoes
<1>6. QED
  BY <1>1, <1>2, <1>5 DEF DoesAsBefore

\* A finished trampoline of a function the code can move works as the function
\* did.
THEOREM TrampolineWorks == Spec => []TrampolineIsFunction
<1>1. IInv /\ LaidOut => TrampolineIsFunction
  <2> SUFFICES ASSUME IInv, LaidOut, done, Supported
               PROVE  /\ GoesOnAt(out, base)
                      /\ \A k \in 0..(Count - 1) : DoesAsBefore(k)
    BY DEF TrampolineIsFunction
  <2>1. PICK beg, core : Laid(beg, core)
    BY DEF LaidOut
  <2>2. Finished(beg, core)
    BY <2>1 DEF Finished
  <2>3. /\ Count \in 0..5 /\ base \in Nat /\ out \in Nat /\ beg[0] = out
    BY <2>1, <2>2, Whole DEF Laid
  <2>4. GoesOnAt(out, base)
    <3>1. Place(beg, core, out, base)
      <4>1. CASE Count = 0
        BY <2>3, <4>1 DEF Place
      <4>2. CASE Count # 0
        <5>1. 0 \in 0..(Count - 1) /\ base = base + 0
          BY <2>3, <4>2
        <5>2. QED
          BY <2>3, <5>1 DEF Place
      <4>3. QED
        BY <4>1, <4>2
    <3>2. Reaches(out, out, 1)
      BY <2>3, ReachesItself
    <3>3. QED
      BY <2>2, <2>3, <3>1, <3>2, GoesOn
  <2>5. ASSUME NEW k \in 0..(Count - 1)
        PROVE  DoesAsBefore(k)
    <3>1. program[k + 1].kind \in Kinds
      BY <2>2, BlockOf DEF Insns
    <3>2. QED
      BY <2>2, <3>1, PlainDoes, BranchDoes, CallDoes, ConditionDoes, LoadDoes,
         AdrDoes, AdrpDoes DEF Kinds
  <2>6. QED
    BY <2>4, <2>5
<1>2. QED
  BY <1>1, LayoutInvariant, Invariant, PTL
=============================================================================
