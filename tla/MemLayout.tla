----------------------------- MODULE MemLayout -----------------------------
(***************************************************************************)
(* Finding the modules in the address space (lib/util/sys/mem_layout.cpp): *)
(* a walk over its ranges, with a state machine that takes three of them   *)
(* for a module: code, read-only data, data.                               *)
(*                                                                         *)
(* An address space is the sequence of its ranges, and an address the      *)
(* number of the range that starts there.                                  *)
(***************************************************************************)
EXTENDS Integers, Sequences, Diag

CONSTANTS
  Spaces,         \* the address spaces the mod may be loaded in
  s_MaxModules    \* how many modules s_ModuleInfos has room for

\* CodeStatic that is executable, CodeStatic that is readable, CodeMutable
\* that is writable, and all the rest.
Kinds == {"Rx", "R", "Rw", "other"}

Ranges(s) == 1..Len(s)

ModuleAt(s, i) ==
  i + 2 \in Ranges(s) /\ s[i] = "Rx" /\ s[i + 1] = "R" /\ s[i + 2] = "Rw"

Modules(s) == {i \in Ranges(s) : ModuleAt(s, i)}

\* Nothing is mapped at address zero, and this module is mapped.
ASSUME MemLayoutAssumption ==
  /\ s_MaxModules \in Nat
  /\ Spaces \subseteq Seq(Kinds)
  /\ \A s \in Spaces : Modules(s) # {} /\ s[1] = "other"

VARIABLES
  space, moduleStart,   \* the address space, and where this module is in it
  state,                \* what the walk looks for
  offset, prevOffset,   \* the range it looked at last, and the one before
  curModInfo,           \* what it has of the module it is in
  s_ModuleInfos,        \* the modules it found
  s_SelfModuleIdx       \* the number of this module, from zero, or -1

layoutVars == 
  <<space, moduleStart, state, offset, prevOffset, curModInfo, s_ModuleInfos, s_SelfModuleIdx>>

ModuleInfo == [m_Text : Nat, m_Rodata : Nat, m_Data : Nat]

None == [m_Text |-> 0, m_Rodata |-> 0, m_Data |-> 0]

s_ModuleCount == IF s_ModuleInfos = <<>> THEN -1 ELSE Len(s_ModuleInfos)

LayoutInit ==
  /\ space \in Spaces
  /\ moduleStart \in Modules(space)
  /\ state = "LookingForCodeStatic"
  /\ offset = 0 /\ prevOffset = 0
  /\ curModInfo = None
  /\ s_ModuleInfos = <<>>
  /\ s_SelfModuleIdx = -1

-----------------------------------------------------------------------------
(* The walk *)

\* The address behind the last range is zero.
Queried == IF offset = Len(space) THEN 1 ELSE offset + 1

\* mutant: what was collected of a module is not given up
ResetNot == UNCHANGED <<state, curModInfo>>

Reset ==
  /\ state' = "LookingForCodeStatic"
  /\ curModInfo' = None

LookingForCodeStatic ==
  /\ state = "LookingForCodeStatic"
  /\ IF space[Queried] = "Rx"
       THEN /\ curModInfo' = [curModInfo EXCEPT !.m_Text = Queried]
            /\ state' = "ExpectingRodata"
       ELSE UNCHANGED <<curModInfo, state>>
  /\ UNCHANGED <<s_ModuleInfos, s_SelfModuleIdx>>

ExpectingRodata ==
  /\ state = "ExpectingRodata"
  /\ IF space[Queried] = "R"
       THEN /\ curModInfo' = [curModInfo EXCEPT !.m_Rodata = Queried]
            /\ state' = "ExpectingData"
       ELSE Reset
  /\ UNCHANGED <<s_ModuleInfos, s_SelfModuleIdx>>

ExpectingData ==
  /\ state = "ExpectingData"
  /\ IF space[Queried] = "Rw"
       THEN /\ s_ModuleInfos' =
                 Append(s_ModuleInfos, [curModInfo EXCEPT !.m_Data = Queried])
            /\ s_SelfModuleIdx' = IF curModInfo.m_Text = moduleStart
                                    THEN Len(s_ModuleInfos) ELSE s_SelfModuleIdx
       ELSE UNCHANGED <<s_ModuleInfos, s_SelfModuleIdx>>
  /\ Reset

\* mutant: the check is made one module too late
TooManyLate == s_MaxModules < Len(s_ModuleInfos)

TooMany == s_MaxModules <= Len(s_ModuleInfos)

Query ==
  /\ ~TooMany
  /\ offset' = Queried /\ prevOffset' = offset
  /\ LookingForCodeStatic \/ ExpectingRodata \/ ExpectingData
  /\ UNCHANGED <<space, moduleStart>>

\* The walk has come back to the start.
Wrapped == offset < prevOffset

LayoutValid ==
  s_SelfModuleIdx \in 0..(s_MaxModules - 1) /\ s_ModuleCount \in 0..s_MaxModules

-----------------------------------------------------------------------------
(* Properties *)

LayoutTypeOK ==
  /\ space \in Spaces
  /\ moduleStart \in Modules(space)
  /\ state \in {"LookingForCodeStatic", "ExpectingRodata", "ExpectingData"}
  /\ offset \in 0..Len(space) /\ prevOffset \in 0..Len(space)
  /\ curModInfo \in ModuleInfo
  /\ s_ModuleInfos \in Seq(ModuleInfo) /\ Len(s_ModuleInfos) <= s_MaxModules
  /\ s_SelfModuleIdx \in -1..(Len(s_ModuleInfos) - 1)

\* The ranges before i are code and read-only data that lack their data, or
\* code that lacks both: the walk gives them up at i and looks on behind it.
BehindHalfModule(s, i) ==
  \/ i > 1 /\ s[i - 1] = "Rx"
  \/ i > 2 /\ s[i - 1] = "R" /\ s[i - 2] = "Rx"

\* Entry n is a module behind those before it, with its own ranges, and the
\* number of this module is that of its entry.
EntryRight(n) ==
  LET info == s_ModuleInfos[n]
  IN  /\ info.m_Text \in Modules(space)
      /\ info.m_Rodata = info.m_Text + 1 /\ info.m_Data = info.m_Text + 2
      /\ \A k \in 1..(n - 1) : s_ModuleInfos[k].m_Text < info.m_Text
      /\ s_SelfModuleIdx = n - 1 <=> info.m_Text = moduleStart

\* The module at i is still ahead, or found, or starts right behind half a
\* module.
NotMissed(i) ==
  \/ ~Wrapped /\ i + 2 > offset
  \/ BehindHalfModule(space, i)
  \/ \E n \in DOMAIN s_ModuleInfos : s_ModuleInfos[n].m_Text = i

\* Up to where the walk is, it has found modules only, in the order of their
\* addresses, each once and with its own ranges, and all of them but one that
\* starts right behind half a module; and this module has its own number.
ModulesFound ==
  /\ \A n \in DOMAIN s_ModuleInfos : EntryRight(n)
  /\ \A i \in Modules(space) : NotMissed(i)
=============================================================================
