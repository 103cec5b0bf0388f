----------------------------- MODULE BootProofs ----------------------------
(***************************************************************************)
(* Proofs about the boot: what the walk over the address space finds, for  *)
(* every address space, and what the two threads that exchange the handle  *)
(* of the process may rely on, in every interleaving; and what installing  *)
(* hooks keeps, for every list of functions and every size of the pool.    *)
(***************************************************************************)
EXTENDS Boot, TLAPS

-----------------------------------------------------------------------------
(* Installing hooks *)

\* Trampolines are handed out in order, one a hook, and the caches have what
\* was written.
HooksOK ==
  /\ HooksTypeOK
  /\ CallsPassHooks
  /\ index = installed - 1
  /\ fetched = written
  /\ \A k \in 1..installed : OrigRef[k] = k - 1

LEMMA HooksStart ==
  HooksInit => HooksOK
PROOF
  <1> SUFFICES ASSUME HooksInit PROVE HooksOK
    OBVIOUS
  <1>1. HookMax \in Nat /\ hooks \in Seq(Functions) /\ Len(hooks) \in Nat
    BY HookingAssumption DEF HooksInit
  <1>2. HooksTypeOK
    BY <1>1 DEF HooksInit, HooksTypeOK, Slots, Null
  <1>3. CallsPassHooks
    BY <1>1 DEF HooksInit, CallsPassHooks, OriginalRight, LastHook
  <1> QED  BY <1>1, <1>2, <1>3 DEF HooksInit, HooksOK

LEMMA HooksUnchanged ==
  ASSUME HooksOK, UNCHANGED hookVars
  PROVE  HooksOK'
PROOF
  BY DEF HooksOK, hookVars, HooksTypeOK, CallsPassHooks, OriginalRight, LastHook

LEMMA JitKeeps ==
  ASSUME HooksOK, jitCreate
  PROVE  HooksOK'
PROOF
  BY DEF HooksOK, jitCreate, HooksTypeOK, CallsPassHooks, OriginalRight, LastHook

\* A trampoline that is handed out is inside of the memory that is mapped.
LEMMA SlotIsMapped ==
  ASSUME NEW i \in Slots
  PROVE  (i + 1) * TrampolineBytes <= HookPoolSize
PROOF
  <1>1. HookMax \in Nat /\ (HookMax + 1) * 200 <= HookPoolSize /\ HookPoolSize \in Int
    BY HookingAssumption DEF TrampolineBytes, HookPoolSize, ALIGN_UP, PAGE_SIZE
  <1>2. i \in 0..HookMax /\ (i + 1) * 200 <= (HookMax + 1) * 200
    BY <1>1 DEF Slots
  <1> QED  BY <1>1, <1>2 DEF TrampolineBytes

\* The hook that is installed is the last of its function, and of another
\* function the last stays the last.
LEMMA LastHookMoves ==
  ASSUME NEW n \in Nat, n + 1 \in DOMAIN hooks, hooks \in Seq(Functions), UNCHANGED hooks,
         NEW f \in Functions, NEW j \in Nat, LastHook(j, f, n)
  PROVE  /\ hooks[n + 1] = f => LastHook(n + 1, f, n + 1)
         /\ hooks[n + 1] # f => LastHook(j, f, n + 1)
PROOF
  <1>1. \A i \in 1..(n + 1) : i \in 1..n \/ i = n + 1
    OBVIOUS
  <1> QED  BY <1>1 DEF LastHook

LEMMA InstallKeeps ==
  ASSUME HooksOK, InstallHook
  PROVE  HooksOK'
PROOF
  <1> DEFINE f == hooks[NextHook]
  <1>1. /\ hooks \in HookLists /\ hooks \in Seq(Functions) /\ Len(hooks) \in Nat
        /\ DOMAIN hooks = 1..Len(hooks) /\ HookMax \in Nat
    BY HookingAssumption DEF HooksOK, HooksTypeOK
  <1>2. installed \in Nat /\ index \in Int /\ index = installed - 1 /\ installed < Len(hooks)
    BY <1>1 DEF HooksOK, HooksTypeOK, InstallHook
  <1>3. AllocForTrampoline = installed /\ installed \in Slots /\ NextHook = installed + 1
    BY <1>1, <1>2 DEF InstallHook, TrampolineAllocFails, AllocForTrampoline, Slots, NextHook
  <1>4. NextHook \in DOMAIN hooks /\ f \in Functions
    BY <1>1, <1>2, <1>3
  <1>5. /\ hooks' = hooks /\ installed' = installed + 1 /\ index' = installed
        /\ s_HookJit' = "executable"
        /\ written' = [written EXCEPT ![installed] = Moved(f)] /\ fetched' = written'
        /\ entry' = [entry EXCEPT ![f] = installed + 1]
        /\ OrigRef' = [OrigRef EXCEPT ![installed + 1] = installed]
    BY <1>3 DEF InstallHook, jitTransitionToExecutable
  <1> HIDE DEF f
  <1>6. /\ written \in [Slots -> Code \cup {Zeroed}] /\ fetched = written
        /\ entry \in [Functions -> Nat]
        /\ OrigRef \in [DOMAIN hooks -> Slots \cup {Null}]
    BY DEF HooksOK, HooksTypeOK
  <1>7. entry[f] \in Nat
    BY <1>4, <1>6
  <1>8. Moved(f) \in Code /\ Moved(f).of = f /\ Moved(f).to = entry[f]
    BY <1>4, <1>7 DEF Moved, Code
  <1>9. HooksTypeOK'
    <2>1. written' \in [Slots -> Code \cup {Zeroed}]
      BY <1>3, <1>5, <1>6, <1>8
    <2>2. entry' \in [Functions -> Nat]
      <3>1. installed + 1 \in Nat
        BY <1>2
      <3> QED  BY <1>4, <1>5, <1>6, <3>1
    <2>3. OrigRef' \in [DOMAIN hooks -> Slots \cup {Null}]
      BY <1>3, <1>5, <1>6
    <2>4. installed' \in 0..Len(hooks) /\ index' \in -1..HookMax
      BY <1>1, <1>2, <1>3, <1>5 DEF Slots
    <2> QED  BY <1>1, <1>5, <2>1, <2>2, <2>3, <2>4 DEF HooksTypeOK
  <1>10. ASSUME NEW g \in Functions
         PROVE  LastHook(entry[g], g, installed)' 
    <2>1. entry[g] \in Nat /\ LastHook(entry[g], g, installed)
      BY <1>6 DEF HooksOK, CallsPassHooks
    <2>2. /\ hooks[installed + 1] = g => LastHook(installed + 1, g, installed + 1)
          /\ hooks[installed + 1] # g => LastHook(entry[g], g, installed + 1)
      BY <1>1, <1>2, <1>3, <1>4, <1>5, <2>1, LastHookMoves
    <2>3. entry'[g] = IF g = f THEN installed + 1 ELSE entry[g]
      BY <1>5, <1>6
    <2>4. f = hooks[installed + 1]
      BY <1>3 DEF f
    <2> QED  BY <1>5, <2>2, <2>3, <2>4 DEF LastHook
  <1>11. ASSUME NEW k \in 1..installed'
         PROVE  /\ OrigRef'[k] = k - 1 /\ k - 1 \in Slots
                /\ fetched'[k - 1].of = hooks[k]
                /\ LastHook(fetched'[k - 1].to, hooks[k], k - 1)
    <2>1. CASE k = installed + 1
      <3>1. OrigRef'[k] = installed /\ k - 1 = installed
        BY <1>2, <1>3, <1>4, <1>5, <1>6, <2>1
      <3>2. fetched'[installed] = Moved(f)
        BY <1>3, <1>5, <1>6
      <3>3. LastHook(entry[f], f, installed)
        BY <1>4 DEF HooksOK, CallsPassHooks
      <3>4. f = hooks[k]
        BY <1>3, <2>1 DEF f
      <3> QED  BY <1>3, <1>8, <2>1, <3>1, <3>2, <3>3, <3>4
    <2>2. CASE k # installed + 1
      <3>1. k \in 1..installed /\ k - 1 # installed
        BY <1>2, <1>5, <2>2
      <3>2. /\ OrigRef[k] = k - 1 /\ k - 1 \in Slots
            /\ fetched[k - 1].of = hooks[k]
            /\ LastHook(fetched[k - 1].to, hooks[k], k - 1)
        <4>1. OrigRef[k] = k - 1
          BY <3>1 DEF HooksOK
        <4> QED  BY <3>1, <4>1 DEF HooksOK, CallsPassHooks, OriginalRight
      <3>3. OrigRef'[k] = OrigRef[k] /\ fetched'[k - 1] = fetched[k - 1]
        BY <1>3, <1>4, <1>5, <1>6, <2>2, <3>1, <3>2
      <3> QED  BY <3>2, <3>3
    <2> QED  BY <2>1, <2>2
  <1>12. CallsPassHooks'
    <2>1. ASSUME NEW k \in 1..installed'
          PROVE  OriginalRight(k)'
      <3>1. OrigRef'[k] = k - 1 /\ k - 1 \in Slots
        BY <1>11
      <3>2. k \in Int /\ (k - 1 + 1) * TrampolineBytes <= HookPoolSize
        BY <1>2, <1>5, <3>1, SlotIsMapped
      <3>3. fetched'[k - 1].of = hooks'[k]
        BY <1>5, <1>11
      <3>4. LastHook(fetched'[k - 1].to, hooks[k], k - 1)
        BY <1>11
      <3>5. LastHook(fetched[k - 1].to, hooks[k], k - 1)'
        BY <1>5, <3>4 DEF LastHook
      <3> QED  BY <3>1, <3>2, <3>3, <3>5 DEF OriginalRight
    <2> QED  BY <1>10, <2>1 DEF CallsPassHooks
  <1> QED  BY <1>2, <1>5, <1>9, <1>11, <1>12 DEF HooksOK

-----------------------------------------------------------------------------
(* The walk over the address space *)

\* What the walk has of the module it is in.
HalfFound ==
  /\ state = "ExpectingRodata" =>
       /\ offset > 0 /\ space[offset] = "Rx"
       /\ curModInfo.m_Text = offset
  /\ state = "ExpectingData" =>
       /\ offset > 1 /\ space[offset - 1] = "Rx" /\ space[offset] = "R"
       /\ curModInfo.m_Text = offset - 1 /\ curModInfo.m_Rodata = offset

\* Of a module that starts in the last two ranges, the walk has what it could.
Started ==
  \A i \in Modules(space) :
    /\ i = offset => state = "ExpectingRodata" \/ BehindHalfModule(space, i)
    /\ i = offset - 1 => state = "ExpectingData" \/ BehindHalfModule(space, i)

\* Modules that were found lie behind the walk.
FoundBehind ==
  \A n \in DOMAIN s_ModuleInfos : s_ModuleInfos[n].m_Text + 2 <= offset

LayoutOK ==
  /\ LayoutTypeOK /\ ModulesFound
  /\ ~Wrapped => HalfFound /\ Started /\ FoundBehind

\* A module is inside its address space, behind the first range.
LEMMA ModuleRanges ==
  ASSUME NEW s \in Spaces, NEW i \in Modules(s)
  PROVE  /\ i \in Nat /\ 1 < i /\ i + 2 \in 1..Len(s) /\ Len(s) \in Nat
         /\ s[i] = "Rx" /\ s[i + 1] = "R" /\ s[i + 2] = "Rw"
PROOF
  <1>1. s \in Seq(Kinds) /\ s[1] = "other"
    BY MemLayoutAssumption
  <1>2. i \in 1..Len(s) /\ i + 2 \in 1..Len(s) /\ s[i] = "Rx" /\ s[i + 1] = "R" /\ s[i + 2] = "Rw"
    BY DEF Modules, ModuleAt, Ranges
  <1> QED  BY <1>1, <1>2

\* The address space has room for a module behind its first range.
LEMMA SpaceLength ==
  ASSUME LayoutTypeOK
  PROVE  /\ space \in Spaces /\ space \in Seq(Kinds) /\ space[1] = "other"
         /\ Len(space) \in Nat /\ Len(space) > 3
         /\ moduleStart \in Modules(space)
PROOF
  <1>1. space \in Spaces /\ moduleStart \in Modules(space)
    BY DEF LayoutTypeOK
  <1>2. moduleStart \in Nat /\ 1 < moduleStart /\ moduleStart + 2 <= Len(space) /\ Len(space) \in Nat
    BY <1>1, ModuleRanges
  <1> QED  BY <1>1, <1>2, MemLayoutAssumption

\* The entries of the table of modules.
LEMMA InfoTypes ==
  ASSUME LayoutTypeOK, NEW n \in DOMAIN s_ModuleInfos
  PROVE  /\ s_ModuleInfos[n] \in ModuleInfo
         /\ s_ModuleInfos[n].m_Text \in Nat
PROOF
  <1>1. s_ModuleInfos[n] \in ModuleInfo
    BY DEF LayoutTypeOK
  <1> QED  BY <1>1 DEF ModuleInfo

\* The next range the walk looks at: the one behind, or again the first.
LEMMA QueriedRange ==
  ASSUME LayoutTypeOK
  PROVE  /\ Queried \in 1..Len(space)
         /\ offset = Len(space) => Queried = 1
         /\ offset # Len(space) => Queried = offset + 1
PROOF
  <1>1. offset \in 0..Len(space) /\ Len(space) \in Nat /\ Len(space) > 3
    BY SpaceLength DEF LayoutTypeOK
  <1> QED  BY <1>1 DEF Queried

\* The walk keeps the types; what it records is what it has of the module,
\* with the range it is at.
LEMMA QueryTypes ==
  ASSUME LayoutTypeOK, Query
  PROVE  LayoutTypeOK'
PROOF
  <1>1. Queried \in 1..Len(space) /\ Len(space) \in Nat
    BY QueriedRange, SpaceLength
  <1>2. /\ offset' \in 0..Len(space') /\ prevOffset' \in 0..Len(space')
        /\ space' \in Spaces /\ moduleStart' \in Modules(space')
    BY <1>1 DEF Query, LayoutTypeOK
  <1>3. Len(s_ModuleInfos) < s_MaxModules /\ Len(s_ModuleInfos) \in Nat
    BY MemLayoutAssumption DEF Query, TooMany, LayoutTypeOK
  <1>a. PICK q \in Nat : q = Queried
    BY <1>1
  <1>b. curModInfo \in ModuleInfo /\ None \in ModuleInfo
    BY DEF LayoutTypeOK, None, ModuleInfo
  <1>c. /\ [curModInfo EXCEPT !.m_Text = q] \in ModuleInfo
        /\ [curModInfo EXCEPT !.m_Rodata = q] \in ModuleInfo
        /\ [curModInfo EXCEPT !.m_Data = q] \in ModuleInfo
    BY <1>b DEF ModuleInfo
  <1>d. /\ curModInfo' \in ModuleInfo
        /\ state' \in {"LookingForCodeStatic", "ExpectingRodata", "ExpectingData"}
    BY <1>a, <1>b, <1>c DEF Query, LookingForCodeStatic, ExpectingRodata, ExpectingData, Reset
  <1>4. CASE LookingForCodeStatic \/ ExpectingRodata
    <2>1. UNCHANGED <<s_ModuleInfos, s_SelfModuleIdx>>
      BY <1>4 DEF LookingForCodeStatic, ExpectingRodata
    <2> QED  BY <1>2, <1>d, <2>1 DEF LayoutTypeOK
  <1>6. CASE ExpectingData
    <2>1. state' = "LookingForCodeStatic" /\ curModInfo' \in ModuleInfo
      BY <1>6, <1>d DEF ExpectingData, Reset
    <2>2. CASE space[Queried] = "Rw"
      <3>1. [curModInfo EXCEPT !.m_Data = Queried] \in ModuleInfo
        BY <1>a, <1>c
      <3>2. s_ModuleInfos' = Append(s_ModuleInfos, [curModInfo EXCEPT !.m_Data = Queried])
        BY <1>6, <2>2 DEF ExpectingData
      <3>3. s_ModuleInfos' \in Seq(ModuleInfo) /\ Len(s_ModuleInfos') = Len(s_ModuleInfos) + 1
        BY <3>1, <3>2 DEF LayoutTypeOK
      <3>4. s_SelfModuleIdx' \in {Len(s_ModuleInfos), s_SelfModuleIdx}
        BY <1>6, <2>2 DEF ExpectingData
      <3>5. s_SelfModuleIdx' \in -1..(Len(s_ModuleInfos') - 1)
        BY <3>3, <3>4, <1>3 DEF LayoutTypeOK
      <3>6. Len(s_ModuleInfos') <= s_MaxModules
        BY <3>3, <1>3, MemLayoutAssumption
      <3> QED  BY <1>2, <2>1, <3>3, <3>5, <3>6 DEF LayoutTypeOK
    <2>3. CASE space[Queried] # "Rw"
      BY <1>2, <1>6, <2>1, <2>3 DEF ExpectingData, LayoutTypeOK
    <2> QED  BY <2>2, <2>3
  <1> QED  BY <1>4, <1>6 DEF Query

\* At the end of the address space nothing is left to find: the query of its
\* first range gives up what the walk has.
LEMMA WrapKeeps ==
  ASSUME LayoutOK, ~Wrapped, Query, offset = Len(space)
  PROVE  LayoutOK'
PROOF
  <1>1. LayoutTypeOK'
    BY QueryTypes DEF LayoutOK
  <1>2. Queried = 1 /\ space[1] = "other" /\ Len(space) \in Nat /\ Len(space) > 3
    BY QueriedRange, SpaceLength DEF LayoutOK
  <1>3. /\ s_ModuleInfos' = s_ModuleInfos /\ s_SelfModuleIdx' = s_SelfModuleIdx
        /\ space' = space /\ moduleStart' = moduleStart
    BY <1>2 DEF Query, LookingForCodeStatic, ExpectingRodata, ExpectingData
  <1>4. Wrapped'
    BY <1>2 DEF Query, Wrapped
  <1>5. ModulesFound'
    <2>1. ASSUME NEW i \in Modules(space)
          PROVE  \/ BehindHalfModule(space, i)
                 \/ \E n \in DOMAIN s_ModuleInfos : s_ModuleInfos[n].m_Text = i
      <3>1. i + 2 <= offset /\ i \in Nat /\ offset \in Nat
        BY <1>2, ModuleRanges DEF LayoutOK, LayoutTypeOK
      <3>2. ~(i + 2 > offset)
        BY <3>1
      <3> QED  BY <3>2 DEF LayoutOK, ModulesFound, NotMissed
    <2> QED  BY <2>1, <1>3 DEF LayoutOK, ModulesFound, EntryRight, NotMissed, BehindHalfModule
  <1> QED  BY <1>1, <1>4, <1>5 DEF LayoutOK

\* The next range of the walk, without the wrap: what is known there of the
\* state machine after the step.
LEMMA StepStarts ==
  ASSUME LayoutOK, ~Wrapped, Query, offset # Len(space)
  PROVE  (HalfFound /\ Started)'
PROOF
  <1>1. /\ Queried = offset + 1 /\ offset \in Nat /\ offset' = offset + 1
        /\ space' = space /\ Queried \in Nat
    BY QueriedRange, SpaceLength DEF LayoutOK, LayoutTypeOK, Query
  <1>2. curModInfo \in ModuleInfo
    BY DEF LayoutOK, LayoutTypeOK
  <1>3. HalfFound /\ Started
    BY DEF LayoutOK
  <1>4. HalfFound'
    <2>1. CASE LookingForCodeStatic
      BY <1>1, <1>2, <2>1 DEF LookingForCodeStatic, HalfFound, ModuleInfo
    <2>2. CASE ExpectingRodata
      BY <1>1, <1>2, <1>3, <2>2 DEF ExpectingRodata, Reset, HalfFound, ModuleInfo
    <2>3. CASE ExpectingData
      BY <2>3 DEF ExpectingData, Reset, HalfFound
    <2> QED  BY <2>1, <2>2, <2>3 DEF Query
  <1>5. ASSUME NEW i \in Modules(space), i = offset + 1
        PROVE  state' = "ExpectingRodata" \/ BehindHalfModule(space, i)
    <2>1. space[Queried] = "Rx" /\ i \in Nat /\ 1 < i
      BY <1>1, <1>5, ModuleRanges DEF LayoutOK, LayoutTypeOK
    <2>2. CASE LookingForCodeStatic
      BY <2>1, <2>2 DEF LookingForCodeStatic
    <2>3. CASE ExpectingRodata \/ ExpectingData
      BY <1>1, <1>3, <1>5, <2>1, <2>3
      DEF ExpectingRodata, ExpectingData, HalfFound, BehindHalfModule
    <2> QED  BY <2>2, <2>3 DEF Query
  <1>6. ASSUME NEW i \in Modules(space), i = offset
        PROVE  state' = "ExpectingData" \/ BehindHalfModule(space, i)
    <2>1. space[Queried] = "R" /\ i \in Nat
      BY <1>1, <1>6, ModuleRanges DEF LayoutOK, LayoutTypeOK
    <2>2. state = "ExpectingRodata" \/ BehindHalfModule(space, i)
      BY <1>3, <1>6 DEF Started
    <2> QED  BY <2>1, <2>2
             DEF Query, ExpectingRodata, LookingForCodeStatic, ExpectingData
  <1>7. Started'
    BY <1>1, <1>5, <1>6 DEF Started
  <1> QED  BY <1>4, <1>7

\* A step that records no module passes none.
LEMMA StepPasses ==
  ASSUME LayoutOK, ~Wrapped, Query, offset # Len(space),
         ~(ExpectingData /\ space[Queried] = "Rw")
  PROVE  (ModulesFound /\ FoundBehind)'
PROOF
  <1>1. /\ Queried = offset + 1 /\ offset \in Nat /\ offset' = offset + 1
        /\ space' = space /\ moduleStart' = moduleStart
    BY QueriedRange, SpaceLength DEF LayoutOK, LayoutTypeOK, Query
  <1>2. s_ModuleInfos' = s_ModuleInfos /\ s_SelfModuleIdx' = s_SelfModuleIdx
    BY DEF Query, LookingForCodeStatic, ExpectingRodata, ExpectingData
  <1>3. ModulesFound /\ Started /\ FoundBehind /\ space \in Spaces /\ s_ModuleInfos \in Seq(ModuleInfo)
    BY DEF LayoutOK, LayoutTypeOK
  <1>4. ASSUME NEW i \in Modules(space)
        PROVE  \/ i + 2 > offset + 1
               \/ BehindHalfModule(space, i)
               \/ \E n \in DOMAIN s_ModuleInfos : s_ModuleInfos[n].m_Text = i
    <2>1. i \in Nat /\ space[i + 2] = "Rw"
      BY <1>3, ModuleRanges
    <2>2. CASE i + 2 = offset + 1
      <3>1. space[Queried] = "Rw" /\ i = offset - 1
        BY <1>1, <2>1, <2>2
      <3>2. state # "ExpectingData"
        BY <3>1 DEF Query, LookingForCodeStatic, ExpectingRodata
      <3> QED  BY <1>3, <3>1, <3>2 DEF Started
    <2>3. CASE i + 2 <= offset
      <3>1. ~(i + 2 > offset)
        BY <1>1, <2>1, <2>3
      <3> QED  BY <1>3, <3>1 DEF ModulesFound, NotMissed
    <2> QED  BY <1>1, <2>1, <2>2, <2>3
  <1>5. ModulesFound'
    <2>1. ASSUME NEW n \in DOMAIN s_ModuleInfos
          PROVE  EntryRight(n)'
      BY <1>1, <1>2, <1>3 DEF ModulesFound, EntryRight
    <2>2. ASSUME NEW i \in Modules(space)
          PROVE  NotMissed(i)'
      <3>1. BehindHalfModule(space, i)' = BehindHalfModule(space, i)
        BY <1>1 DEF BehindHalfModule
      <3>2. ~Wrapped'
        BY <1>1 DEF Query, Wrapped
      <3> QED  BY <1>1, <1>2, <1>4, <3>1, <3>2 DEF NotMissed
    <2> QED  BY <1>1, <1>2, <2>1, <2>2 DEF ModulesFound
  <1>6. FoundBehind'
    <2>1. \A n \in DOMAIN s_ModuleInfos : s_ModuleInfos[n].m_Text \in Nat
      BY InfoTypes DEF LayoutOK
    <2> QED  BY <1>1, <1>2, <1>3, <2>1 DEF FoundBehind
  <1> QED  BY <1>5, <1>6

\* A step that records a module records the one whose last range it is at.
LEMMA StepFinds ==
  ASSUME LayoutOK, ~Wrapped, Query, offset # Len(space),
         ExpectingData, space[Queried] = "Rw"
  PROVE  (ModulesFound /\ FoundBehind)'
PROOF
  <1>1. /\ Queried = offset + 1 /\ offset \in Nat /\ offset' = offset + 1
        /\ space' = space /\ moduleStart' = moduleStart
        /\ Queried \in 1..Len(space) /\ Len(space) \in Nat
    BY QueriedRange, SpaceLength DEF LayoutOK, LayoutTypeOK, Query
  <1>2. /\ ModulesFound /\ HalfFound /\ FoundBehind /\ space \in Spaces
        /\ s_ModuleInfos \in Seq(ModuleInfo) /\ curModInfo \in ModuleInfo
        /\ s_SelfModuleIdx \in -1..(Len(s_ModuleInfos) - 1)
    BY DEF LayoutOK, LayoutTypeOK
  <1>3. PICK info \in ModuleInfo : info = [curModInfo EXCEPT !.m_Data = Queried]
    <2>1. PICK q \in Nat : q = Queried
      BY <1>1
    <2>2. [curModInfo EXCEPT !.m_Data = q] \in ModuleInfo
      BY <1>2 DEF ModuleInfo
    <2> QED  BY <2>1, <2>2
  <1>4. /\ offset > 1 /\ space[offset - 1] = "Rx" /\ space[offset] = "R"
        /\ curModInfo.m_Text = offset - 1 /\ curModInfo.m_Rodata = offset
    BY <1>2 DEF ExpectingData, HalfFound
  <1>5. info.m_Text = offset - 1 /\ info.m_Rodata = offset /\ info.m_Data = offset + 1
    BY <1>1, <1>2, <1>3, <1>4 DEF ModuleInfo
  <1>6. /\ s_ModuleInfos' = Append(s_ModuleInfos, info)
        /\ s_SelfModuleIdx' = IF offset - 1 = moduleStart THEN Len(s_ModuleInfos) ELSE s_SelfModuleIdx
    BY <1>3, <1>4 DEF ExpectingData
  <1>7. PICK N \in Nat : N = Len(s_ModuleInfos)
    BY <1>2
  <1>8. /\ DOMAIN s_ModuleInfos = 1..N /\ DOMAIN s_ModuleInfos' = 1..(N + 1)
        /\ \A n \in 1..N : s_ModuleInfos'[n] = s_ModuleInfos[n]
        /\ s_ModuleInfos'[N + 1] = info
    BY <1>2, <1>6, <1>7
  <1>9. /\ space[offset - 1 + 1] = "R" /\ space[offset - 1 + 2] = "Rw"
        /\ offset - 1 + 2 \in 1..Len(space) /\ offset - 1 \in 1..Len(space)
    <2>1. offset - 1 + 1 = offset /\ offset - 1 + 2 = Queried
      BY <1>1
    <2> QED  BY <1>1, <1>4, <2>1
  <1>10. offset - 1 \in Modules(space)
    BY <1>4, <1>9 DEF Modules, ModuleAt, Ranges
  <1>11. ASSUME NEW n \in 1..N
         PROVE  s_ModuleInfos[n].m_Text < offset - 1 /\ s_ModuleInfos[n].m_Text \in Nat
    <2>1. s_ModuleInfos[n].m_Text \in Nat /\ s_ModuleInfos[n].m_Text + 2 <= offset
      BY <1>2, <1>8, InfoTypes DEF FoundBehind, LayoutOK
    <2> QED  BY <1>1, <2>1
  <1>12. ModulesFound'
    <2>1. ASSUME NEW n \in 1..N
          PROVE  /\ s_ModuleInfos[n].m_Text \in Modules(space)
                 /\ s_ModuleInfos[n].m_Rodata = s_ModuleInfos[n].m_Text + 1
                 /\ s_ModuleInfos[n].m_Data = s_ModuleInfos[n].m_Text + 2
                 /\ \A k \in 1..(n - 1) : s_ModuleInfos[k].m_Text < s_ModuleInfos[n].m_Text
                 /\ s_SelfModuleIdx' = n - 1 <=> s_ModuleInfos[n].m_Text = moduleStart
      <3>1. /\ s_ModuleInfos[n].m_Text \in Modules(space)
            /\ s_ModuleInfos[n].m_Rodata = s_ModuleInfos[n].m_Text + 1
            /\ s_ModuleInfos[n].m_Data = s_ModuleInfos[n].m_Text + 2
            /\ \A k \in 1..(n - 1) : s_ModuleInfos[k].m_Text < s_ModuleInfos[n].m_Text
            /\ s_SelfModuleIdx = n - 1 <=> s_ModuleInfos[n].m_Text = moduleStart
        BY <1>2, <1>8 DEF ModulesFound, EntryRight
      <3>2. s_SelfModuleIdx' = n - 1 <=> s_ModuleInfos[n].m_Text = moduleStart
        BY <1>1, <1>6, <1>7, <1>11, <3>1
      <3> QED  BY <3>1, <3>2
    <2>2. s_SelfModuleIdx' = N + 1 - 1 <=> info.m_Text = moduleStart
      BY <1>2, <1>5, <1>6, <1>7
    <2>3. ASSUME NEW n \in 1..(N + 1)
          PROVE  /\ s_ModuleInfos'[n].m_Text \in Modules(space)
                 /\ s_ModuleInfos'[n].m_Rodata = s_ModuleInfos'[n].m_Text + 1
                 /\ s_ModuleInfos'[n].m_Data = s_ModuleInfos'[n].m_Text + 2
                 /\ \A k \in 1..(n - 1) : s_ModuleInfos'[k].m_Text < s_ModuleInfos'[n].m_Text
                 /\ s_SelfModuleIdx' = n - 1 <=> s_ModuleInfos'[n].m_Text = moduleStart
      <3>1. CASE n \in 1..N
        <4>1. \A k \in 1..(n - 1) : k \in 1..N
          BY <1>7, <3>1
        <4> QED  BY <1>8, <2>1, <3>1, <4>1
      <3>2. CASE n = N + 1
        <4>1. \A k \in 1..(n - 1) : k \in 1..N
          BY <1>7, <3>2
        <4>2. /\ s_ModuleInfos'[n].m_Rodata = s_ModuleInfos'[n].m_Text + 1
              /\ s_ModuleInfos'[n].m_Data = s_ModuleInfos'[n].m_Text + 2
              /\ s_ModuleInfos'[n].m_Text \in Modules(space)
          BY <1>1, <1>5, <1>8, <1>10, <3>2
        <4> QED  BY <1>5, <1>8, <1>11, <2>2, <3>2, <4>1, <4>2
      <3> QED  BY <1>7, <3>1, <3>2
    <2>4. ASSUME NEW i \in Modules(space)
          PROVE  \/ i + 2 > offset + 1
                 \/ BehindHalfModule(space, i)
                 \/ \E n \in 1..(N + 1) : s_ModuleInfos'[n].m_Text = i
      <3>1. i \in Nat
        BY <1>2, ModuleRanges
      <3>2. CASE i + 2 = offset + 1
        <4>1. s_ModuleInfos'[N + 1].m_Text = i
          BY <1>1, <1>5, <1>8, <3>1, <3>2
        <4> QED  BY <1>7, <4>1
      <3>3. CASE i + 2 <= offset
        <4>1. ~(i + 2 > offset)
          BY <1>1, <3>1, <3>3
        <4>2. \/ BehindHalfModule(space, i)
              \/ \E n \in 1..N : s_ModuleInfos[n].m_Text = i
          BY <1>2, <1>8, <4>1 DEF ModulesFound, NotMissed
        <4>3. \A n \in 1..N : n \in 1..(N + 1)
          BY <1>7
        <4> QED  BY <1>8, <4>2, <4>3
      <3> QED  BY <1>1, <3>1, <3>2, <3>3
    <2>5. ASSUME NEW n \in 1..(N + 1)
          PROVE  EntryRight(n)'
      BY <1>1, <2>3 DEF EntryRight
    <2>6. ASSUME NEW i \in Modules(space)
          PROVE  NotMissed(i)'
      <3>1. BehindHalfModule(space, i)' = BehindHalfModule(space, i)
        BY <1>1 DEF BehindHalfModule
      <3>2. ~Wrapped'
        BY <1>1 DEF Query, Wrapped
      <3> QED  BY <1>1, <1>8, <2>4, <3>1, <3>2 DEF NotMissed
    <2> QED  BY <1>1, <1>8, <2>5, <2>6 DEF ModulesFound
  <1>13. FoundBehind'
    <2>1. ASSUME NEW n \in 1..(N + 1)
          PROVE  s_ModuleInfos'[n].m_Text + 2 <= offset + 1
      <3>1. CASE n \in 1..N
        <4>1. s_ModuleInfos'[n].m_Text = s_ModuleInfos[n].m_Text
          BY <1>8, <3>1
        <4> QED  BY <1>1, <1>11, <3>1, <4>1
      <3>2. CASE n = N + 1
        BY <1>1, <1>5, <1>8, <3>2
      <3> QED  BY <1>7, <3>1, <3>2
    <2> QED  BY <1>1, <1>8, <2>1 DEF FoundBehind
  <1> QED  BY <1>12, <1>13

\* At the start nothing is found, and nothing is behind the walk.
LEMMA LayoutStarts ==
  ASSUME LayoutInit
  PROVE  LayoutOK
PROOF
  <1>1. space \in Spaces /\ moduleStart \in Modules(space)
    BY DEF LayoutInit
  <1>2. Len(space) \in Nat /\ \A i \in Modules(space) : i \in Nat /\ 1 < i
    BY <1>1, ModuleRanges
  <1>3. LayoutTypeOK
    BY <1>1, <1>2, MemLayoutAssumption DEF LayoutInit, LayoutTypeOK, None, ModuleInfo
  <1>4. ~Wrapped /\ HalfFound /\ FoundBehind
    BY DEF LayoutInit, Wrapped, HalfFound, FoundBehind
  <1>5. Started
    BY <1>2 DEF LayoutInit, Started
  <1>6. ModulesFound
    BY <1>2, <1>4 DEF LayoutInit, ModulesFound, NotMissed
  <1> QED  BY <1>3, <1>4, <1>5, <1>6 DEF LayoutOK

\* Every query keeps what the walk has found.
LEMMA QueryKeeps ==
  ASSUME LayoutOK, ~Wrapped, Query
  PROVE  LayoutOK'
PROOF
  <1>1. CASE offset = Len(space)
    BY <1>1, WrapKeeps
  <1>2. CASE offset # Len(space)
    <2>1. (ModulesFound /\ FoundBehind)'
      BY <1>2, StepPasses, StepFinds
    <2>2. (HalfFound /\ Started)'
      BY <1>2, StepStarts
    <2>3. LayoutTypeOK'
      BY QueryTypes DEF LayoutOK
    <2> QED  BY <2>1, <2>2, <2>3 DEF LayoutOK
  <1> QED  BY <1>1, <1>2

LEMMA LayoutUnchanged ==
  ASSUME LayoutOK, UNCHANGED layoutVars
  PROVE  LayoutOK'
PROOF
  BY DEF LayoutOK, layoutVars, LayoutTypeOK, ModulesFound, EntryRight, NotMissed,
         BehindHalfModule, Wrapped, HalfFound, Started, FoundBehind

-----------------------------------------------------------------------------
(* The two threads *)

\* How far the two threads are from each other, and which of the handles are
\* closed by then.
HandleOK ==
  /\ HandleTypeOK
  /\ caller = "out" => receiver \in {"none", "exited"} /\ handles = {}
  /\ caller = "createSession" => handles = {}
  /\ caller \in {"createSession", "createThread"} => receiver = "none"
  /\ caller = "startThread" <=> receiver = "created"
  /\ receiver = "none" => caller \in {"out", "createSession", "createThread"}
  /\ receiver \in {"closeServer", "exit", "exited"} => s_Handle = "process"
  /\ receiver \in {"exit", "exited"} => "server" \notin handles
  /\ caller \in {"wait", "closeThread"} => "client" \notin handles
  /\ caller = "closeThread" => receiver = "exited"

LEMMA CallerKeeps ==
  ASSUME HandleOK, Caller
  PROVE  HandleOK'
PROOF
  <1> USE DEF HandleOK, HandleTypeOK, CallerSteps, ReceiverSteps
  <1>1. CASE CreateSession
    BY <1>1 DEF CreateSession
  <1>2. CASE CreateThread
    BY <1>2 DEF CreateThread
  <1>3. CASE StartThread
    BY <1>3 DEF StartThread
  <1>4. CASE Send
    BY <1>4 DEF Send
  <1>5. CASE SendReturns
    BY <1>5 DEF SendReturns
  <1>6. CASE CloseClient
    BY <1>6 DEF CloseClient
  <1>7. CASE Wait
    BY <1>7 DEF Wait
  <1>8. CASE CloseThread
    <2>1. handles \ {"thread"} = {}
      BY <1>8 DEF CloseThread
    <2> QED  BY <1>8, <2>1 DEF CloseThread
  <1> QED  BY <1>1, <1>2, <1>3, <1>4, <1>5, <1>6, <1>7, <1>8 DEF Caller

LEMMA ReceiverKeeps ==
  ASSUME HandleOK, Receiver
  PROVE  HandleOK'
PROOF
  <1> USE DEF HandleOK, HandleTypeOK, CallerSteps, ReceiverSteps
  <1>1. CASE Receive
    BY <1>1 DEF Receive
  <1>2. CASE Store
    BY <1>2 DEF Store
  <1>3. CASE CloseServer
    BY <1>3 DEF CloseServer
  <1>4. CASE ExitThread
    BY <1>4 DEF ExitThread
  <1> QED  BY <1>1, <1>2, <1>3, <1>4 DEF Receiver

LEMMA GetKeeps ==
  ASSUME HandleOK, Get
  PROVE  /\ HandleOK'
         /\ caller' = "out" => s_Handle' = "process"
PROOF
  BY DEF HandleOK, HandleTypeOK, CallerSteps, ReceiverSteps, Get

-----------------------------------------------------------------------------
(* The boot *)

\* What a stage relies on was done by the stages before it.
StageOK ==
  /\ stage # "InitMemLayout" => Wrapped
  /\ stage = "claim" => 1 < s_ModuleCount
  /\ HandleKnown
  /\ claimed # NoRanges =>
       /\ 1 < s_ModuleCount /\ Wrapped
       /\ claimed = [first |-> MainModule.m_Text, last |-> MainModule.m_Rodata]

IInv == TypeOK /\ LayoutOK /\ HandleOK /\ HooksOK /\ StageOK

LEMMA HandleUnchanged ==
  ASSUME HandleOK, UNCHANGED handleVars
  PROVE  HandleOK'
PROOF
  BY DEF HandleOK, handleVars, HandleTypeOK

\* Modules are numbered from one in the sequence.
LEMMA MainModuleType ==
  ASSUME LayoutTypeOK, 1 < s_ModuleCount
  PROVE  /\ 2 \in DOMAIN s_ModuleInfos /\ 1 \in DOMAIN s_ModuleInfos
         /\ MainModule \in ModuleInfo /\ MainModule.m_Text \in Nat /\ MainModule.m_Rodata \in Nat
PROOF
  <1>1. s_ModuleInfos \in Seq(ModuleInfo) /\ Len(s_ModuleInfos) \in Nat /\ 1 < Len(s_ModuleInfos)
    BY DEF LayoutTypeOK, s_ModuleCount
  <1>2. 2 \in DOMAIN s_ModuleInfos /\ 1 \in DOMAIN s_ModuleInfos
    BY <1>1
  <1>3. MainModule \in ModuleInfo
    BY <1>1, <1>2 DEF MainModule
  <1> QED  BY <1>2, <1>3 DEF ModuleInfo

LEMMA BootStarts ==
  Init => IInv
PROOF
  <1> SUFFICES ASSUME Init PROVE IInv
    OBVIOUS
  <1>1. LayoutOK
    BY LayoutStarts DEF Init
  <1>2. HandleOK
    BY DEF Init, HandleInit, HandleOK, HandleTypeOK, CallerSteps, ReceiverSteps
  <1>a. HooksOK
    BY HooksStart DEF Init
  <1>3. TypeOK
    BY <1>1, <1>2, <1>a DEF Init, LayoutOK, HandleOK, HooksOK, LoggerInit, LoggerTypeOK,
                      LoggerStates, TypeOK, Stages, NoRanges
  <1>4. StageOK
    BY DEF Init, StageOK, HandleKnown
  <1> QED  BY <1>1, <1>2, <1>3, <1>4, <1>a DEF IInv

\* The steps of the other thread and of the system, and those of the boot
\* thread inside of Get, leave the stage alone.
LEMMA OthersKeep ==
  ASSUME IInv, \/ Caller /\ UNCHANGED <<layoutVars, loggerVars, hookVars, stage, claimed>>
               \/ ReceiverThread \/ System
  PROVE  IInv'
PROOF
  <1>1. UNCHANGED layoutVars /\ UNCHANGED <<stage, claimed>>
    BY DEF ReceiverThread, System
  <1>a. HooksOK' /\ HooksTypeOK'
    <2>1. UNCHANGED hookVars
      BY DEF ReceiverThread, System
    <2> QED  BY <2>1, HooksUnchanged DEF IInv, HooksOK
  <1>2. LayoutOK' /\ LayoutTypeOK'
    BY <1>1, LayoutUnchanged DEF IInv, LayoutOK
  <1>3. HandleOK' /\ HandleTypeOK'
    BY CallerKeeps, ReceiverKeeps, HandleUnchanged DEF IInv, ReceiverThread, System, HandleOK
  <1>4. LoggerTypeOK'
    BY DEF IInv, TypeOK, ReceiverThread, System, NetworkDecides, loggerVars, LoggerTypeOK
  <1>5. aborted' \in {aborted, "no session", "no thread", "thread not started",
                     "thread not waited for", "session closed"}
    BY DEF Caller, ReceiverThread, Receiver, System, CreateSession, CreateThread, StartThread,
           Send, SendReturns, CloseClient, Wait, CloseThread, Receive, Store, CloseServer,
           ExitThread, Abort
  <1>6. TypeOK'
    BY <1>1, <1>2, <1>3, <1>4, <1>5, <1>a DEF IInv, TypeOK
  <1>7. HandleKnown'
    <2>1. s_Handle = "process" => s_Handle' = "process"
      BY DEF Caller, ReceiverThread, Receiver, System, CreateSession, CreateThread, StartThread,
             Send, SendReturns, CloseClient, Wait, CloseThread, Receive, Store, CloseServer,
             ExitThread, handleVars
    <2>2. caller' = "out" => caller = "out" \/ s_Handle = "process"
      BY DEF IInv, HandleOK, Caller, ReceiverThread, Receiver, System, CreateSession,
             CreateThread, StartThread, Send, SendReturns, CloseClient, Wait, CloseThread,
             Receive, Store, CloseServer, ExitThread, handleVars
    <2> QED  BY <1>1, <2>1, <2>2 DEF IInv, StageOK, HandleKnown
  <1>8. StageOK'
    BY <1>1, <1>7 DEF IInv, StageOK, layoutVars, s_ModuleCount, Wrapped, MainModule
  <1> QED  BY <1>2, <1>3, <1>6, <1>8, <1>a DEF IInv

\* The stages.
LEMMA StagesKeep ==
  ASSUME IInv, caller = "out", BootSteps
  PROVE  IInv'
PROOF
  <1> USE DEF Stages
  <1>1. LayoutOK' /\ LayoutTypeOK'
    <2>1. UNCHANGED layoutVars \/ (~Wrapped /\ Query)
      BY DEF BootSteps, InitMemLayout, virtmemSetup, InitPatcherImpl, Claim, ExlMain,
             HookInitialize, InitLogger, RunCodePatches, Install
    <2> QED  BY <2>1, QueryKeeps, LayoutUnchanged DEF IInv, LayoutOK
  <1>2. HandleOK' /\ HandleTypeOK'
    <2>1. UNCHANGED handleVars \/ Get
      BY DEF BootSteps, InitMemLayout, virtmemSetup, InitPatcherImpl, Claim, ExlMain,
             HookInitialize, InitLogger, RunCodePatches, Install
    <2> QED  BY <2>1, GetKeeps, HandleUnchanged DEF IInv, HandleOK
  <1>a. HooksOK' /\ HooksTypeOK'
    <2>1. (UNCHANGED hookVars) \/ jitCreate \/ InstallHook
      BY DEF BootSteps, InitMemLayout, virtmemSetup, InitPatcherImpl, Claim, ExlMain,
             HookInitialize, InitLogger, RunCodePatches, Install, InstallHookAborts
    <2> QED  BY <2>1, HooksUnchanged, JitKeeps, InstallKeeps DEF IInv, HooksOK
  <1>3. LoggerTypeOK'
    BY DEF IInv, TypeOK, BootSteps, InitMemLayout, virtmemSetup, InitPatcherImpl, Claim, ExlMain,
           HookInitialize, InitLogger, RunCodePatches, Install, SubmitNetworkRequest, Connect, LoggerTypeOK,
           LoggerStates, loggerVars
  <1>4. stage' \in Stages /\ aborted' \in Stages \cup {aborted, "too many modules", "no range", "no layout",
                                                     "not connected", "no trampoline"}
    BY DEF IInv, TypeOK, BootSteps, InitMemLayout, virtmemSetup, InitPatcherImpl, Claim, ExlMain,
           HookInitialize, InitLogger, RunCodePatches, Install,
           InstallHookAborts, Proceed, Get, Abort
  <1>5. claimed' \in [first : Nat, last : Nat]
    <2>1. CASE Claim
      <3>1. MainModule.m_Text \in Nat /\ MainModule.m_Rodata \in Nat
        BY <2>1, MainModuleType DEF Claim, IInv, StageOK, LayoutOK
      <3>2. claimed \in [first : Nat, last : Nat]
        BY DEF IInv, TypeOK
      <3>3. claimed' \in {claimed, [first |-> MainModule.m_Text, last |-> MainModule.m_Rodata]}
        BY <2>1 DEF Claim
      <3> QED  BY <3>1, <3>2, <3>3
    <2>2. CASE ~Claim
      <3>1. UNCHANGED claimed
        BY <2>2 DEF BootSteps, InitMemLayout, virtmemSetup, InitPatcherImpl, ExlMain,
                    HookInitialize, InitLogger, RunCodePatches, Install
      <3>2. claimed \in [first : Nat, last : Nat]
        BY DEF IInv, TypeOK
      <3> QED  BY <3>1, <3>2
    <2> QED  BY <2>1, <2>2
  <1>6. TypeOK'
    BY <1>1, <1>2, <1>3, <1>4, <1>5, <1>a DEF IInv, TypeOK
  <1>7. StageOK'
    <2>1. CASE InitMemLayout
      <3>1. /\ stage = "InitMemLayout" /\ UNCHANGED claimed
            /\ \/ ~Wrapped /\ stage' = stage
               \/ UNCHANGED layoutVars /\ stage' = stage
               \/ UNCHANGED layoutVars /\ Wrapped /\ stage' = "virtmemSetup"
        BY <2>1 DEF InitMemLayout
      <3>2. HandleKnown'
        BY <3>1 DEF HandleKnown
      <3>3. claimed' # NoRanges => UNCHANGED layoutVars
        BY <3>1 DEF IInv, StageOK
      <3> QED  BY <3>1, <3>2, <3>3 DEF IInv, StageOK, layoutVars, Wrapped, s_ModuleCount, MainModule
    <2>2. CASE virtmemSetup \/ HookInitialize \/ InitLogger \/ RunCodePatches \/ Install
      <3>1. /\ UNCHANGED layoutVars /\ UNCHANGED handleVars /\ UNCHANGED claimed
            /\ stage \in {"virtmemSetup", "hook::Initialize", "Logger::init", "runCodePatches", "install"}
            /\ stage' \in {stage, "InitPatcherImpl", "Logger::init", "runCodePatches", "install", "running"}
            /\ stage = "virtmemSetup" => stage' \in {stage, "InitPatcherImpl"}
        BY <2>2 DEF virtmemSetup, HookInitialize, InitLogger, RunCodePatches, Install, Proceed
      <3>2. HandleKnown'
        BY <3>1 DEF IInv, StageOK, HandleKnown, handleVars
      <3> QED  BY <3>1, <3>2 DEF IInv, StageOK, layoutVars, Wrapped, s_ModuleCount, MainModule
    <2>3. CASE InitPatcherImpl
      <3>1. Get => (caller' = "out" => s_Handle' = "process")
        BY GetKeeps DEF IInv
      <3> QED  BY <2>3, <3>1 DEF InitPatcherImpl, IInv, StageOK, HandleKnown, layoutVars,
                                 handleVars, Wrapped, s_ModuleCount, MainModule
    <2>4. CASE Claim
      BY <2>4 DEF Claim, IInv, StageOK, HandleKnown, layoutVars, handleVars, Wrapped,
                  s_ModuleCount, MainModule
    <2>5. CASE ExlMain
      <3>1. caller' = "out" => s_Handle' = "process"
        BY <2>5, GetKeeps DEF IInv, ExlMain
      <3> QED  BY <2>5, <3>1 DEF ExlMain, IInv, StageOK, HandleKnown, layoutVars, Wrapped,
                                 s_ModuleCount, MainModule
    <2> QED  BY <2>1, <2>2, <2>3, <2>4, <2>5 DEF BootSteps
  <1> QED  BY <1>1, <1>2, <1>6, <1>7, <1>a DEF IInv

LEMMA BootKeeps ==
  IInv /\ [Next]_vars => IInv'
PROOF
  <1> SUFFICES ASSUME IInv, [Next]_vars PROVE IInv'
    OBVIOUS
  <1>1. CASE BootThread
    BY <1>1, StagesKeep, OthersKeep DEF BootThread
  <1>2. CASE ReceiverThread \/ System
    BY <1>2, OthersKeep
  <1>3. CASE UNCHANGED vars
    <2>1. UNCHANGED layoutVars /\ UNCHANGED handleVars /\ UNCHANGED loggerVars
          /\ UNCHANGED hookVars
          /\ UNCHANGED <<aborted, stage, claimed>>
      BY <1>3 DEF vars
    <2>2. LayoutOK' /\ HandleOK' /\ HooksOK'
      BY <2>1, LayoutUnchanged, HandleUnchanged, HooksUnchanged DEF IInv
    <2>3. TypeOK'
      BY <2>1, <2>2 DEF IInv, TypeOK, LayoutOK, HandleOK, HooksOK, LoggerTypeOK, loggerVars
    <2>4. StageOK'
      BY <2>1 DEF IInv, StageOK, HandleKnown, layoutVars, handleVars, Wrapped, s_ModuleCount, MainModule
    <2> QED  BY <2>2, <2>3, <2>4 DEF IInv
  <1> QED  BY <1>1, <1>2, <1>3 DEF Next

LEMMA BootInvariant ==
  Spec => []IInv
PROOF
  <1> QED  BY BootStarts, BootKeeps, PTL DEF Spec

-----------------------------------------------------------------------------
(* What follows *)

\* TypeOK: every variable keeps its type, and no module is stored past the
\* array (InitMemLayout), in every address space.
THEOREM BootTypes ==
  Spec => []TypeOK
PROOF
  <1>1. IInv => TypeOK
    BY DEF IInv
  <1> QED  BY <1>1, BootInvariant, PTL

\* ModulesFound: in every address space the walk of InitMemLayout records
\* modules only, in order, and all of them but those behind half a module.
THEOREM WalkFindsModules ==
  Spec => []ModulesFound
PROOF
  <1>1. IInv => ModulesFound
    BY DEF IInv, LayoutOK
  <1> QED  BY <1>1, BootInvariant, PTL

\* StackOutlivesThread: the thread of GetViaIpcTrick never runs on the stack
\* of a call that has returned.
THEOREM StackIsKept ==
  Spec => []StackOutlivesThread
PROOF
  <1>1. IInv => StackOutlivesThread
    BY DEF IInv, HandleOK, StackOutlivesThread
  <1> QED  BY <1>1, BootInvariant, PTL

\* NoHandleLeft: a call of GetViaIpcTrick that returns has closed the session
\* and the thread.
THEOREM HandlesAreClosed ==
  Spec => []NoHandleLeft
PROOF
  <1>1. IInv => NoHandleLeft
    BY DEF IInv, HandleOK, NoHandleLeft
  <1> QED  BY <1>1, BootInvariant, PTL

\* HandleKnown: the stages behind the first call of Get run with the handle of
\* the process stored.
THEOREM HandleIsKnown ==
  Spec => []HandleKnown
PROOF
  <1>1. IInv => HandleKnown
    BY DEF IInv, StageOK
  <1> QED  BY <1>1, BootInvariant, PTL

\* The second entry of the table is the second module, where none of the
\* first two is hidden.
LEMMA SecondEntry ==
  ASSUME LayoutOK, Wrapped, 1 < s_ModuleCount,
         NEW first \in Modules(space), NEW main \in Modules(space),
         first < main,
         \A i \in Modules(space) : i <= main => i \in {first, main},
         ~BehindHalfModule(space, first), ~BehindHalfModule(space, main)
  PROVE  MainModule.m_Text = main /\ MainModule.m_Rodata = main + 1
PROOF
  <1>1. LayoutTypeOK /\ ModulesFound /\ 1 \in DOMAIN s_ModuleInfos /\ 2 \in DOMAIN s_ModuleInfos
    BY MainModuleType DEF LayoutOK
  <1>2. first \in Nat /\ main \in Nat /\ s_ModuleInfos \in Seq(ModuleInfo)
    BY <1>1, ModuleRanges DEF LayoutTypeOK
  <1>3. PICK a \in DOMAIN s_ModuleInfos : s_ModuleInfos[a].m_Text = first
    BY <1>1 DEF ModulesFound, NotMissed
  <1>4. PICK b \in DOMAIN s_ModuleInfos : s_ModuleInfos[b].m_Text = main
    BY <1>1 DEF ModulesFound, NotMissed
  <1>5. ASSUME NEW n \in DOMAIN s_ModuleInfos
        PROVE  /\ s_ModuleInfos[n].m_Text \in Modules(space) /\ s_ModuleInfos[n].m_Text \in Nat
               /\ s_ModuleInfos[n].m_Rodata = s_ModuleInfos[n].m_Text + 1
               /\ \A k \in 1..(n - 1) : s_ModuleInfos[k].m_Text < s_ModuleInfos[n].m_Text
    BY <1>1, InfoTypes DEF ModulesFound, EntryRight
  <1>6. DOMAIN s_ModuleInfos = 1..Len(s_ModuleInfos) /\ Len(s_ModuleInfos) \in Nat
    BY <1>2
  <1>7. b = 2
    <2>1. CASE b = 1
      <3>1. CASE a = 1
        BY <1>2, <1>3, <1>4, <2>1, <3>1
      <3>2. CASE a # 1
        <4>1. 1 \in 1..(a - 1)
          BY <1>6, <3>2
        <4> QED  BY <1>2, <1>3, <1>4, <1>5, <2>1, <4>1
      <3> QED  BY <3>1, <3>2
    <2>2. CASE b > 2
      <3>1. 1 \in 1..(b - 1) /\ 2 \in 1..(b - 1) /\ 1 \in 1..(2 - 1)
        BY <1>6, <2>2
      <3>2. s_ModuleInfos[1].m_Text < main /\ s_ModuleInfos[2].m_Text < main
        BY <1>4, <1>5, <3>1
      <3>3. s_ModuleInfos[1].m_Text = first /\ s_ModuleInfos[2].m_Text = first
        <4>1. /\ s_ModuleInfos[1].m_Text \in Modules(space) /\ s_ModuleInfos[1].m_Text \in Nat
              /\ s_ModuleInfos[2].m_Text \in Modules(space) /\ s_ModuleInfos[2].m_Text \in Nat
          BY <1>1, <1>5
        <4> QED  BY <1>2, <3>2, <4>1
      <3>4. s_ModuleInfos[1].m_Text < s_ModuleInfos[2].m_Text
        BY <1>1, <1>5, <3>1
      <3> QED  BY <1>2, <3>3, <3>4
    <2> QED  BY <1>6, <2>1, <2>2
  <1> QED  BY <1>1, <1>4, <1>5, <1>7 DEF MainModule

\* CallsPassHooks: while hooks are installed, and when all are, a call passes
\* every hook of its function once and ends in what the game had there, for
\* every list of functions and every size of the pool.
THEOREM CallsReachOriginals ==
  Spec => []CallsPassHooks
PROOF
  <1>1. IInv => CallsPassHooks
    BY DEF IInv, HooksOK
  <1> QED  BY <1>1, BootInvariant, PTL

\* ClaimsMain: RwPages claims the second module of the address space, whatever
\* else is mapped there.
THEOREM MainIsClaimed ==
  Spec => []ClaimsMain
PROOF
  <1>1. IInv => ClaimsMain
    BY SecondEntry DEF IInv, StageOK, ClaimsMain
  <1> QED  BY <1>1, BootInvariant, PTL
=============================================================================
