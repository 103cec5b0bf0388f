------------------------------ MODULE Hooking ------------------------------
(***************************************************************************)
(* Installing hooks (lib/hook/trampoline_hook.hpp, lib/hook/nx64/          *)
(* nx_hook.cpp) in memory that is written at one address and executed at   *)
(* another (lib/nx/kernel/jit.c).  How the instructions that move are      *)
(* changed is FixInstructions, how the function's memory is written is     *)
(* CodePatching; here they are known by the function they are from and by  *)
(* where that function went when they moved.                               *)
(***************************************************************************)
EXTENDS Integers, Sequences, Diag

CONSTANTS
  Functions,    \* the functions that may be hooked
  HookLists,    \* which of them are, one after the other
  HookMax       \* for how many trampolines HookPool is declared

PAGE_SIZE == 4096

TrampolineBytes == 50 * 4

ALIGN_UP(x, n) == ((x + n - 1) \div n) * n

HookPoolSize == ALIGN_UP(HookMax * TrampolineBytes, PAGE_SIZE)

\* One trampoline more than the pool is declared for fits into its pages.
ASSUME HookingAssumption ==
  /\ HookMax \in Nat
  /\ (HookMax + 1) * TrampolineBytes <= HookPoolSize
  /\ HookLists \subseteq Seq(Functions)

VARIABLES
  hooks,      \* the functions that are hooked, in this order
  installed,  \* how many of the hooks are installed
  s_HookJit,  \* "none", or "executable" between two calls
  index,      \* the trampoline handed out last (AllocForTrampoline)
  written,    \* the trampolines as they are written, at rw_addr
  fetched,    \* the same as they are executed, at rx_addr
  entry,      \* the hook whose callback a function's patch jumps to, or 0
  OrigRef     \* the trampoline each hook calls as the original, or Null

hookVars ==
  <<hooks, installed, s_HookJit, index, written, fetched, entry, OrigRef>>

Null == -1

Slots == 0..HookMax

\* The first instructions of a function, moved, and the hook they went to
\* when they did: 0 if the function was as the game has it.
Code == [of : Functions, to : Nat]

Zeroed == [empty |-> TRUE]

HooksInit ==
  /\ hooks \in HookLists
  /\ installed = 0
  /\ s_HookJit = "none"
  /\ index = -1
  /\ written = [i \in Slots |-> Zeroed]
  /\ fetched = [i \in Slots |-> Zeroed]
  /\ entry = [f \in Functions |-> 0]
  /\ OrigRef = [k \in DOMAIN hooks |-> Null]

-----------------------------------------------------------------------------
(* The memory of the trampolines *)

\* Initialize, when jitCreate finds memory and addresses for both mappings.
jitCreate ==
  /\ s_HookJit' = "executable"
  /\ UNCHANGED <<hooks, installed, index, written, fetched, entry, OrigRef>>

\* mutant: the caches keep what they have of the trampolines
jitTransitionToExecutableUnflushed(pool) ==
  s_HookJit' = "executable" /\ UNCHANGED fetched

\* The data cache is written back and the instruction cache forgets, over the
\* whole of the memory.
jitTransitionToExecutable(pool) ==
  s_HookJit' = "executable" /\ fetched' = pool

-----------------------------------------------------------------------------
(* One hook *)

NextHook == installed + 1

\* mutant: the count is kept in a variable of each call
AllocForTrampolineFirst == 0

AllocForTrampoline == index + 1

\* The count is compared after it was incremented.
TrampolineAllocFails == AllocForTrampoline > HookMax

\* mutant: the function is patched before its instructions are moved
MovedTooLate(f) == [of |-> f, to |-> NextHook]

\* What __fix_instructions finds at the start of f.
Moved(f) == [of |-> f, to |-> entry[f]]

\* InstallAtOffset and InstallAtSymbol: a trampoline, the function's
\* instructions moved there, the patch, the caches, the pointer to the
\* original.
InstallHook ==
  /\ installed < Len(hooks)
  /\ s_HookJit = "executable"
  /\ ~TrampolineAllocFails
  /\ LET f == hooks[NextHook]
         i == AllocForTrampoline
     IN  /\ index' = i
         /\ written' = [written EXCEPT ![i] = Moved(f)]
         /\ entry' = [entry EXCEPT ![f] = NextHook]
         /\ OrigRef' = [OrigRef EXCEPT ![NextHook] = i]
  /\ jitTransitionToExecutable(written')
  /\ installed' = NextHook
  /\ UNCHANGED hooks

\* The symbol is not found, no trampoline is left, or the function's memory
\* cannot be claimed; any of them ends the process.
InstallHookAborts ==
  /\ installed < Len(hooks)
  /\ \/ Abort("install")
     \/ TrampolineAllocFails /\ Abort("no trampoline")
  /\ UNCHANGED hookVars

AllInstalled == installed = Len(hooks)

-----------------------------------------------------------------------------
(* Properties *)

HooksTypeOK ==
  /\ hooks \in HookLists
  /\ installed \in 0..Len(hooks)
  /\ s_HookJit \in {"none", "executable"}
  /\ index \in -1..HookMax
  /\ written \in [Slots -> Code \cup {Zeroed}]
  /\ fetched \in [Slots -> Code \cup {Zeroed}]
  /\ entry \in [Functions -> Nat]
  /\ OrigRef \in [DOMAIN hooks -> Slots \cup {Null}]

\* j is the last of the first n hooks that is of f, or 0 if none is.
LastHook(j, f, n) ==
  /\ j = 0 \/ (j \in 1..n /\ hooks[j] = f)
  /\ \A i \in 1..n : hooks[i] = f => i <= j

\* What hook k calls as the original is its own function as it was before the
\* hook: in memory that is mapped, executed as it was written, and with the
\* hook before it, if there is one, still called.
OriginalRight(k) ==
  /\ OrigRef[k] \in Slots
  /\ (OrigRef[k] + 1) * TrampolineBytes <= HookPoolSize
  /\ fetched[OrigRef[k]].of = hooks[k]
  /\ LastHook(fetched[OrigRef[k]].to, hooks[k], k - 1)

\* A function that is called goes to the callback of its last hook, and from
\* there, through what each callback calls as the original, passes every hook
\* of its own once and ends in what the game had there.
CallsPassHooks ==
  /\ \A f \in Functions : LastHook(entry[f], f, installed)
  /\ \A k \in 1..installed : OriginalRight(k)
=============================================================================
