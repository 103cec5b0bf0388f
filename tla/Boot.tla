-------------------------------- MODULE Boot -------------------------------
(***************************************************************************)
(* The boot of the mod: exl_init (lib/init/init.cpp) and exl_main          *)
(* (program/main.cpp), one stage after the other on one thread.  Finding   *)
(* the modules, getting the handle of the process, connecting to the log   *)
(* server and installing the hooks are the modules MemLayout, ProcHandle,  *)
(* Logger and Hooking; the other stages are known here by whether they     *)
(* abort.                                                                  *)
(***************************************************************************)
EXTENDS MemLayout, ProcHandle, Logger, Hooking

VARIABLES
  stage,      \* where the boot is
  claimed     \* the ranges of the main module that code is patched in

vars == <<aborted, layoutVars, handleVars, loggerVars, hookVars, stage, claimed>>

Stages == {"InitMemLayout", "virtmemSetup", "InitPatcherImpl", "claim", "exl_main",
           "hook::Initialize", "Logger::init", "runCodePatches", "install", "running"}

NoRanges == [first |-> 0, last |-> 0]

Init ==
  /\ aborted = "no"
  /\ LayoutInit /\ HandleInit /\ LoggerInit /\ HooksInit
  /\ stage = "InitMemLayout"
  /\ claimed = NoRanges

-----------------------------------------------------------------------------
(* exl_init *)

InitMemLayout ==
  /\ stage = "InitMemLayout"
  /\ \/ ~Wrapped /\ Query /\ UNCHANGED <<aborted, stage>>
     \/ ~Wrapped /\ TooMany /\ Abort("too many modules") /\ UNCHANGED <<layoutVars, stage>>
     \/ ~Wrapped /\ ~TooMany /\ Abort("no range") /\ UNCHANGED <<layoutVars, stage>>
     \/ Wrapped /\ LayoutValid /\ stage' = "virtmemSetup" /\ UNCHANGED <<aborted, layoutVars>>
     \/ Wrapped /\ ~LayoutValid /\ Abort("no layout") /\ UNCHANGED <<layoutVars, stage>>
  /\ UNCHANGED <<handleVars, loggerVars, hookVars, claimed>>

Proceed(next) ==
  \/ stage' = next /\ UNCHANGED aborted
  \/ Abort(stage) /\ UNCHANGED stage

virtmemSetup ==
  /\ stage = "virtmemSetup"
  /\ Proceed("InitPatcherImpl")
  /\ UNCHANGED <<layoutVars, handleVars, loggerVars, hookVars, claimed>>

\* mutant: modules are numbered from one
MainModuleFirst == s_ModuleInfos[1]

\* GetModuleInfo(s_MainModuleIdx)
MainModule == s_ModuleInfos[2]

\* The constructor of RwPages, up to its call of Get.
InitPatcherImpl ==
  /\ stage = "InitPatcherImpl"
  /\ \/ 1 < s_ModuleCount /\ Get /\ stage' = "claim"
     \/ Abort("InitPatcherImpl") /\ UNCHANGED <<handleVars, stage>>
  /\ UNCHANGED <<layoutVars, loggerVars, hookVars, claimed>>

Claim ==
  /\ stage = "claim"
  /\ \/ /\ stage' = "exl_main"
        /\ claimed' = [first |-> MainModule.m_Text, last |-> MainModule.m_Rodata]
        /\ UNCHANGED aborted
     \/ Abort("claim") /\ UNCHANGED <<stage, claimed>>
  /\ UNCHANGED <<layoutVars, handleVars, loggerVars, hookVars>>

-----------------------------------------------------------------------------
(* exl_main *)

ExlMain ==
  /\ stage = "exl_main"
  /\ Get
  /\ stage' = "hook::Initialize"
  /\ UNCHANGED <<layoutVars, loggerVars, hookVars, claimed>>

HookInitialize ==
  /\ stage = "hook::Initialize"
  /\ \/ jitCreate /\ stage' = "Logger::init" /\ UNCHANGED aborted
     \/ Abort("hook::Initialize") /\ UNCHANGED <<hookVars, stage>>
  /\ UNCHANGED <<layoutVars, handleVars, loggerVars, claimed>>

InitLogger ==
  /\ stage = "Logger::init"
  /\ \/ SubmitNetworkRequest /\ UNCHANGED <<aborted, stage>>
     \/ Connect /\ IF mState' = "CONNECTED"
                     THEN stage' = "runCodePatches" /\ UNCHANGED aborted
                     ELSE Abort("not connected") /\ UNCHANGED stage
  /\ UNCHANGED <<layoutVars, handleVars, hookVars, claimed>>

\* The fixed instructions, written through the claim.
RunCodePatches ==
  /\ stage = "runCodePatches"
  /\ Proceed("install")
  /\ UNCHANGED <<layoutVars, handleVars, loggerVars, hookVars, claimed>>

Install ==
  /\ stage = "install"
  /\ \/ InstallHook /\ UNCHANGED <<aborted, stage>>
     \/ InstallHookAborts /\ UNCHANGED stage
     \/ AllInstalled /\ stage' = "running" /\ UNCHANGED <<aborted, hookVars>>
  /\ UNCHANGED <<layoutVars, handleVars, loggerVars, claimed>>

BootSteps ==
  \/ InitMemLayout \/ virtmemSetup \/ InitPatcherImpl \/ Claim
  \/ ExlMain \/ HookInitialize \/ InitLogger \/ RunCodePatches \/ Install

\* A stage goes on when the call of Get it made has returned.
BootThread ==
  /\ Running
  /\ \/ caller = "out" /\ BootSteps
     \/ Caller /\ UNCHANGED <<layoutVars, loggerVars, hookVars, stage, claimed>>

ReceiverThread ==
  Running /\ Receiver /\ UNCHANGED <<layoutVars, loggerVars, hookVars, stage, claimed>>

System ==
  /\ Running /\ NetworkDecides
  /\ UNCHANGED <<aborted, layoutVars, handleVars, hookVars, stage, claimed>>

Next == BootThread \/ ReceiverThread \/ System

\* Both threads run, each on a core of its own, and the system decides about
\* the network at some time.
Fairness == WF_vars(BootThread) /\ WF_vars(ReceiverThread) /\ WF_vars(System)

Spec == Init /\ [][Next]_vars

FairSpec == Spec /\ Fairness

-----------------------------------------------------------------------------
(* Properties *)

\* The variables keep their types; no module is stored past the array.
TypeOK ==
  /\ LayoutTypeOK /\ HandleTypeOK /\ LoggerTypeOK /\ HooksTypeOK
  /\ aborted \in Stages \cup {"no", "too many modules", "no range", "no layout",
       "no session", "no thread", "thread not started", "thread not waited for",
       "session closed", "not connected", "no trampoline"}
  /\ stage \in Stages
  /\ claimed \in [first : Nat, last : Nat]

\* Whoever needs the handle of the process after a call of Get has it, however
\* it was got: s_Handle is not read before the other thread has stored it.
HandleKnown ==
  stage \notin {"InitMemLayout", "virtmemSetup", "InitPatcherImpl"} /\ caller = "out"
    => s_Handle = "process"

\* The code that is patched is that of the game's main module, the second one
\* in the address space.  (Where no half module hides one of the first two.)
ClaimsMain ==
  claimed # NoRanges =>
    \A first, main \in Modules(space) :
      /\ first < main
      /\ \A i \in Modules(space) : i <= main => i \in {first, main}
      /\ ~BehindHalfModule(space, first) /\ ~BehindHalfModule(space, main)
      => claimed = [first |-> main, last |-> main + 1]

\* The boot gets to its end or aborts: the two threads do not wait for each
\* other for ever.
BootEnds == <>(stage = "running" \/ ~Running)
=============================================================================
