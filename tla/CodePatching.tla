---------------------------- MODULE CodePatching ----------------------------
(***************************************************************************)
(* Patching the game's code at boot.  exl_init claims the main module, for *)
(* good (lib/patch/patcher_impl.hpp); a patcher writes instructions        *)
(* through that claim (lib/patch/stream_patcher.hpp); and each hook claims *)
(* the few words it overwrites (HookFuncImpl).                             *)
(*                                                                         *)
(* Hooks may hold several claims at a time here, move them, and be at work *)
(* while a patcher is: the class RwPages allows it, the mod has one hook   *)
(* or one patcher at a time.                                               *)
(***************************************************************************)
EXTENDS RwPages

CONSTANTS
  Storage,       \* the object the patchers use (s_Storage)
  MainModule,    \* what InitPatcherImpl claims
  Hooked,        \* what hooks claim
  Patched,       \* where patchers write, relative to the main module
  MaxWritten     \* how many words a patcher writes without a break

Patchers == [m_Start : Nat, m_Current : Nat]

ASSUME PatchingAssumption ==
  /\ Storage \in Objects
  /\ MainModule \in Claims /\ Hooked \subseteq Claims /\ Patched \subseteq Nat
  /\ MaxWritten \in Nat /\ NULL \notin Patchers

VARIABLE
  patcher     \* m_Start and m_Current of the patcher at work, or NULL

vars == <<virtmemVars, claimVars, patcher>>

Running == aborted = "no"
Ready == Running /\ Storage \in DOMAIN objects

Init ==
  /\ g_Reservations = NULL
  /\ nodes = [c \in {} |-> c]
  /\ table = [p \in Code \cup OtherPages |-> p]
  /\ objects = [o \in {} |-> o]
  /\ stale = {}
  /\ aborted = "no"
  /\ patcher = NULL

InitPatcherImpl ==
  /\ Running /\ Storage \notin DOMAIN objects
  /\ \/ Construct(Storage, MainModule.ro, MainModule.size)
     \/ ConstructAborts(Storage, MainModule.ro, MainModule.size)
  /\ UNCHANGED patcher

-----------------------------------------------------------------------------
(* Hooks *)

Claiming ==
  /\ Ready
  /\ \E o \in Objects \ DOMAIN objects, h \in Hooked :
       Construct(o, h.ro, h.size) \/ ConstructAborts(o, h.ro, h.size)
  /\ UNCHANGED patcher

Moving ==
  /\ Ready
  /\ \E o \in Objects \ DOMAIN objects, other \in DOMAIN objects \ {Storage} :
       MoveConstruct(o, other)
  /\ UNCHANGED patcher

\* A word of a claim is written through its alias.
Writing ==
  /\ Ready
  /\ \E o \in Owners \ {Storage} :
       \E i \in Ends(objects[o].m_Claim) :
         stale' = stale \cup {Physical(objects[o].m_Claim.rw + i)}
  /\ UNCHANGED <<virtmemVars, objects, aborted, patcher>>

Releasing ==
  /\ Ready
  /\ \E o \in DOMAIN objects \ {Storage} : Destroy(o)
  /\ UNCHANGED patcher

-----------------------------------------------------------------------------
(* The patcher *)

Base == objects[Storage].m_Claim

FlushPatcher ==
  stale' = Flush(Base.ro + patcher.m_Start, patcher.m_Current - patcher.m_Start)

StreamPatcher ==
  /\ Ready /\ patcher = NULL
  /\ \E start \in Patched :
       patcher' = [m_Start |-> start, m_Current |-> start]
  /\ UNCHANGED <<virtmemVars, claimVars>>

Write ==
  /\ Ready /\ patcher # NULL
  /\ patcher.m_Current < patcher.m_Start + MaxWritten
  /\ stale' = stale \cup {Physical(Base.rw + patcher.m_Current)}
  /\ patcher' = [patcher EXCEPT !.m_Current = @ + 1]
  /\ UNCHANGED <<virtmemVars, objects, aborted>>

\* mutant: what was written before is not flushed
SeekNoFlush ==
  /\ Ready /\ patcher # NULL
  /\ \E address \in Patched :
       patcher' = [m_Start |-> address, m_Current |-> address]
  /\ UNCHANGED <<virtmemVars, claimVars>>

Seek ==
  /\ Ready /\ patcher # NULL
  /\ \E address \in Patched :
       IF address = patcher.m_Current THEN UNCHANGED <<stale, patcher>>
       ELSE /\ FlushPatcher
            /\ patcher' = [m_Start |-> address, m_Current |-> address]
  /\ UNCHANGED <<virtmemVars, objects, aborted>>

Finish ==
  /\ Ready /\ patcher # NULL
  /\ FlushPatcher
  /\ patcher' = NULL
  /\ UNCHANGED <<virtmemVars, objects, aborted>>

Next ==
  \/ InitPatcherImpl
  \/ Claiming \/ Moving \/ Writing \/ Releasing
  \/ StreamPatcher \/ Write \/ Seek \/ Finish

Spec == Init /\ [][Next]_vars

-----------------------------------------------------------------------------
(* Properties *)

\* The model's variables keep their types.
TypeOK ==
  /\ VirtmemTypeOK
  /\ table \in [DOMAIN table -> Code \cup OtherPages]
  /\ DOMAIN objects \subseteq Objects
  /\ objects \in [DOMAIN objects -> Objs]
  /\ stale \subseteq Nat
  /\ aborted \in {"no", "no address", "no reservation", "not mapped", "not the same data"}
  /\ patcher \in Patchers \cup {NULL}

\* Code that was changed is fetched as it is now, unless the claim or the
\* patcher that changed it is still at work: nothing that was written is left
\* out of a flush by moving a claim, by seeking, or by another's release.
NothingStale ==
  \A w \in stale :
    \/ \E o \in Owners \ {Storage} :
         w \in Words(objects[o].m_Claim.ro, objects[o].m_Claim.size)
    \/ /\ patcher # NULL
       /\ w \in Words(Base.ro + patcher.m_Start, patcher.m_Current - patcher.m_Start)
=============================================================================
