----------------------------- MODULE ProcHandle ----------------------------
(***************************************************************************)
(* The handle of the process (lib/util/sys/cur_proc_handle.cpp).  A newer  *)
(* kernel is asked for it.  Otherwise the thread that wants it sends it to *)
(* a thread of its own, through a session, and the kernel translates it on *)
(* the way.  The other thread runs on a stack that is a local variable of  *)
(* the first, and answers by closing the session.                          *)
(***************************************************************************)
EXTENDS Diag

VARIABLES
  s_Handle,    \* "invalid" or "process"
  caller,      \* where the caller is in Get, or "out"
  receiver,    \* where the thread it creates is
  request,     \* what the session holds: "none", "sent" or "received"
  handles      \* the handles that are open

handleVars == <<s_Handle, caller, receiver, request, handles>>

CallerSteps == {"out", "createSession", "createThread", "startThread", "send",
                "sending", "closeClient", "wait", "closeThread"}

ReceiverSteps == {"none", "created", "receive", "store", "closeServer", "exit", "exited"}

HandleInit ==
  /\ s_Handle = "invalid"
  /\ caller = "out"
  /\ receiver = "none"
  /\ request = "none"
  /\ handles = {}

-----------------------------------------------------------------------------
(* The caller *)

\* Get: the handle it has, the kernel's answer (GetViaMesosphere), or the
\* start of GetViaIpcTrick.
Get ==
  /\ caller = "out"
  /\ IF s_Handle # "invalid" THEN UNCHANGED <<s_Handle, caller>>
     ELSE \/ s_Handle' = "process" /\ UNCHANGED caller
          \/ caller' = "createSession" /\ UNCHANGED s_Handle
  /\ UNCHANGED <<receiver, request, handles, aborted>>

CreateSession ==
  /\ caller = "createSession"
  /\ \/ /\ handles' = handles \cup {"server", "client"}
        /\ caller' = "createThread"
        /\ UNCHANGED aborted
     \/ Abort("no session") /\ UNCHANGED <<caller, handles>>
  /\ UNCHANGED <<s_Handle, receiver, request>>

CreateThread ==
  /\ caller = "createThread"
  /\ \/ /\ handles' = handles \cup {"thread"}
        /\ receiver' = "created"
        /\ caller' = "startThread"
        /\ UNCHANGED aborted
     \/ Abort("no thread") /\ UNCHANGED <<caller, receiver, handles>>
  /\ UNCHANGED <<s_Handle, request>>

StartThread ==
  /\ caller = "startThread"
  /\ \/ /\ receiver' = "receive"
        /\ caller' = "send"
        /\ UNCHANGED aborted
     \/ Abort("thread not started") /\ UNCHANGED <<caller, receiver>>
  /\ UNCHANGED <<s_Handle, request, handles>>

\* Whether the request could be sent is not looked at.
Send ==
  /\ caller = "send"
  /\ \/ request' = "sent" /\ caller' = "sending"
     \/ caller' = "closeClient" /\ UNCHANGED request
  /\ UNCHANGED <<s_Handle, receiver, handles, aborted>>

\* A request that gets no reply ends when the other side closes the session.
SendReturns ==
  /\ caller = "sending"
  /\ "server" \notin handles
  /\ caller' = "closeClient"
  /\ UNCHANGED <<s_Handle, receiver, request, handles, aborted>>

\* mutant: the thread is not waited for
CloseClientNoWait ==
  /\ caller = "closeClient"
  /\ handles' = handles \ {"client"}
  /\ caller' = "closeThread"
  /\ UNCHANGED <<s_Handle, receiver, request, aborted>>

CloseClient ==
  /\ caller = "closeClient"
  /\ handles' = handles \ {"client"}
  /\ caller' = "wait"
  /\ UNCHANGED <<s_Handle, receiver, request, aborted>>

Wait ==
  /\ caller = "wait"
  /\ \/ receiver = "exited" /\ caller' = "closeThread" /\ UNCHANGED aborted
     \/ Abort("thread not waited for") /\ UNCHANGED caller
  /\ UNCHANGED <<s_Handle, receiver, request, handles>>

\* mutant: the handle of the thread is kept
CloseThreadNot ==
  /\ caller = "closeThread"
  /\ caller' = "out"
  /\ UNCHANGED <<s_Handle, receiver, request, handles, aborted>>

CloseThread ==
  /\ caller = "closeThread"
  /\ handles' = handles \ {"thread"}
  /\ caller' = "out"
  /\ UNCHANGED <<s_Handle, receiver, request, aborted>>

Caller ==
  \/ CreateSession \/ CreateThread \/ StartThread
  \/ Send \/ SendReturns \/ CloseClient \/ Wait \/ CloseThread

-----------------------------------------------------------------------------
(* The thread that receives the handle *)

Receive ==
  /\ receiver = "receive"
  /\ \/ /\ request = "sent"
        /\ request' = "received"
        /\ receiver' = "store"
        /\ UNCHANGED aborted
     \/ /\ request # "sent" /\ "client" \notin handles
        /\ Abort("session closed")
        /\ UNCHANGED <<request, receiver>>
  /\ UNCHANGED <<s_Handle, caller, handles>>

Store ==
  /\ receiver = "store"
  /\ s_Handle' = "process"
  /\ receiver' = "closeServer"
  /\ UNCHANGED <<caller, request, handles, aborted>>

\* mutant: the session stays open
CloseServerNot ==
  /\ receiver = "closeServer"
  /\ receiver' = "exit"
  /\ UNCHANGED <<s_Handle, caller, request, handles, aborted>>

CloseServer ==
  /\ receiver = "closeServer"
  /\ handles' = handles \ {"server"}
  /\ receiver' = "exit"
  /\ UNCHANGED <<s_Handle, caller, request, aborted>>

ExitThread ==
  /\ receiver = "exit"
  /\ receiver' = "exited"
  /\ UNCHANGED <<s_Handle, caller, request, handles, aborted>>

Receiver == Receive \/ Store \/ CloseServer \/ ExitThread

-----------------------------------------------------------------------------
(* Properties *)

HandleTypeOK ==
  /\ s_Handle \in {"invalid", "process"}
  /\ caller \in CallerSteps
  /\ receiver \in ReceiverSteps
  /\ request \in {"none", "sent", "received"}
  /\ handles \subseteq {"server", "client", "thread"}

\* While the thread runs, its stack is there: the call whose local variable
\* it is has not returned, whichever of the two is faster and whatever fails.
StackOutlivesThread ==
  receiver \notin {"none", "exited"} => caller # "out"

\* A call that returns leaves no handle open.
NoHandleLeft == caller = "out" => handles = {}
=============================================================================
