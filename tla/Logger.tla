------------------------------- MODULE Logger ------------------------------
(***************************************************************************)
(* The connection to the log server (logger/Logger.cpp): init asks for the *)
(* network, waits in a loop while the request is on hold, and connects.    *)
(***************************************************************************)

LoggerStates == {"UNINITIALIZED", "CONNECTED", "UNAVAILABLE", "DISCONNECTED"}

VARIABLES
  mState,     \* the state of the logger
  network     \* what became of the network request

loggerVars == <<mState, network>>

LoggerInit == mState = "UNINITIALIZED" /\ network = "none"

SubmitNetworkRequest ==
  /\ mState = "UNINITIALIZED" /\ network = "none"
  /\ network' = "onHold"
  /\ UNCHANGED mState

\* The system, some time.
NetworkDecides ==
  /\ network = "onHold"
  /\ network' \in {"available", "unavailable"}
  /\ UNCHANGED mState

\* No network, no socket; or an attempt to connect, with or without success.
Connect ==
  /\ network \in {"available", "unavailable"}
  /\ mState' \in IF network = "available"
                   THEN {"UNAVAILABLE", "DISCONNECTED", "CONNECTED"}
                   ELSE {"UNAVAILABLE"}
  /\ UNCHANGED network

LoggerTypeOK ==
  /\ mState \in LoggerStates
  /\ network \in {"none", "onHold", "available", "unavailable"}
=============================================================================
