------------------------------- MODULE MCBoot ------------------------------
(***************************************************************************)
(* Address spaces put together from modules, parts of modules and other    *)
(* ranges, and lists of hooks.                                             *)
(***************************************************************************)
EXTENDS Boot

Module == <<"Rx", "R", "Rw">>

Pieces == {Module, <<"Rx", "R">>, <<"Rx">>, <<"R">>, <<"Rw">>, <<"other">>}

Assembled == {<<"other">> \o a \o b \o c \o d : a, b, c, d \in Pieces}

\* Four modules at most: as many as there is room for, and one more.
MCSpaces == {s \in Assembled : Modules(s) # {}}

\* The functions exl_main hooks, by offset or symbol.
ModHooks ==
  <<"0x535850", "0x50F1D8", "Scene::movement", "FileDeviceMgr",
    "GameConfigData::read", "GameConfigData::write", "isTriggerSnapShotMode",
    "StageScene::control">>

MCFunctions == {ModHooks[i] : i \in 1..8}

\* The same with some functions hooked again, one hook more than the pool has
\* trampolines for.
MCHookLists ==
  {ModHooks,
   ModHooks \o <<"Scene::movement", "StageScene::control", "Scene::movement", "FileDeviceMgr">>}
=============================================================================
