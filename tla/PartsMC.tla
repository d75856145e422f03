-------------------------------- MODULE PartsMC --------------------------------
(***************************************************************************)
(* The components that, as far as they are modelled, share no state with   *)
(* one another or with the switch's tables: a behaviour picks one of them  *)
(* at the start and takes steps of that one only, so a run explores each   *)
(* by itself.                                                              *)
(***************************************************************************)
EXTENDS Scripts, Management, Plugins, BitArrays, PacketQueues, Lifecycle, Tap,
        Terminal, Replies, Parameters, Plug, Options, QTimer, TLC

CONSTANT Parts  \* the components a run explores

ASSUME PartsAssumption ==
  Parts \subseteq {"scripts", "management", "plugins", "bits", "queues", "life", "tap",
                   "terminal", "replies", "parameters", "plug", "options", "timers"}

VARIABLE part

vars == <<part, scriptVars, mgmtVars, pluginVars, bitVars, queueVars, lifeVars, tapVars,
          termVars, repliesVars, paramVars, plugVars, optVars, timerVars>>

Init ==
  /\ part \in Parts
  /\ ScriptInit /\ ManagementInit /\ PluginsInit /\ BitInit /\ QueuesInit /\ LifeInit
  /\ TapInit /\ TermInit /\ RepliesInit /\ ParamInit /\ PlugInit /\ OptInit
  /\ TimerInit

\* A step of component p leaves the others alone.
Keep(p) ==
  /\ part = p /\ UNCHANGED part
  /\ IF p = "scripts" THEN TRUE ELSE UNCHANGED scriptVars
  /\ IF p = "management" THEN TRUE ELSE UNCHANGED mgmtVars
  /\ IF p = "plugins" THEN TRUE ELSE UNCHANGED pluginVars
  /\ IF p = "bits" THEN TRUE ELSE UNCHANGED bitVars
  /\ IF p = "queues" THEN TRUE ELSE UNCHANGED queueVars
  /\ IF p = "life" THEN TRUE ELSE UNCHANGED lifeVars
  /\ IF p = "tap" THEN TRUE ELSE UNCHANGED tapVars
  /\ IF p = "terminal" THEN TRUE ELSE UNCHANGED termVars
  /\ IF p = "replies" THEN TRUE ELSE UNCHANGED repliesVars
  /\ IF p = "parameters" THEN TRUE ELSE UNCHANGED paramVars
  /\ IF p = "plug" THEN TRUE ELSE UNCHANGED plugVars
  /\ IF p = "options" THEN TRUE ELSE UNCHANGED optVars
  /\ IF p = "timers" THEN TRUE ELSE UNCHANGED timerVars

RunScript == part = "scripts" /\ ScriptStep /\ Keep("scripts")

RunTick == part = "timers" /\ Tick /\ Keep("timers")

Next ==
  \/ Keep("scripts") /\ LoadScript
  \/ RunScript
  \/ Keep("management") /\ ManagementNext
  \/ Keep("plugins") /\ PluginsNext
  \/ Keep("bits") /\ BitNext
  \/ Keep("queues") /\ QueuesNext
  \/ Keep("life") /\ LifeNext
  \/ Keep("tap") /\ TapNext
  \/ Keep("terminal") /\ TermNext
  \/ Keep("replies") /\ RepliesNext
  \/ Keep("parameters") /\ ParamNext
  \/ Keep("plug") /\ PlugNext
  \/ Keep("options") /\ OptNext
  \/ RunTick
  \/ Keep("timers") /\ \E n \in 0 .. MaxPeriod : SetGcInterval(n)

Spec == Init /\ [][Next]_vars /\ WF_vars(RunScript) /\ WF_vars(RunTick)

-----------------------------------------------------------------------------
(***************************************************************************)
(* Each component's variables have their types while it runs; those of the *)
(* others never change.                                                    *)
(***************************************************************************)
PartsTypeOK ==
  CASE part = "scripts" -> ScriptTypeOK
    [] part = "management" -> ManagementTypeOK
    [] part = "plugins" -> PluginsTypeOK
    [] part = "bits" -> BitTypeOK
    [] part = "queues" -> QueuesTypeOK
    [] part = "life" -> LifeTypeOK
    [] part = "tap" -> TapTypeOK
    [] part = "terminal" -> TermTypeOK
    [] part = "replies" -> RepliesTypeOK
    [] part = "parameters" -> ParamTypeOK
    [] part = "plug" -> PlugTypeOK
    [] part = "options" -> OptTypeOK
    [] part = "timers" -> TimerTypeOK

-----------------------------------------------------------------------------
(***************************************************************************)
(* The instances.  The first path of debug/add names classes c1 and c2,    *)
(* the second c3; the empty path names all.                                *)
(***************************************************************************)
MCMatching == ("any" :> Classes) @@ ("p" :> {"c1", "c2"}) @@ ("m" :> {"c3"})

\* Two requests find a library by its file's name, one of them without the
\* prefix; one finds a library that is no plugin, one finds nothing.
MCFinds == [r \in Requests |->
              CASE r \in {"winvde_d", "d", "./winvde_d"} -> "d"
                [] r = "winvde_s" -> "s"
                [] r = "winvde_x" -> "x"
                [] r = "winvde_n" -> NoLibrary]
MCNameOf == ("d" :> "winvde_d") @@ ("s" :> "winvde_s")

\* Two switches in one directory, and two in another; one of those has no
\* management socket.  All write the same pid file.
MCCtlDir == [s \in Switches |-> IF s \in {"a", "b"} THEN "dir1" ELSE "dir2"]
MCMgmtSocket == [s \in Switches |-> IF s = "e" THEN NoOption ELSE "mgmt"]
MCPidFile == [s \in Switches |-> "pid"]

\* The first tag of a path is empty.
MCTags == << << >>, <<"p", "o">>, <<"g">> >>
MCTextChars == {"'", "\"", "\\", "/", "=", "[", "]", "n", "%", "p", "o", "g", "u"}
MCOtherTags == {<<"u">>, <<"p">>}
MCValues == {<<"'">>, <<"\"", "/">>, <<"\\", "]">>, <<"=", "%">>}

\* One URL leads to the default module, the other to one that lacks functions.
MCUrlModule == [w \in PlugWords |-> IF w = "u2" THEN "other" ELSE "winvde"]
MCPluginPath == <<"p1", "p2">>
MCInstalled == ("same" :> {"winvde"}) @@ ("p1" :> {}) @@ ("p2" :> {"winvde", "other"})

\* Options that share a number, a repeated one, grouped letters, a letter and
\* a name in no table, and two values, one of them no number and no address.
MCLineWords == {<<"--", "dirmode">>, <<"--", "mgmtmode">>, <<"--", "tap">>, <<"-", "t">>,
                <<"-", "x", "d">>, <<"-", "M", "v">>, <<"-", "g">>, <<"-", "q">>,
                <<"--", "nope">>, <<"", "v">>, <<"", "w">>}
MCGoodValues == {<<"", "v">>}
=============================================================================
