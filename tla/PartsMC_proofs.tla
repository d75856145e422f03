---------------------------- MODULE PartsMC_proofs ----------------------------
(***************************************************************************)
(* The components of PartsMC side by side.  Each behaves as its own        *)
(* specification says: a step of one leaves the variables of the others    *)
(* alone, and one that leaves its own alone is a stuttering step for it.   *)
(* So what the modules Parts_proofs and Clients_proofs show for a          *)
(* component holds in the composition that TLC explores.                   *)
(***************************************************************************)
EXTENDS PartsMC, Parts_proofs, Clients_proofs, QTimer_proofs

\* A step of the whole is one of the component it picked, and none of the others.
LEMMA StepOfEach ==
  ASSUME [Next]_vars
  PROVE  /\ [LoadScript \/ ScriptStep]_scriptVars
         /\ [ManagementNext]_mgmtVars /\ [PluginsNext]_pluginVars /\ [BitNext]_bitVars
         /\ [QueuesNext]_queueVars /\ [LifeNext]_lifeVars /\ [TapNext]_tapVars
         /\ [TermNext]_termVars /\ [RepliesNext]_repliesVars /\ [ParamNext]_paramVars
         /\ [PlugNext]_plugVars /\ [OptNext]_optVars /\ [TimerNext]_timerVars
<1>1. CASE UNCHANGED vars
  BY <1>1 DEF vars
<1>2. CASE Keep("scripts") /\ (LoadScript \/ ScriptStep)
  BY <1>2 DEF Keep
<1>3. CASE Keep("management") /\ ManagementNext
  BY <1>3 DEF Keep
<1>4. CASE Keep("plugins") /\ PluginsNext
  BY <1>4 DEF Keep
<1>5. CASE Keep("bits") /\ BitNext
  BY <1>5 DEF Keep
<1>6. CASE Keep("queues") /\ QueuesNext
  BY <1>6 DEF Keep
<1>7. CASE Keep("life") /\ LifeNext
  BY <1>7 DEF Keep
<1>8. CASE Keep("tap") /\ TapNext
  BY <1>8 DEF Keep
<1>9. CASE Keep("terminal") /\ TermNext
  BY <1>9 DEF Keep
<1>10. CASE Keep("replies") /\ RepliesNext
  BY <1>10 DEF Keep
<1>11. CASE Keep("parameters") /\ ParamNext
  BY <1>11 DEF Keep
<1>12. CASE Keep("plug") /\ PlugNext
  BY <1>12 DEF Keep
<1>13. CASE Keep("options") /\ OptNext
  BY <1>13 DEF Keep
<1>14. CASE Keep("timers") /\ TimerNext
  BY <1>14 DEF Keep
<1> QED BY <1>1, <1>2, <1>3, <1>4, <1>5, <1>6, <1>7, <1>8, <1>9, <1>10, <1>11, <1>12, <1>13,
         <1>14
        DEF Next, RunScript, RunTick, TimerNext

(***************************************************************************)
(* Side by side the components of the switch and its clients implement     *)
(* the specification of each.                                              *)
(***************************************************************************)
THEOREM EachByItself ==
  Spec => /\ ScriptSpec /\ ManagementSpec /\ PluginsSpec /\ BitSpec
          /\ QueuesSpec /\ LifeSpec /\ TapSpec /\ TermSpec
          /\ RepliesSpec /\ ParamSpec /\ PlugSpec /\ OptSpec /\ TimerSpec
<1>1. Init => /\ ScriptInit /\ ManagementInit /\ PluginsInit /\ BitInit
              /\ QueuesInit /\ LifeInit /\ TapInit /\ TermInit
              /\ RepliesInit /\ ParamInit /\ PlugInit /\ OptInit /\ TimerInit
  BY DEF Init
<1>2. [Next]_vars =>
        /\ [LoadScript \/ ScriptStep]_scriptVars
        /\ [ManagementNext]_mgmtVars /\ [PluginsNext]_pluginVars /\ [BitNext]_bitVars
        /\ [QueuesNext]_queueVars /\ [LifeNext]_lifeVars /\ [TapNext]_tapVars
        /\ [TermNext]_termVars /\ [RepliesNext]_repliesVars /\ [ParamNext]_paramVars
        /\ [PlugNext]_plugVars /\ [OptNext]_optVars /\ [TimerNext]_timerVars
  BY StepOfEach
<1> QED BY <1>1, <1>2, PTL
        DEF Spec, ScriptSpec, ManagementSpec, PluginsSpec, BitSpec, QueuesSpec, LifeSpec,
            TapSpec, TermSpec, RepliesSpec, ParamSpec, PlugSpec, OptSpec, TimerSpec

-----------------------------------------------------------------------------
(***************************************************************************)
(* The types of every component: most are part of the invariant its        *)
(* properties rest on.                                                     *)
(***************************************************************************)
EveryType ==
  /\ ScriptTypeOK /\ ManagementTypeOK /\ PluginsTypeOK /\ BitTypeOK
  /\ QueuesTypeOK /\ LifeTypeOK /\ TapTypeOK /\ TermTypeOK
  /\ RepliesTypeOK /\ ParamTypeOK /\ PlugTypeOK /\ OptTypeOK /\ TimerTypeOK

LEMMA TypesOfTheSwitch ==
  Spec => [](/\ ManagementTypeOK /\ PluginsTypeOK /\ BitTypeOK /\ QueuesTypeOK
             /\ LifeTypeOK /\ TapTypeOK /\ OptTypeOK /\ TimerTypeOK)
<1>1. /\ ManagementInv => ManagementTypeOK
      /\ PluginsInv => PluginsTypeOK
      /\ QueuesInv => QueuesTypeOK
      /\ LifeInv => LifeTypeOK
      /\ TapInv => TapTypeOK
      /\ OptInv => OptTypeOK
  BY DEF ManagementInv, PluginsInv, QueuesInv, LifeInv, TapInv, OptInv
<1>2. OptSpec => []OptInv
  BY OptStarts, OptStepKeepsInv, PTL DEF OptSpec
<1> QED BY <1>1, <1>2, EachByItself, ManagementInvariant, PluginsInvariant, BitsKeepShape,
           QueuesInvariant, LifeInvariant, TapsInvariant, TimersTyped, PTL

LEMMA TypesOfTheClients ==
  Spec => [](ScriptTypeOK /\ TermTypeOK /\ RepliesTypeOK /\ ParamTypeOK /\ PlugTypeOK)
<1>1. /\ ScriptInv => ScriptTypeOK
      /\ RepliesInv => RepliesTypeOK
      /\ ParamInv => ParamTypeOK
      /\ PlugInv => PlugTypeOK
  BY DEF ScriptInv, RepliesInv, ParamInv, PlugInv
<1>2. ScriptSpec => []ScriptInv
  BY ScriptStarts, ScriptStepKeepsInv, PTL DEF ScriptSpec
<1>3. RepliesSpec => []RepliesInv
  BY RepliesStart, RepliesStepKeepsInv, PTL DEF RepliesSpec
<1>4. ParamSpec => []ParamInv
  BY ParamStarts, ParamStepKeepsInv, PTL DEF ParamSpec
<1>5. PlugSpec => []PlugInv
  BY PlugStarts, PlugStepKeepsInv, PTL DEF PlugSpec
<1> QED BY <1>1, <1>2, <1>3, <1>4, <1>5, EachByItself, TerminalTyped, PTL

(***************************************************************************)
(* Whichever component takes the steps, its variables have their types.    *)
(***************************************************************************)
THEOREM PartsTypeCorrect == Spec => []PartsTypeOK
<1>1. Init => part \in Parts
  BY DEF Init
<1>2. part \in Parts /\ [Next]_vars => (part \in Parts)'
  <2>1. [Next]_vars => part' = part
    BY DEF Next, RunScript, RunTick, Keep, vars
  <2> QED BY <2>1
<1>3. part \in Parts /\ EveryType => PartsTypeOK
  <2> SUFFICES ASSUME part \in Parts, EveryType PROVE PartsTypeOK
    OBVIOUS
  <2>1. part \in {"scripts", "management", "plugins", "bits", "queues", "life", "tap",
                  "terminal", "replies", "parameters", "plug", "options", "timers"}
    BY PartsAssumption
  <2> QED BY <2>1 DEF PartsTypeOK, EveryType
<1>4. Spec => []EveryType
  <2>1. /\ /\ ManagementTypeOK /\ PluginsTypeOK /\ BitTypeOK /\ QueuesTypeOK
           /\ LifeTypeOK /\ TapTypeOK /\ OptTypeOK /\ TimerTypeOK
        /\ ScriptTypeOK /\ TermTypeOK /\ RepliesTypeOK /\ ParamTypeOK /\ PlugTypeOK
        => EveryType
    BY DEF EveryType
  <2> QED BY <2>1, TypesOfTheSwitch, TypesOfTheClients, PTL
<1> QED BY <1>1, <1>2, <1>3, <1>4, PTL DEF Spec

(***************************************************************************)
(* What the components promise one by one holds side by side: scripts,     *)
(* subscriptions, plugins, bit arrays, queues, taps, switches, the         *)
(* terminal, the replies it shows, names, the two command lines and the    *)
(* collector's timers.                                                     *)
(***************************************************************************)
THEOREM PartsKeepPromises ==
  Spec => /\ [](/\ ScriptRunsAsWritten /\ SubscribersAsAsked /\ PluginsHeld /\ BitsAreSets
                /\ QueuesShareBuffers /\ TapsWhole /\ EndsClean /\ RepliesShown
                /\ ParametersAsAsked /\ PlugAsGiven /\ OptionsReachOwner
                /\ StructsApart /\ DueWithinPeriod /\ CurrentIntervalRuns)
          /\ LineAsMeant
BY EachByItself, ScriptsRunAsWritten, SubscribersAreAsAsked, PluginsAreHeld,
   BitsStandForSets, BuffersAreShared, TapsStayWhole, SwitchesEndClean, RepliesAreShown,
   ParametersArrive, PlugsAsGiven, OptionsAtOwner, StructsStayApart, TimersFallDue,
   IntervalStaysInForce, LinesAreAsMeant, PTL
=============================================================================
