------------------------------- MODULE Plugins -------------------------------
(***************************************************************************)
(* The plugins of winvde_plugin.c: plugin/add loads a library and puts its *)
(* winvde_plugin_data on a list, plugin/del takes it off and lets go of    *)
(* the library.  The system counts references to a library and unloads it  *)
(* with the last; then its data are gone, the list's link included.        *)
(*                                                                         *)
(* The system finds a library by a name in any case and by its path, so    *)
(* several requests reach one library.  Only the directories the system    *)
(* searches matter: plugin_dlopen stops at its first own try, as           *)
(* TRY_DLOPEN never returns INVALID_HANDLE_VALUE.                          *)
(***************************************************************************)
EXTENDS Integers, Sequences, SequencesExt

CONSTANTS
  Libraries,
  Requests,   \* what is written behind plugin/add
  Finds,      \* Finds[r]: the library LoadLibrary finds, or NoLibrary
  NoLibrary,
  Exporting,  \* the libraries that export winvde_plugin_data
  Prefixed,   \* the requests that contain winvde_
  NameOf,     \* NameOf[l]: the request that equals the plugin's own name
  MaxRefs     \* bound: references to a library

ASSUME PluginsAssumption ==
  /\ NoLibrary \notin Libraries
  /\ Finds \in [Requests -> Libraries \cup {NoLibrary}]
  /\ Exporting \subseteq Libraries /\ Prefixed \subseteq Requests
  /\ NameOf \in [Exporting -> Requests]
  /\ MaxRefs \in Nat

VARIABLES
  serving,    \* the process runs
  refs,       \* references to each library
  pluginh,    \* the list
  misnamed    \* history: a library was asked for by a name without winvde_

pluginVars == <<serving, refs, pluginh, misnamed>>

-----------------------------------------------------------------------------
PluginsInit ==
  /\ serving = TRUE
  /\ refs = [l \in Libraries |-> 0]
  /\ pluginh = << >>
  /\ misnamed = FALSE

\* The handle in a plugin's data; a library that is loaded anew has none.
HasHandle(l) == Contains(pluginh, l) /\ refs[l] > 0

\* A walk over the list reads the data of libraries that must be there.
Walkable == \A l \in ToSet(pluginh) : refs[l] > 0

PluginCrash == serving' = FALSE /\ UNCHANGED <<refs, pluginh, misnamed>>

Loads(r, l) == serving /\ Finds[r] = l /\ l \in Libraries /\ refs[l] < MaxRefs

Gain(l, n) == refs' = [refs EXCEPT ![l] = @ + n]

\* A library without the data: the reference is not given back.
AddNoPlugin(r, l) ==
  /\ Loads(r, l) /\ l \notin Exporting
  /\ Gain(l, 1)
  /\ misnamed' = (misnamed \/ r \notin Prefixed)
  /\ UNCHANGED <<serving, pluginh>>

(***************************************************************************)
(* A name without winvde_: the library is let go, its data are read, and,  *)
(* as the name differs, it is let go again.                                *)
(***************************************************************************)
AddMisnamed(r, l) ==
  /\ Loads(r, l) /\ l \in Exporting /\ r \notin Prefixed
  /\ IF refs[l] = 0
     THEN PluginCrash
     ELSE Gain(l, -1) /\ misnamed' = TRUE /\ UNCHANGED <<serving, pluginh>>

\* A name with winvde_ that is not the plugin's own, as a path.
AddOtherName(r, l) ==
  /\ Loads(r, l) /\ l \in Exporting /\ r \in Prefixed /\ r # NameOf[l]
  /\ Gain(l, 0)
  /\ UNCHANGED <<serving, pluginh, misnamed>>

\* A bug: the refusal of a plugin that is there keeps the new reference.
AddAgainHeld(r, l) ==
  /\ Loads(r, l) /\ l \in Exporting /\ r \in Prefixed /\ r = NameOf[l]
  /\ HasHandle(l)
  /\ Gain(l, 1)
  /\ UNCHANGED <<serving, pluginh, misnamed>>

AddAgain(r, l) ==
  /\ Loads(r, l) /\ l \in Exporting /\ r \in Prefixed /\ r = NameOf[l]
  /\ HasHandle(l)
  /\ Gain(l, 0)
  /\ UNCHANGED <<serving, pluginh, misnamed>>

\* addplugin: the tail pointer is in the data of the last plugin.
AddPlugin(r, l) ==
  /\ Loads(r, l) /\ l \in Exporting /\ r \in Prefixed /\ r = NameOf[l]
  /\ ~HasHandle(l)
  /\ IF Walkable
     THEN Gain(l, 1) /\ pluginh' = Append(pluginh, l) /\ UNCHANGED <<serving, misnamed>>
     ELSE PluginCrash

(***************************************************************************)
(* plugin/del: the first of the list whose name begins with the argument,  *)
(* which may be empty.  delplugin sets the tail pointer again.             *)
(***************************************************************************)
Delete(i) ==
  /\ pluginh' = RemoveAt(pluginh, i)
  /\ Gain(pluginh[i], -1)
  /\ UNCHANGED <<serving, misnamed>>

PluginDel(names) ==
  /\ serving
  /\ IF ~Walkable THEN pluginh # << >> /\ PluginCrash
     ELSE \E i \in DOMAIN pluginh :
            /\ pluginh[i] \in names
            /\ \A j \in 1 .. i - 1 : pluginh[j] \notin names
            /\ Delete(i)

\* plugin/list reads every name.
PluginList == serving /\ ~Walkable /\ PluginCrash

PluginsNext ==
  \/ \E r \in Requests, l \in Libraries :
       \/ AddNoPlugin(r, l) \/ AddMisnamed(r, l) \/ AddOtherName(r, l)
       \/ AddAgain(r, l) \/ AddPlugin(r, l)
  \/ \E names \in {Exporting} \cup {{l} : l \in Exporting} : PluginDel(names)
  \/ PluginList

PluginsSpec == PluginsInit /\ [][PluginsNext]_pluginVars

-----------------------------------------------------------------------------
PluginsTypeOK ==
  /\ serving \in BOOLEAN /\ misnamed \in BOOLEAN
  /\ refs \in [Libraries -> 0 .. MaxRefs]
  /\ pluginh \in Seq(Exporting)

(***************************************************************************)
(* As long as libraries are asked for by names with winvde_, a plugin is   *)
(* on the list once and its library held by one reference, and a library   *)
(* whose plugin was deleted or refused is let go, so it can be replaced.   *)
(* This is about the references given back by the refusals of pluginadd.   *)
(***************************************************************************)
PluginsHeld ==
  ~misnamed =>
    /\ IsInjective(pluginh)
    /\ \A l \in Exporting : refs[l] = IF Contains(pluginh, l) THEN 1 ELSE 0
=============================================================================
