------------------------------ MODULE Lifecycle ------------------------------
(***************************************************************************)
(* How a switch starts (main, init_mods and the init functions of the      *)
(* modules), how it ends (CleanUp, by atexit or from sig_handler), and     *)
(* what it leaves in the file system: the control directory with ctl.sock, *)
(* the management socket and the pid file.  Several switches share one     *)
(* file system; each of them runs, ends, crashes and is started again.     *)
(*                                                                         *)
(* A socket's file outlives the socket: bind fails where a file is, and    *)
(* connect succeeds where the switch that made it listens.  The functions  *)
(* of the system do not set switch_errno, which is 0 at the start, so no   *)
(* failure counts as EEXIST, EADDRINUSE or ECONNREFUSED and still_used is  *)
(* never called.                                                           *)
(***************************************************************************)
EXTENDS Naturals, FiniteSets

CONSTANTS
  Switches,
  CtlDir,      \* CtlDir[s]: the control directory of switch s
  MgmtSocket,  \* MgmtSocket[s]: its management socket, or NoOption
  NoOption,
  PidFile,     \* PidFile[s]
  NoFile,      \* there is no file
  Stale,       \* there is one, of a process that is gone
  MaxCrashes   \* bound: crashes

ASSUME LifecycleAssumption ==
  /\ DOMAIN CtlDir = Switches /\ DOMAIN MgmtSocket = Switches
  /\ DOMAIN PidFile = Switches
  /\ NoFile # Stale /\ {NoFile, Stale} \cap Switches = {}
  /\ MaxCrashes \in Nat

VARIABLES
  phase,    \* phase[s], see Phases
  dirs,     \* the control directories that exist
  ctl,      \* ctl[d]: the switch whose ctl.sock is in d, NoFile or Stale
  mgmt,     \* mgmt[m]: the same for management sockets
  pid,      \* pid[p]: the switch whose number is in pid file p, NoFile or Stale
  refused,  \* history: was the last start of s refused, and for what
  crashes,  \* how many switches have crashed
  orphans   \* history: directories of switches that crashed or could not bind

lifeVars == <<phase, dirs, ctl, mgmt, pid, refused, crashes, orphans>>

Phases == {
  "down",
  "made",      \* the directory is made
  "bound",     \* ctl.sock is bound and listens; the modules behind are to be started
  "serving",
  "failing",   \* an init function has failed
  "closed",    \* FileCleanUp is done
  "removed"}   \* datasock_cleanup is done

DirNames == {CtlDir[s] : s \in Switches}
MgmtNames == {MgmtSocket[s] : s \in Switches} \ {NoOption}
PidNames == {PidFile[s] : s \in Switches}

-----------------------------------------------------------------------------
LifeInit ==
  /\ phase = [s \in Switches |-> "down"]
  /\ dirs = {}
  /\ ctl = [d \in DirNames |-> NoFile]
  /\ mgmt = [m \in MgmtNames |-> NoFile]
  /\ pid = [p \in PidNames |-> NoFile]
  /\ refused = [s \in Switches |-> "no"]
  /\ crashes = 0
  /\ orphans = {}

Goto(s, p) == phase' = [phase EXCEPT ![s] = p]

Listens(s) == phase[s] \in {"bound", "serving", "failing"}

\* connect to ctl.sock in d succeeds.
Connects(d) == ctl[d] \in Switches /\ Listens(ctl[d])

\* A start of s is refused where the file that is in the way belongs to owner.
Refuse(s, owner) ==
  refused' = [refused EXCEPT ![s] = IF owner = Stale THEN "stale" ELSE "other"]

(***************************************************************************)
(* datasock_init.  Where _mkdir fails the modules are not started; main    *)
(* goes on to the clean-up, which finds no path in ctl_socket.             *)
(***************************************************************************)
MakeDir(s) ==
  /\ phase[s] = "down" /\ CtlDir[s] \notin dirs
  /\ Goto(s, "made")
  /\ dirs' = dirs \cup {CtlDir[s]}
  /\ refused' = [refused EXCEPT ![s] = "no"]
  /\ UNCHANGED <<ctl, mgmt, pid, crashes, orphans>>

MakeDirFails(s) ==
  /\ phase[s] = "down" /\ CtlDir[s] \in dirs
  /\ Refuse(s, ctl[CtlDir[s]])
  /\ UNCHANGED <<phase, dirs, ctl, mgmt, pid, crashes, orphans>>

BindCtl(s) ==
  /\ phase[s] = "made" /\ ctl[CtlDir[s]] = NoFile
  /\ Goto(s, "bound")
  /\ ctl' = [ctl EXCEPT ![CtlDir[s]] = s]
  /\ UNCHANGED <<dirs, mgmt, pid, refused, crashes, orphans>>

(***************************************************************************)
(* Both calls of bind fail (the path is too long, say): exit.  The         *)
(* clean-up has nothing to close, no ctl.sock to unlink and no path of a   *)
(* pid file, and does not come to _rmdir.                                  *)
(***************************************************************************)
BindCtlFails(s) ==
  /\ phase[s] = "made"
  /\ Goto(s, "down")
  /\ orphans' = orphans \cup {CtlDir[s]}
  /\ UNCHANGED <<dirs, ctl, mgmt, pid, refused, crashes>>

(***************************************************************************)
(* mgmt_init: the pid file is written over whatever is there.  Without the *)
(* option -M, or where the file of the socket exists, it returns -1.       *)
(***************************************************************************)
SavePidfile(s) == pid' = [pid EXCEPT ![PidFile[s]] = s]

BindMgmt(s) ==
  /\ phase[s] = "bound"
  /\ MgmtSocket[s] # NoOption /\ mgmt[MgmtSocket[s]] = NoFile
  /\ Goto(s, "serving")
  /\ mgmt' = [mgmt EXCEPT ![MgmtSocket[s]] = s]
  /\ SavePidfile(s)
  /\ UNCHANGED <<dirs, ctl, refused, crashes, orphans>>

BindMgmtFails(s) ==
  /\ phase[s] = "bound"
  /\ MgmtSocket[s] # NoOption /\ mgmt[MgmtSocket[s]] # NoFile
  /\ Goto(s, "failing")
  /\ SavePidfile(s)
  /\ Refuse(s, mgmt[MgmtSocket[s]])
  /\ UNCHANGED <<dirs, ctl, mgmt, crashes, orphans>>

NoMgmtOption(s) ==
  /\ phase[s] = "bound" /\ MgmtSocket[s] = NoOption
  /\ Goto(s, "failing")
  /\ SavePidfile(s)
  /\ UNCHANGED <<dirs, ctl, mgmt, refused, crashes, orphans>>

\* A bug: mgmt_cleanup unlinks the socket's file whoever has bound it.
UnlinkMgmtAlways(s) == {MgmtSocket[s]} \ {NoOption}

\* The management socket that is in the descriptor table of s.
UnlinkMgmt(s) == IF phase[s] = "serving" THEN {MgmtSocket[s]} ELSE {}

(***************************************************************************)
(* The end: "quit" on the console, the command shutdown, an error of       *)
(* WSAPoll, a signal, or an init function that failed.  FileCleanUp calls  *)
(* the clean-up of every descriptor, that of the console among them, which *)
(* removes the pid file.                                                   *)
(***************************************************************************)
FileCleanUp(s) ==
  /\ phase[s] \in {"serving", "failing"}
  /\ Goto(s, "closed")
  /\ mgmt' = [m \in MgmtNames |-> IF m \in UnlinkMgmt(s) THEN NoFile ELSE mgmt[m]]
  /\ pid' = [pid EXCEPT ![PidFile[s]] = NoFile]
  /\ UNCHANGED <<dirs, ctl, refused, crashes, orphans>>

(***************************************************************************)
(* datasock_cleanup for the module: connect tells whether ctl.sock is in   *)
(* use.  After main has called WSACleanup it fails whatever is there.      *)
(***************************************************************************)
DatasockCleanup(s) ==
  /\ phase[s] = "closed"
  /\ Goto(s, "removed")
  /\ \E winsock \in BOOLEAN :
       IF winsock /\ Connects(CtlDir[s])
       THEN UNCHANGED <<dirs, ctl>>
       ELSE /\ ctl' = [ctl EXCEPT ![CtlDir[s]] = NoFile]
            /\ dirs' = dirs \ {CtlDir[s]}
  /\ UNCHANGED <<mgmt, pid, refused, crashes, orphans>>

\* mgmt_cleanup for the module: the pid file is removed once more.
MgmtCleanup(s) ==
  /\ phase[s] = "removed"
  /\ Goto(s, "down")
  /\ pid' = [pid EXCEPT ![PidFile[s]] = NoFile]
  /\ UNCHANGED <<dirs, ctl, mgmt, refused, crashes, orphans>>

\* The process is gone, in whatever it was doing.
CrashSwitch(s) ==
  /\ phase[s] # "down" /\ crashes < MaxCrashes
  /\ Goto(s, "down")
  /\ ctl' = [d \in DirNames |-> IF ctl[d] = s THEN Stale ELSE ctl[d]]
  /\ mgmt' = [m \in MgmtNames |-> IF mgmt[m] = s THEN Stale ELSE mgmt[m]]
  /\ pid' = [p \in PidNames |-> IF pid[p] = s THEN Stale ELSE pid[p]]
  /\ orphans' = IF phase[s] = "removed" THEN orphans ELSE orphans \cup {CtlDir[s]}
  /\ crashes' = crashes + 1
  /\ UNCHANGED <<dirs, refused>>

LifeNext ==
  \E s \in Switches :
    \/ MakeDir(s) \/ MakeDirFails(s) \/ BindCtl(s) \/ BindCtlFails(s)
    \/ BindMgmt(s) \/ BindMgmtFails(s) \/ NoMgmtOption(s)
    \/ FileCleanUp(s) \/ DatasockCleanup(s) \/ MgmtCleanup(s)
    \/ CrashSwitch(s)

LifeSpec == LifeInit /\ [][LifeNext]_lifeVars

-----------------------------------------------------------------------------
LifeTypeOK ==
  /\ phase \in [Switches -> Phases]
  /\ dirs \subseteq DirNames /\ orphans \subseteq dirs
  /\ ctl \in [DirNames -> Switches \cup {NoFile, Stale}]
  /\ mgmt \in [MgmtNames -> Switches \cup {NoFile, Stale}]
  /\ pid \in [PidNames -> Switches \cup {NoFile, Stale}]
  /\ refused \in [Switches -> {"no", "other", "stale"}]
  /\ crashes \in 0 .. MaxCrashes

(***************************************************************************)
(* Switches that start, fail and end in any order never take a socket away *)
(* from one that serves, and what an orderly end leaves is nothing: each   *)
(* socket belongs to a switch that is still there or has crashed, and each *)
(* directory to one switch, or to one that crashed or could not bind.      *)
(***************************************************************************)
ServedReachable ==
  \A s \in Switches : phase[s] = "serving" =>
    Connects(CtlDir[s]) /\ ctl[CtlDir[s]] = s /\ mgmt[MgmtSocket[s]] = s

WithDirectory == {s \in Switches : phase[s] \in {"made", "bound", "serving", "failing", "closed"}}

NothingLeft ==
  /\ \A d \in DirNames : ctl[d] \in Switches => ctl[d] \in WithDirectory
  /\ \A m \in MgmtNames : mgmt[m] \in Switches => phase[mgmt[m]] = "serving"
  /\ \A p \in PidNames : pid[p] \in Switches => phase[pid[p]] \in {"serving", "failing"}
  /\ dirs = {CtlDir[s] : s \in WithDirectory} \cup orphans
  /\ \A s, t \in WithDirectory : CtlDir[s] = CtlDir[t] => s = t

EndsClean == ServedReachable /\ NothingLeft

(***************************************************************************)
(* "check to see if given unix socket is still in use; if it isn't, remove *)
(* the socket from the file system" (winvde_sockutils.c:16): no start is   *)
(* refused for the socket of a switch that has crashed.                    *)
(***************************************************************************)
RefusedOnlyInUse == \A s \in Switches : refused[s] # "stale"
=============================================================================
