---------------------------------- MODULE Plug ----------------------------------
(***************************************************************************)
(* The program winvde_plug up to the loop that moves frames: it goes       *)
(* through its arguments (GetOptions), opens the one or two URLs in them   *)
(* with the client library (winvde.c), and ends with the clean-up.         *)
(*                                                                         *)
(* The library finds the library of a plug module, loads it and gives a    *)
(* handle with its functions; it does not call the module's own open.  So  *)
(* a handle has no sockets, and no frame is moved.                         *)
(***************************************************************************)
EXTENDS Naturals, Sequences, SequencesExt

CONSTANTS
  PlugWords,   \* what may be on the command line, behind the program's name
  MaxArgs,     \* bound: the words on it
  UrlModule,   \* UrlModule[w]: the plug module that word w leads to as a URL
  Complete,    \* the modules whose library has all the functions
  PluginPath,  \* the directories in WINVDEPLUGIN_PATH, << >> if it is not set
  SameDir,     \* the directory of the program
  Installed,   \* Installed[d]: the modules whose library is in directory d
  NotGiven

\* Those without a value, given once at most, and those with one; only -p may
\* be given again, as DoPidFile is never set.
PlugFlags == {"-d", "-l", "-L"}
PlugOnce == {"-g", "-G", "-m", "-M", "-x", "-X", "-D"}
PlugValued == PlugOnce \cup {"-p"}

PlugModules == {UrlModule[w] : w \in PlugWords}

ASSUME PlugAssumption ==
  /\ DOMAIN UrlModule = PlugWords /\ NotGiven \notin PlugWords
  /\ MaxArgs \in Nat

VARIABLES
  argv,      \* the words
  at,        \* index
  plugOpt,   \* plugOpt[o]: the value of option o, or NotGiven
  lastdash,
  first_arg, \* 0, or where the words of the command begin: equals is first_arg # 0
  urls,      \* winvde_url1 and winvde_url2
  plugMode,  \* how far main is
  handles,      \* connection1 and connection2: the modules they are handles to
  loads      \* references to each module's library

plugVars == <<argv, at, plugOpt, lastdash, first_arg, urls, plugMode, handles, loads>>
PlugModes == {"start", "options", "refused", "open", "idle", "none", "plug", "command",
              "stream", "second", "crashed"}

-----------------------------------------------------------------------------
PlugInit ==
  /\ argv = << >> /\ at = 1
  /\ plugOpt = [o \in PlugFlags \cup PlugValued |-> NotGiven]
  /\ lastdash = FALSE /\ first_arg = 0
  /\ urls = << >>
  /\ plugMode = "start"
  /\ handles = << >> /\ loads = [m \in PlugModules |-> 0]

\* The command line is whatever the user writes.
GiveArg(w) ==
  /\ plugMode = "start" /\ Len(argv) < MaxArgs
  /\ argv' = Append(argv, w)
  /\ UNCHANGED <<at, plugOpt, lastdash, first_arg, urls, plugMode, handles, loads>>

StartPlug ==
  /\ plugMode = "start" /\ plugMode' = "options"
  /\ UNCHANGED <<argv, at, plugOpt, lastdash, first_arg, urls, handles, loads>>

\* One round of the loop of GetOptions that takes n words and does not exit.
ReadsWord(n) ==
  /\ plugMode = "options" /\ at <= Len(argv)
  /\ at' = at + n
  /\ UNCHANGED <<argv, plugMode, handles, loads>>

\* exit, with nothing opened.
RefuseArgs ==
  /\ plugMode' = "refused"
  /\ UNCHANGED <<argv, at, plugOpt, lastdash, first_arg, urls, handles, loads>>

InOptions == ~lastdash /\ first_arg = 0
Word == argv[at]
IsOption == Word \in PlugFlags \cup PlugValued

PlugFlag ==
  /\ ReadsWord(1) /\ InOptions /\ Word \in PlugFlags /\ plugOpt[Word] = NotGiven
  /\ plugOpt' = [plugOpt EXCEPT ![Word] = Word]
  /\ UNCHANGED <<lastdash, first_arg, urls>>

\* The next word is the value, whatever it is.
PlugValue ==
  /\ ReadsWord(2) /\ InOptions /\ at < Len(argv)
  /\ Word \in PlugValued /\ (Word \in PlugOnce => plugOpt[Word] = NotGiven)
  /\ plugOpt' = [plugOpt EXCEPT ![Word] = argv[at + 1]]
  /\ UNCHANGED <<lastdash, first_arg, urls>>

\* An option again, or without its value.
BadOption ==
  /\ plugMode = "options" /\ at <= Len(argv) /\ InOptions
  /\ \/ Word \in PlugFlags \cup PlugOnce /\ plugOpt[Word] # NotGiven
     \/ Word \in PlugValued /\ at = Len(argv)
  /\ RefuseArgs

LoneDash ==
  /\ ReadsWord(1) /\ InOptions /\ Word = "-"
  /\ lastdash' = TRUE
  /\ UNCHANGED <<plugOpt, first_arg, urls>>

(***************************************************************************)
(* The test for "=" among the options is the wrong way round: "=" is       *)
(* passed over, and any other word that is no option counts as "=".        *)
(***************************************************************************)
EqualsPassedOver ==
  /\ ReadsWord(1) /\ InOptions /\ Word = "="
  /\ UNCHANGED <<plugOpt, lastdash, first_arg, urls>>

\* A bug: the command begins with the "=" itself.
CommandFromEquals ==
  /\ ReadsWord(1) /\ first_arg = 0
  /\ IF lastdash THEN Word = "=" ELSE ~IsOption /\ Word \notin {"-", "="}
  /\ first_arg' = at
  /\ UNCHANGED <<plugOpt, lastdash, urls>>

CommandBegins ==
  /\ ReadsWord(1) /\ first_arg = 0
  /\ IF lastdash THEN Word = "=" ELSE ~IsOption /\ Word \notin {"-", "="}
  /\ first_arg' = at + 1
  /\ UNCHANGED <<plugOpt, lastdash, urls>>

CommandWord ==
  /\ ReadsWord(1) /\ first_arg # 0 /\ Word # "="
  /\ UNCHANGED <<plugOpt, lastdash, first_arg, urls>>

UrlWord ==
  /\ ReadsWord(1) /\ lastdash /\ first_arg = 0 /\ Word # "=" /\ Len(urls) < 2
  /\ urls' = Append(urls, Word)
  /\ UNCHANGED <<plugOpt, lastdash, first_arg>>

\* "=" again.
BadWord ==
  /\ plugMode = "options" /\ at <= Len(argv)
  /\ first_arg # 0 /\ Word = "="
  /\ RefuseArgs

\* A third URL: fprintf is given the text of the message for its FILE.
ThirdUrl ==
  /\ plugMode = "options" /\ at <= Len(argv)
  /\ lastdash /\ first_arg = 0 /\ Word # "=" /\ Len(urls) = 2
  /\ plugMode' = "crashed"
  /\ UNCHANGED <<argv, at, plugOpt, lastdash, first_arg, urls, handles, loads>>

\* The words that GetOptions puts together in command.
Command == IF first_arg = 0 THEN << >> ELSE SubSeq(argv, first_arg, Len(argv))

\* Without a URL there is nothing to do.
OptionsRead ==
  /\ plugMode = "options" /\ at > Len(argv)
  /\ plugMode' = IF urls = << >> THEN "idle" ELSE "open"
  /\ UNCHANGED <<argv, at, plugOpt, lastdash, first_arg, urls, handles, loads>>

-----------------------------------------------------------------------------
(***************************************************************************)
(* winvde_open_module.  LoadLibrary does not set errno, which is never     *)
(* EPROTONOSUPPORT here, so the directories in WINVDEPLUGIN_PATH are all   *)
(* searched; without that variable the search ends with the first          *)
(* directory, that of the program.                                         *)
(***************************************************************************)
SearchedDirs == IF PluginPath = << >> THEN {SameDir} ELSE ToSet(PluginPath)

\* winvde_open_module_lib: the library needs all the functions, or is let go.
OpensModule(m) == m \in Complete /\ \E d \in SearchedDirs : m \in Installed[d]

\* What winvde_open_real makes of a URL: the default module, or the module
\* that is named in a file.
OpensUrl(w) == OpensModule(UrlModule[w])

OpenFails(i) ==
  /\ plugMode = "open" /\ Len(handles) = i - 1 /\ i <= Len(urls) /\ ~OpensUrl(urls[i])
  /\ plugMode' = IF i = 1 THEN "none" ELSE "plug"
  /\ UNCHANGED <<argv, at, plugOpt, lastdash, first_arg, urls, handles, loads>>

OpenWorks(i) ==
  /\ plugMode = "open" /\ Len(handles) = i - 1 /\ i <= Len(urls) /\ OpensUrl(urls[i])
  /\ handles' = Append(handles, UrlModule[urls[i]])
  /\ loads' = [loads EXCEPT ![UrlModule[urls[i]]] = @ + 1]
  /\ plugMode' = IF i = 2 THEN "second"
                 ELSE IF Len(urls) = 2 THEN "open"
                 ELSE IF Command # << >> THEN "command" ELSE "stream"
  /\ UNCHANGED <<argv, at, plugOpt, lastdash, first_arg, urls>>

(***************************************************************************)
(* winvde_plugcleanup at the end, for the handle next to close: the        *)
(* module's winvde_vde_close lets go of the library, while it runs in it,  *)
(* and winvde_close lets go of it again.  With a command it may not come   *)
(* to that: plug2cmd takes the text of the command for an array of words.  *)
(***************************************************************************)
CloseHandle ==
  /\ plugMode \in {"plug", "command", "stream", "second"} /\ handles # << >>
  /\ IF loads[Head(handles)] < 2
     THEN /\ plugMode' = "crashed"
          /\ UNCHANGED <<handles, loads>>
     ELSE /\ handles' = Tail(handles)
          /\ loads' = [loads EXCEPT ![Head(handles)] = @ - 2]
          /\ UNCHANGED plugMode
  /\ UNCHANGED <<argv, at, plugOpt, lastdash, first_arg, urls>>

PlugNext ==
  \/ \E w \in PlugWords : GiveArg(w)
  \/ StartPlug
  \/ PlugFlag \/ PlugValue \/ BadOption \/ LoneDash \/ EqualsPassedOver
  \/ CommandBegins \/ CommandWord \/ UrlWord \/ BadWord \/ ThirdUrl
  \/ OptionsRead
  \/ \E i \in 1 .. 2 : OpenFails(i) \/ OpenWorks(i)
  \/ CloseHandle

PlugSpec == PlugInit /\ [][PlugNext]_plugVars

-----------------------------------------------------------------------------
PlugTypeOK ==
  /\ argv \in Seq(PlugWords) /\ at \in 1 .. Len(argv) + 2
  /\ plugOpt \in [PlugFlags \cup PlugValued -> PlugWords \cup {NotGiven}]
  /\ lastdash \in BOOLEAN /\ first_arg \in 0 .. Len(argv) + 1
  /\ urls \in Seq(PlugWords) /\ Len(urls) <= 2
  /\ plugMode \in PlugModes
  /\ handles \in Seq(PlugModules) /\ loads \in [PlugModules -> 0 .. 2]

(***************************************************************************)
(* Whatever the arguments: the words behind a lone dash are the URLs, then *)
(* "=" and the command, in order and with none lost; and the value of an   *)
(* option is the word behind it.  What is opened are the modules of the    *)
(* URLs, one reference each.                                               *)
(***************************************************************************)
BehindDash ==
  lastdash => \E d \in 1 .. at - 1 :
    /\ argv[d] = "-"
    /\ SubSeq(argv, d + 1, at - 1) =
         urls \o (IF first_arg = 0 THEN << >>
                  ELSE <<"=">> \o SubSeq(argv, first_arg, at - 1))

ValuesBehind ==
  \A o \in PlugValued : plugOpt[o] # NotGiven =>
    \E j \in 1 .. at - 2 : argv[j] = o /\ argv[j + 1] = plugOpt[o]

PlugAsGiven ==
  /\ plugMode # "refused" => BehindDash /\ ValuesBehind
  /\ plugMode \in {"stream", "command", "second"} /\ Len(handles) = Len(urls) =>
       \A m \in PlugModules :
         loads[m] = Cardinality({i \in DOMAIN urls : UrlModule[urls[i]] = m})
=============================================================================
