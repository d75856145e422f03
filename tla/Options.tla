--------------------------------- MODULE Options ---------------------------------
(***************************************************************************)
(* The command line of the switch: ParseArguments puts the options of the  *)
(* program and of its modules into one table, getopt_long (the project's   *)
(* own, winvde_getopt.c) reads one option after the other, and each goes   *)
(* to the function that knows it.  Letters and numbers of options are not  *)
(* unique (three options are 0x100): those of a module carry its tag in    *)
(* the table, but what is read as a letter has none.                       *)
(*                                                                         *)
(* A word of the command line is <<"--", name>>, an option by its name;    *)
(* <<"-", letter>>, or <<"-", letter, rest>> with text behind the letter,  *)
(* its value or further letters; or <<"", text>>, which is no option.  A   *)
(* letter is one character and so never a number of a long option.         *)
(***************************************************************************)
EXTENDS Naturals, Sequences, SequencesExt

CONSTANTS
  LineWords,      \* the words that are given
  MaxWords,   \* bound: how many
  GoodValues  \* values that are numbers, addresses and names of groups

ASSUME OptionsAssumption ==
  /\ MaxWords \in Nat
  /\ \A v \in GoodValues : v[1] = ""
  /\ \A w \in LineWords :
       Len(w) \in {2, 3} /\ (w[1] = "-" => w[2] \notin {"0x100", "0x101", "0x102"})

VARIABLES
  line,      \* the words
  optind,    \* where getopt_long is
  settings,  \* settings[o]: the values in force for option o
  optPhase    \* how far ParseArguments is

optVars == <<line, optind, settings, optPhase>>

\* An entry of a table: its module, its value in the switches, has_arg, names.
OptionEntry(m, v, arg, names) == [mod |-> m, val |-> v, arg |-> arg, names |-> names]

GlobalOptions == {
  OptionEntry("global", "h", FALSE, {"help"}), OptionEntry("global", "x", FALSE, {"hub"}),
  OptionEntry("global", "v", FALSE, {"version"}), OptionEntry("global", "n", TRUE, {"numports"}),
  OptionEntry("global", "0x100", TRUE, {"hashsize"}), OptionEntry("global", "0x101", TRUE, {"macaddr"})}

DatasockOptions == {
  OptionEntry("datasock", "s", TRUE, {"sock", "vdesock", "unix"}),
  OptionEntry("datasock", "m", TRUE, {"mod", "mode"}),
  OptionEntry("datasock", "0x100", TRUE, {"dirmode"}), OptionEntry("datasock", "g", TRUE, {"group"})}

\* debugclients is in the table and in the usage, and nothing takes it.
MgmtOptions == {
  OptionEntry("mgmt", "d", FALSE, {"daemon"}), OptionEntry("mgmt", "p", TRUE, {"pidfile"}),
  OptionEntry("mgmt", "f", TRUE, {"rcfile"}), OptionEntry("mgmt", "M", TRUE, {"mgmt"}),
  OptionEntry("mgmt", "0x100", TRUE, {"mgmtmode"}), OptionEntry("mgmt", "0x101", TRUE, {"mgmtgroup"}),
  OptionEntry("mgmt", "0x102", FALSE, {"nostdin"}), OptionEntry("mgmt", "D", TRUE, {"debugclients"})}

TapOptions == {OptionEntry("tuntap", "t", TRUE, {"tap"})}

OptionTable == GlobalOptions \cup DatasockOptions \cup MgmtOptions \cup TapOptions

\* What each function takes: parse_globopt and the modules' parse_options.
Takes == [
  global   |-> {"h", "x", "v", "n", "0x100", "0x101"},
  datasock |-> {"s", "m", "g", "0x100"},
  mgmt     |-> {"d", "p", "f", "M", "0x100", "0x101", "0x102"},
  tuntap   |-> {"t"}]

\* The settings: the options that something takes.
Settings == UNION {{<<m, v>> : v \in Takes[m]} : m \in DOMAIN Takes}

-----------------------------------------------------------------------------
OptInit ==
  /\ line = << >> /\ optind = 1
  /\ settings = [o \in Settings |-> << >>]
  /\ optPhase = "start"

\* The command line is whatever the user writes.
GiveWord(w) ==
  /\ optPhase = "start" /\ Len(line) < MaxWords
  /\ line' = Append(line, w)
  /\ UNCHANGED <<optind, settings, optPhase>>

StartParse ==
  /\ optPhase = "start" /\ optPhase' = "parsing"
  /\ UNCHANGED <<line, optind, settings>>

-----------------------------------------------------------------------------
NoValue == << >>
On == <<"on">>

IsLong(w) == w[1] = "--"
IsLetter(w) == w[1] = "-"
ValueText(w) == <<"", w>>

Known(w) ==
  IF IsLong(w) THEN \E e \in OptionTable : w[2] \in e.names
  ELSE IsLetter(w) /\ \E e \in OptionTable : w[2] = e.val

\* The first entry of the table that fits, by the name or by the letter.
EntryOf(w) ==
  CHOOSE e \in OptionTable : IF IsLong(w) THEN w[2] \in e.names ELSE w[2] = e.val

\* The word takes the next one for its value; it has more letters behind it.
TakesNext(w) == Known(w) /\ EntryOf(w).arg /\ Len(w) = 2
Grouped(w) == IsLetter(w) /\ Len(w) = 3 /\ (Known(w) => ~EntryOf(w).arg)

(***************************************************************************)
(* getopt_long for a word that it knows: the value, with the tag of the    *)
(* module if it was found by its name, and optarg.                         *)
(***************************************************************************)
GetoptLong(w) ==
  [tag |-> IF IsLong(w) THEN EntryOf(w).mod ELSE "global",
   val |-> EntryOf(w).val,
   arg |-> IF TakesNext(w) /\ optind < Len(line) THEN line[optind + 1]
           ELSE IF EntryOf(w).arg /\ Len(w) = 3 THEN ValueText(w[3]) ELSE NoValue]

\* A bug: the first function that knows the value takes it, whatever its tag.
OwnerUntagged(o, m) == o.val \in Takes[m]

(***************************************************************************)
(* parse_globopt is asked first, then the modules in their order; a value  *)
(* with a tag goes to that module only.  No letter is known to two.        *)
(***************************************************************************)
Owner(o, m) ==
  /\ o.val \in Takes[m]
  /\ o.tag = m \/ (o.tag = "global" /\ o.val \notin {"0x100", "0x101", "0x102"})

\* The options whose value is scanned for a number; a bad one changes nothing.
Numbers == {<<"global", "n">>, <<"global", "0x100">>, <<"datasock", "m">>,
            <<"datasock", "0x100">>, <<"mgmt", "0x100">>}
\* Those with an address or a group; a bad one ends the switch.
Checked == {<<"global", "0x101">>, <<"datasock", "g">>, <<"mgmt", "0x101">>}
\* help and version print and exit.
Prints == {<<"global", "h">>, <<"global", "v">>}
Flags == {<<"global", "x">>, <<"mgmt", "d">>, <<"mgmt", "0x102">>}
\* Where strdup gives NULL the management keeps it, and the tap has no name.
MayBeNull == {<<"mgmt", "p">>, <<"mgmt", "f">>, <<"mgmt", "M">>, <<"tuntap", "t">>}

Ends(o, v) ==
  \/ o \in Prints
  \/ o \in Checked /\ v \notin GoodValues
  \/ v = NoValue /\ o \notin Flags \cup MayBeNull

\* The setting of o when v is given; every tap is added to a list.
SetTo(o, v) ==
  IF o = <<"tuntap", "t">> THEN Append(settings[o], v)
  ELSE IF o \in Flags THEN <<On>>
  ELSE IF v = NoValue \/ (o \in Numbers /\ v \notin GoodValues)
       THEN IF v = NoValue THEN << >> ELSE settings[o]
  ELSE <<v>>

-----------------------------------------------------------------------------
Reading == optPhase = "parsing" /\ optind <= Len(line)
EndSwitch == optPhase' = "ended" /\ UNCHANGED <<line, optind, settings>>

\* A value that getopt_long does not find: the letter is passed over.
NoValueBehind(w) == IsLetter(w) /\ TakesNext(w) /\ optind = Len(line)

(***************************************************************************)
(* A round of ParseArguments.  Of a group of letters getopt_long reads the *)
(* first and keeps no place: the next call reads it again, and again.      *)
(***************************************************************************)
ReadOption ==
  /\ Reading /\ Known(line[optind]) /\ ~NoValueBehind(line[optind])
  /\ LET w == line[optind]
         c == GetoptLong(w)
         owners == {m \in DOMAIN Takes : Owner(c, m)}
         o == <<CHOOSE m \in owners : TRUE, c.val>>
     IN IF owners # {} /\ Ends(o, c.arg) THEN EndSwitch
        ELSE /\ settings' = IF owners = {} THEN settings
                            ELSE [settings EXCEPT ![o] = SetTo(o, c.arg)]
             /\ optind' = optind + (IF TakesNext(w) THEN 2 ELSE IF Grouped(w) THEN 0 ELSE 1)
             /\ optPhase' = IF Grouped(w) THEN "looping" ELSE optPhase
             /\ UNCHANGED line

\* A letter without its value, or one in no table: a message, and on.
SkipLetter ==
  /\ Reading /\ IsLetter(line[optind])
  /\ ~Known(line[optind]) \/ NoValueBehind(line[optind])
  /\ optind' = optind + (IF Grouped(line[optind]) THEN 0 ELSE 1)
  /\ optPhase' = IF Grouped(line[optind]) THEN "looping" ELSE optPhase
  /\ UNCHANGED <<line, settings>>

\* getopt_long returns -1 before the end of the line: the usage, and exit.
NoMoreOptions ==
  /\ Reading /\ ~Known(line[optind]) /\ ~IsLetter(line[optind])
  /\ EndSwitch

OptionsParsed ==
  /\ optPhase = "parsing" /\ optind > Len(line) /\ optPhase' = "done"
  /\ UNCHANGED <<line, optind, settings>>

OptNext ==
  \/ \E w \in LineWords : GiveWord(w)
  \/ StartParse
  \/ ReadOption \/ SkipLetter \/ NoMoreOptions \/ OptionsParsed

OptSpec == OptInit /\ [][OptNext]_optVars

-----------------------------------------------------------------------------
OptTypeOK ==
  /\ line \in Seq(LineWords) /\ optind \in 1 .. Len(line) + 2
  /\ settings \in [Settings -> Seq(LineWords \cup {NoValue, On} \cup
                                   {ValueText(w[3]) : w \in {x \in LineWords : Len(x) = 3}})]
  /\ optPhase \in {"start", "parsing", "done", "ended", "looping"}

(***************************************************************************)
(* When the switch starts with its command line, each option has the value *)
(* that was given last, as read from left to right by the table of its own *)
(* module, taps all of them, and no other option has one.  This is about   *)
(* the numbers that modules share and the words that getopt_long takes.    *)
(***************************************************************************)
Begins(words) ==
  LET b[i \in 1 .. Len(words)] == i = 1 \/ ~(b[i - 1] /\ TakesNext(words[i - 1])) IN b

ValueAt(words, i) ==
  IF ~EntryOf(words[i]).arg THEN On
  ELSE IF TakesNext(words[i]) THEN words[i + 1] ELSE ValueText(words[i][3])

\* Word i gives o a value, and one that o takes.
Gives(words, i, o) ==
  /\ Begins(words)[i] /\ Known(words[i])
  /\ <<EntryOf(words[i]).mod, EntryOf(words[i]).val>> = o
  /\ TakesNext(words[i]) => i < Len(words)
  /\ o \in Numbers => ValueAt(words, i) \in GoodValues

\* The values that the first words give to o, by their number.
Given(words, o) ==
  LET given[i \in 0 .. Len(words)] ==
        IF i = 0 THEN << >>
        ELSE IF Gives(words, i, o) THEN Append(given[i - 1], ValueAt(words, i))
        ELSE given[i - 1]
  IN given

\* What is in force of the values that were given: every tap, else the last.
InForce(o, given) ==
  IF o = <<"tuntap", "t">> \/ given = << >> THEN given ELSE <<Last(given)>>

OptionsReachOwner ==
  optPhase = "done" /\ optind = Len(line) + 1 =>
    \A o \in Settings : settings[o] = InForce(o, Given(line, o)[Len(line)])
=============================================================================
