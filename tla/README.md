# A verification project for winvde_switch

`winvde` brings VDE, a virtual Ethernet, to Windows. Its heart is
`src/winvde_switch`, a process that plays an Ethernet switch: programs connect
to it over local sockets, are given a port, and send and receive frames through
it; managers connect to a second socket and give commands. This directory
models the switch, and the parts of its clients that keep state, in TLA+,
checks the models with TLC on small instances and proves every invariant the passing runs
check, and that the MAC table implements its map, with TLAPS for all sizes that the
modules' assumptions allow.

## The system

The switch is **one thread**. `main_loop` polls its sockets and calls the
handler of the module that a socket belongs to; once per turn it takes one
message of the window queue, and `WM_TIMER`, once a second, calls `sig_alarm`.
No handler is interrupted, so a handler is an action of a model. What makes the
code hard is not parallelism but *sequences*: seven handlers keep three sets
per VLAN in step, tables are indexed by numbers that are used again, entries are
removed while a loop walks over them, and error paths undo half of what was done.

| Component | State | Operations | Model |
|---|---|---|---|
| port table, VLANs (`winvde_port.c`) | `portv`, `numports`, `vlant[].table/bctag/bcuntag`, `validvlan` | `port/*` and `vlan/*` commands, `setup_ep`, `close_ep`, `alloc_port` | `SwitchPorts` |
| forwarding (`winvde_port.c`) | none of its own | `handle_in_packet`, `send_packet_port` | `Forwarding`, `SwitchPorts` (learning) |
| MAC table (`winvde_hash.c`) | `hash_head`, entries with `next` and `prev`, `hash_bits`, `min_persistence` | `find_in_hash_update`, `hash_delete_port`, `hash_resize`, `find_in_hash` | `MacTable`, `MacMap` |
| collector (`winvde_gc.c`) | `gc_interval`, `gc_timer_no` | `hash_gc`, `hash_set_gc_interval` | `MacTable`, `QTimer` |
| timers (`winvde_qtimer.c`) | `qt_head`, `qt_free`, `g_qtime` | `sig_alarm`, `qtimer_add`, `qtimer_del` | `QTimer` |
| descriptor table (`winvde_descriptor.c`) | `fds`, `fdpp`, `nprio`, `fdperm` | `add_fd`, `remove_fd`, `mainloop_set_private_data` | `Descriptors` |
| main loop (`winvde_switch.c`) | `pollable_fds`, `last_descriptor_count` | poll, dispatch | `DataSock` |
| data sockets (`winvde_datasock.c`) | connections, endpoints | accept, request, end of file, frame | `DataSock` |
| management (`winvde_mgmt.c`) | connections, sessions | accept, command, `logout`, `shutdown`, end of file, reset | `DataSock` (descriptors), `Management` (sessions) |
| debug options (`winvde_debugopt.c`, `winvde_debugcl.c`) | `dbg_cl` with an array of descriptors per class | `debugadd`, `debugdel`, `debuglist` | `Management` |
| scripts (`runscript`, `validatescript`) | the line in the buffer, the comment flag | rc file, `load` | `Scripts` |
| packet queues (`winvde_packetq.c`) | a queue per endpoint, shared buffers | `vdepq_add`, `vdepq_try`, `vdepq_del` | `PacketQueues` |
| bit arrays (`bitarray.h`) | words | allocate, grow, set, clear, check, visit | `BitArrays` |
| plugins (`winvde_plugin.c`) | list of plugins, references to libraries | `plugin/add`, `plugin/del`, `plugin/list` | `Plugins` |
| taps (`winvde_tuntap.c`) | `hinit_tap`, adapter, session, socket, endpoint | `taptun_init`, `newtap`, `taptun_delep` | `Tap` |
| start and end (`main`, `init_mods`, `CleanUp`) | control directory, sockets, pid file | init and cleanup functions of the modules | `Lifecycle` |
| command line (`ParseArguments`, `winvde_getopt.c`) | `optind`, the settings | one round per option | `Options` |
| network names (`WinVde/parseparameters.c`) | `saveptr`, the values of the tags | `winvde_parseparameters`, `winvde_parsepathparameters` | `Parameters` |
| client library and `winvde_plug` | handles, references to the plug module | arguments, `winvde_open_real`, `winvde_close` | `Plug` |
| terminal (`winvde_term`, `winvde_hist`) | line editor, history, `linebuf` | keys, `addCommandHistory`, `vdehist_term_to_mgmt` | `Terminal` |
| replies (`winvde_hist`) | `vindata`, `commandlist`, what has arrived | `vdehist_create_commandlist`, `vdehist_mgmt_to_term` | `Replies` |

How they interact: the main loop calls `datasock_handle_io` and
`mgmt_handle_io`; a request calls `setup_ep` (port table), then `add_fd` for the
data socket and `mainloop_set_private_data` for the control connection; a frame
calls `handle_in_packet`, which learns in the MAC table and sends through
`port->ms->sender`; the end of a connection calls `close_ep`, which unplugs the
endpoint (port table, flooding sets, MAC table) and calls `remove_fd` twice; a
command calls one handler of the port, VLAN or hash table; the timer calls the
collector, which walks the MAC table. `send_packet_port` puts a frame that a
sender blocks on into the endpoint's queue, which the main loop empties when the
socket takes more. `winvde_term` is a process of its own: its lines reach
`mgmt_handle_io` over the management socket and the answers come back on it,
between them the debug messages of the classes the connection subscribed to.
`winvde_plug` opens its URLs through the client library, which takes the name apart
(`Parameters`) and loads a plug module.

`PROJECT.json` lists every component, those that are not modelled with the
reason, and the hazards of the code at their lines.

## Modules

* **`SwitchPorts`** - the port table. State: `portv` (a port or NULL), the three
  sets of each VLAN, `validvlan`, the MAC table as a map, and whether the process
  still runs. One action per command (`PortSetNumPorts`, `PortSetHub`,
  `PortSetVlan`, `PortCreateAuto`, `PortCreate`, `PortAllocatable`,
  `PortSetUser`, `PortSetGroup`, `EpClose`, `VlanCreate`, `VlanRemove`,
  `VlanAddPort`, `VlanDelPort`, `HashResize`) and one each for plugging
  (`SetupEp`), unplugging (`CloseEp`) and a frame (`HandleInPacket`).
  `alloc_port` is a function of the state, used by three of them. A refused
  command is a stuttering step. Where the code would use a null pointer the
  process ends (`Fault`).
* **`Forwarding`** - the frames `handle_in_packet` sends, as functions of the port
  table's state: `FrameVlan` classifies (it is in `SwitchPorts`, where learning
  needs it), `Flood`, `Direct` and `Hub` give pairs of a port and the frame sent to
  it, `Sent` chooses between them. A frame is the sequence of its 4-byte words,
  which is the step by which `TAG2UNTAG` and `UNTAG2TAG` move the addresses, so what
  the macros overwrite is visible. Whether the destination is found in the MAC
  table is left open (`Answers`): `mac_lookup` shows that the code never finds one, and
  the properties hold of the path that is then dead, too.
* **`MacTable`** - the hash table as pointers: an array of chains over a heap of
  cells, where `prev` is the address of the pointer to an entry. **`MacMap`** is
  its abstract specification: a map from addresses to ports with an age.
  `MacTable` implements it (`ImplementsMap`); `SwitchPorts` uses the same map,
  with the age left open.
* **`QTimer`** - the array of timers and the free list, with the collector's
  interval as the client. Times are relative to `g_qtime`.
* **`Descriptors`** - the descriptor table as a record, with `AddFd`, `RemoveFd`
  and `SetPrivateData` as functions on it, as a handler calls several in a row.
* **`DataSock`** - main loop, data sockets and management connections, composed
  over `Descriptors`. A request has five outcomes (`RequestInvalid`,
  `RequestRecvFails`, `RequestRefused`, `RequestFails`, `RequestGranted`), each the
  whole handler with every `remove_fd` that its error path makes. The entries that
  stand are the two listening sockets and the console's: `--nostdin` sets a flag that
  nobody tests (`winvde_mgmt.c:209,228`) and `--daemon` ends the process
  (`winvde_mgmt.c:243-248`), so every switch that gets to its main loop has one. Its
  number is `INVALID_SOCKET`, with which `add_fd` indexes `fdperm` all the same
  (`winvde_descriptor.c:74`): its index lies in front of the array, a cell of its own in
  the model, and the heap that is damaged by it may end the process when an array next
  grows (`AddFdFaults`).
* **`Scripts`** - `runscript` over a file of lines, as its loop goes: `buf` is the
  line in the buffer, `Fgets` the look-ahead, `ran` what `handle_cmd` is given.
  One action per turn of the loop: `SkipLine`, `EnterComment`, `ScanOn`,
  `LeaveComment`, `TakeCommand`, `EndPass`; a script is walked twice, as
  `runscript` validates it first.
* **`Management`** - sessions and the debug classes. A session ends with `logout`
  or a handler that returns -1 (`Logout`), with the process (`Shutdown`), with the
  manager's end of file (`MgmtEof`) or not at all (`MgmtReset`: `recv` returns -1
  and nothing is removed). The array of a class is kept as the code keeps it,
  with the last entry in the place of a deleted one.
* **`PacketQueues`** - the queue of each endpoint, the shared copies of frames with
  their counts, and `POLLOUT` in `fds`. `SendPacket` is one call of
  `handle_in_packet` for one form of the frame, to any endpoints of which any block.
* **`BitArrays`** - a `ba_` and a `bac_` array as words of `Bits` bits, with the
  sets they stand for beside them (`xset`, `vset`).
* **`Plugins`** - the list of plugins and the references to libraries. Every
  outcome of `pluginadd` is an action: no plugin in the library, a name without the
  prefix, another name, a plugin that is there, a new one.
* **`Tap`** - `newtap` takes six resources in turn; `NewTapFails(k)` is the jump to
  the label that gives back what was taken before step `k`.
* **`Lifecycle`** - several switches on one file system, each through the phases of
  `main`: directory, `ctl.sock`, management socket, service, the clean-up of the
  descriptors, of the modules. Each step can fail, and a switch can crash in any.
* **`Options`** - the table of options with the module each belongs to, and one
  round of `getopt_long` and of the functions that are asked for the option. What an
  option *should* set (`Given`) is a reading of the whole line, apart from the parser.
* **`Parameters`** - the automaton of `parseparameters.c` as its two tables
  (`nextstate`, `copied`), `Scan` and the loop over the elements; `Written` is the
  reverse, how a value is put into a name plain, quoted or escaped.
* **`Plug`** - the arguments of `winvde_plug`, word by word, the opening of the URLs
  and the closing of handles with the references to the plug module.
* **`Terminal`** - the buffer of the line editor with its cursor, the keys, the
  history with checksums, and `SendLine`, by which a line goes to the switch.
  `meant` is the line as the keys mean it.
* **`Replies`** - lines on their way from the switch, the list of commands made from
  the first reply, and the flag that tells data from other lines.
* **`PartsMC`** - `QTimer` and the twelve modules from `Scripts` on side by side. As far as they
  are modelled they share no state with one another or with the switch's tables, so a behaviour
  picks one (`part`) and takes the steps of that one; a run explores each by itself.
* **`DataSockMC`, `MacTableMC`, `QTimerMC`, `SwitchPortsMC`** - instances for TLC.
* **`SwitchPorts_proofs`** (with `Forwarding`), **`DataSock_proofs`** (with
  `Descriptors`), **`QTimer_proofs`**, **`MacTable_proofs`** - the theorems about the
  switch's own tables. **`Parts_proofs`** - those about managers, plugins, taps, start
  and end, bit arrays, packet queues and the command line; **`Clients_proofs`** - those
  about scripts, `winvde_plug`, the terminal, the replies it shows and network names.
  **`PartsMC_proofs`** carries both over to the composition. **`ListsAndLoops`** - the
  lemmas they share.

## Runs

| Run | What it shows |
|---|---|
| `ports_vlan` | Flooding sets, VLAN tables and MAC table stay consistent, and no port is beyond the array. In each of these states frames stay in their VLAN and never go back, a flooded frame reaches every port of its VLAN once, and a port is sent the form it takes. |
| `ports_access` | A shared port has one user; a port is opened by a user it admits; a port has a module while it has an endpoint. |
| `ports_createauto` | *violated*: with all ports in use `port/createauto` changes port 1. |
| `ports_create` | *violated*: after VLAN 0 was removed while empty, `port/create` ends the process. |
| `forwarding_tags` | *violated*: an untagged frame gets no tag for the ports that take its VLAN tagged. |
| `descriptors` | Priority entries stay in front and data sockets are found through `fdperm`, a grant writes inside `fdpp`; each descriptor has one entry; the poll array is complete but for the console. All this with the console's entry in the table. |
| `descriptors_lookup` | *violated*: a granted request may write another entry. |
| `timers_interval` | *violated*: an older interval's timer may stay alive. |
| `mac_table` | The chains are well linked and implement the map. |
| `mac_lookup` | *violated*: the lookup of a learned address finds nothing. |
| `parts` | Thirteen components, each by itself; see the next table. |
| `restart` | *violated*: after a crash no switch with the same directory or management socket can start. |

| Property of `parts` | Component | What it says |
|---|---|---|
| `ScriptRunsAsWritten` | `Scripts` | No line that lies wholly inside a comment is run, a command in front of the end of a comment is; lines run in the file's order, and a command behind a command is run. |
| `ScriptEnds` | `Scripts` | A script whose comments are closed is read to its end (liveness). |
| `SubscribersAsAsked` | `Management` | Each class sends its messages once to exactly the open connections that asked for them, whichever way sessions end. |
| `PluginsHeld` | `Plugins` | As long as libraries are asked for by names with `winvde_`, a plugin is on the list once and held by one reference; deleted or refused ones are let go. |
| `QueuesShareBuffers` | `PacketQueues` | A shared buffer is freed with its last use, frames do not change places, and `POLLOUT` is set exactly for those with something to send. |
| `BitsAreSets` | `BitArrays` | Through any growth the arrays are the sets they stand for, as long as members have bits of their own. |
| `TapsWhole` | `Tap` | Whatever fails in `newtap`, a tap has all of its resources or none. |
| `EndsClean` | `Lifecycle` | No switch takes a socket from one that serves, and an orderly end leaves nothing behind. |
| `LineAsMeant` | `Terminal` | What the switch gets is the line the keys mean, up to the cursor; the history holds every entry it should. |
| `RepliesShown` | `Replies` | Wherever the first reply is cut, the later ones are shown whole, in order and once. |
| `ParametersAsAsked` | `Parameters` | A value arrives as it was meant, however it is protected, at its own tag. |
| `PlugAsGiven` | `Plug` | What stands behind a lone dash are the URLs and the command, an option's value is the word behind it; what is opened are the modules of the URLs, one reference each. |
| `OptionsReachOwner` | `Options` | Each option of each module has the value given for it last, although modules share numbers. |
| `StructsApart` | `QTimer` | No struct is in two places, however ticks and changes of the interval recycle them. |
| `DueWithinPeriod` | `QTimer` | A live timer is called within its period. |
| `CurrentIntervalRuns` | `QTimer` | The timer of the interval set last is live. |
| `GcKeepsRunning` | `QTimer` | The collector is called again and again, unless the interval is 0 or set anew (liveness). |
| `PartsTypeOK` | all | The type invariants. |

The violated properties state what a comment, an assertion or a help text of
the code says; `PROJECT.json` quotes it under `findings`.

**Bounds.** `ports_vlan`: ports 0 to 2 (port 0 is never given out, so this is two
ports, enough for one to be full while another is free, and for an address to
move), VLANs 0, 1 and 2 (the default VLAN, an old and a new one), two endpoints
(a port can be shared, or both be in use), one address. `ports_create`: the same with VLAN 0
alone. `ports_access`: one
port that is given out, three endpoints that share it or follow each other, two
modules, root and two other users besides the unknown one, a group, VLAN 0 alone.
Each port a frame goes to is judged by itself, so two ports show
what can go wrong with forwarding; the theorems cover any number. `descriptors`: four sockets
that come and go beside the two listening ones and the console, at most two clients
(`MaxClients`), a manager (`MaxMgmt`) and one socket left open by a refused
request (`MaxLeaked`): seven entries, so that entries move in front of, behind and
over each other. `timers_interval`: four structs, periods up to three seconds. `mac_table`: three
addresses, two of which share a bucket of two and none a bucket of four, and
all of which share the only bucket of one; ages up to two seconds with
`min_persistence` -1, 0 and 1, so every comparison goes both ways.

`parts`: scripts of up to four lines of every kind (`MaxLines`): a comment takes
two, and one command in front and one behind shows whether either is run wrongly.
Three managers, three classes and paths that name two, one or all of them, so that
the entry deleted from an array is its first, a middle or its last. Three
libraries, one of them no plugin, asked for by six names, two references each
(`MaxRefs`). Elements of two bits and arrays of 3 to 5 members: one word that grows
to two and back. Two endpoints, three buffers, queue lengths 0 and 2, so queues
are full, shortened below what they hold, and share a frame. Four switches in two
directories, three with one management socket, all with one pid file, one crash
(`MaxCrashes`). Three taps: one open, one failing, one to come. In the terminal
two letters, a buffer of three characters, a history of one and two commands
(`BuffSize`, `MaxHistory`, `MaxCommands`): lines that fill the buffer, an entry that
displaces another, and a line behind a longer one; after the second command only Up,
Down and the clock go on. Two replies with two lines of data and a debug message
(`MaxReplies`, `MaxData`, `MaxDebug`), cut at every place. Three tags, of which
shortened forms are allowed, and four values that hold every special character, in
two elements (`MaxElements`). Four arguments of `winvde_plug` (`MaxArgs`), enough for the dash, two URLs
and one word more, or an option with its value. Three words of the switch's
command line (`MaxWords`) from eleven, among them options that share a number. Four timer
structs and periods of one or two seconds (`MaxPeriod`): the array holds a live, a dying
and a new timer at once, and the interval can be set twice between two ticks. Deadlock is
not an error in `parts` and `restart`, which have one instance: scripts, options and names come to an end.

**Fairness.** `PartsMC` assumes weak fairness of two actions. `Tick` of `QTimer`
(`RunTick`): the timer is a window message, which the system posts every second and
which the main loop takes because `GetMessage` is called in every turn. `ScriptStep`
(`RunScript`), a turn of `runscript`'s loop: it runs inside the handler of the command,
or before the main loop, and nothing else runs until it returns. Nothing is assumed of
the commands, nor that a script is loaded. All other specifications are safety
specifications.

## What is proved

TLC checks a small instance; the theorems hold for every value of the constants,
under the named assumptions of the modules. Each action has a step of its own in
the inductive proofs; what the operators return, the table functions, the loops,
the walks, are lemmas beside them.

**Port table** (`SwitchPorts_proofs`), for up to 32 ports, VLANs below 32, and any
endpoints, addresses, users and groups. The code takes more ports, and VLANs up to 4093;
from index 32 on the bit arrays are no sets (see below), and nothing is proved:

* `PortsTypeOK`, `PortsWithinArray`, `PortsUntaggedVlan`, `PortsFloodSets`,
  `PortsLearned` from one inductive invariant, `VlanInv`, the conjunction of
  the five. None is inductive alone: that `vlan/remove` leaves no port behind
  needs the port to be in its untagged VLAN's table; the flooding sets can only be
  kept by `close_ep` if they hold nothing of undefined VLANs; a learned address
  stays on an active port because the sets and the tables agree.
* `PortsSharedByOneUser` and `PortsActiveHasModule` from `EndpointInv`: an idle
  port has neither user nor module, which is what makes the first endpoint's
  check decide for those that follow.
* the action property `PortsOpenedByAdmitted`.

**Forwarding** (`SwitchPorts_proofs`) carries `VlanInv` over to the frames:
`FramesStayInVlan`, `FramesReachOnce` and `FramesKeepForm`. The first needs
`PortsLearned` for known destinations and `PortsFloodSets` for flooded frames, the
second that the two flooding sets of a VLAN cover its active ports and share none.

**Descriptor table and main loop** (`DataSock_proofs`), for any number of sockets and
endpoints: `TypeCorrect`, `PrioritiesFirst`, `PermutationHolds`, `EntriesAreUnique`,
`PollArrayIsCurrent`. The loop of `remove_fd` over `fdperm` goes one position too far, so
the index of the last entry may be wrong. What is inductive
(`Sound`) is that it is at most one behind its entry, and right for the entries of
priority types; the latter because the two listening sockets and the console always stand
behind them, so the last entry, whose index is spoilt, is never one of them. `Sound` is a
predicate on a table: `add_fd`, `remove_fd` and
`mainloop_set_private_data` are shown to keep it, and a handler that calls several
in a row is the composition. `PollArrayIsCurrent` rests on no handler
exchanging a descriptor for another: each changes their number or leaves the set.

**Timers** (`QTimer_proofs`), for any number of structs and any intervals:
`TimersTyped`, `StructsStayApart`, `TimersFallDue`, `IntervalStaysInForce`. The
conjunction of the four is inductive as it stands, and none is without the
others: a count down fits its type because the timer falls due within its period,
and that needs its struct to be in the array once, for a tick to count once. The loop
of `sig_alarm` is a recursive function; its invariant is that the structs passed are in
the array if alive and on the list if not, in each once.

**MAC table** (`MacTable_proofs`), for any addresses, ports, hash, heap and sizes:
`TypeCorrect`, `PointersFit`, `AddressesAreUnique`, and `MapImplemented`, that every
step of the chains is a step of `MacMap` or changes nothing there. Pointers alone say
nothing about reachability, so the invariant (`Chained`) supposes a place for every
entry: the head of a chain is at place 0, a `next` leads from one place to the following,
a place of a chain holds one entry, and there is no gap below an entry. An
insertion moves the places of a chain up by one, a deletion those behind it down. That
no chain is a ring, that a walk meets each entry of its chain, and that the walk of
`find_in_hash_update` ends at the entry of an address or at none, follow.

**The other parts of the switch** (`Parts_proofs`), each for its own specification:

* `PluginsAreHeld` - with the types, `PluginsHeld` is inductive as it stands.
* `SubscribersAreAsAsked`, for up to four managers, as many as the arrays of `debugadd`
  have room for - needs that a number which is no connection has asked for
  nothing (`StrangersAskNothing`); otherwise accepting it would hand over
  subscriptions.
* `TapsStayWhole` - needs that a tap still to be opened has nothing (`OpenedOnce`) and
  that the list of the command line is empty once the last was opened
  (`OpenedAtStart`), so that closing gives back the endpoint alone.
* `SwitchesEndClean` - what it says of a file is too little to clean up by its name.
  `LifeInv` adds that a switch's file has the switch's own name, that a switch which
  listens has `ctl.sock`, that one which has only made its directory has none there,
  and that no such directory is left over from a crash.
* `BitsStandForSets` - the words stand for the set member by member (`StandsFor`), and
  the loops over the words visit each member once, so the trailing word is the number.
  `BitsKeepShape` needs no member to have a bit of its own: one that has none shares that
  of a member in the lower half of its word, so the arrays always stand for *some* set
  (`BitShape`), and the trailing word stays between 0 and `MaxSize`.
* `BuffersAreShared` - the count of a buffer is the number of queues that hold it,
  which needs that none holds it twice (`HeldOnce`); that two queues hold their common
  buffers in one order then follows.
* `OptionsAtOwner`, for lines of any words. The invariant says where `getopt_long` stands:
  each owner has the value given last among the options in front of `optind`, and a word
  that was jumped over is a value. `Given` is read from the line by itself, so the step
  is that one round reads what `Given` reads of the words it takes.

**Scripts and clients** (`Clients_proofs`):

* `ScriptsRunAsWritten`, for scripts of any length. The invariant says where the scan is
  (`ScanPlace`: what the comment flag and `past` have to do with the lines in front
  of the buffer) and what has been run (`RanSoFar`, `FollowersSoFar`, `ClosersSoFar`).
* `PlugsAsGiven`, for any words. Until the program refuses its words, what was scanned
  behind a lone dash is accounted for; the handles are those of the first URLs (`HandlesOfUrls`).
* `LinesAreAsMeant`, an action property, for lines of up to 255 characters (a longer one
  keeps `calculateHash` going for ever) and a history of any size: the
  buffer holds the line that is meant (`TextIsMeant`), and the entries of the
  history have the checksums of their commands, all different (`HistoryInv`).
  `TerminalTyped` adds that `currentHistoryPtr` is an entry of the list, the freed one or
  none: the deletion in `addCommandHistory` frees it or leaves it in the list.
* `RepliesAreShown`, for any number of replies, lines of data and debug messages, and every
  place where the first reply is cut. The invariant follows `vindata` over the lines that
  are still to come: it is FALSE behind the last, so every `.` closes the data that was
  opened, and as long as the list is not made, each reply begun has its end to come.
* `ParametersArrive`, for any tags, values of any length and any number of elements. A text
  *passes* when the automaton reads it from one status outside of quotes to another,
  meets no delimiter and copies what was meant. Texts that pass one after the other pass
  together, what is written for a value passes however it is protected, and so does an
  element; so the scan stops at the delimiter behind the element (`FirstCut`, `LastCut`,
  `BracketCut`). The invariant is that `saveptr` stands in front of the elements that are
  left, and the tags have what the others gave them.

**Side by side** (`PartsMC_proofs`): `EachByItself` - the composition `PartsMC` implements the
specification of each of its components, as a step of one leaves the variables of the
others alone. With it `PartsKeepPromises` has the properties of all thirteen and
`PartsTypeCorrect` their types, for the behaviours that the run `parts` explores.

**Assumptions.** Those of each module, as TLC evaluates them on the instances. That a
set is finite (heap cells, endpoints, taps, managers) is all they say about sizes, except for
`PortsAssumption` (at most 32 ports, VLANs below 32: port and VLAN numbers fit a word), `ManagementAssumption` (as
many managers as the arrays of `debugadd` have room for, see below), and the sizes of the
MAC table that `po2round` can reach. `NullIsNoPort` and `NoEntryAssumption` tell NULL
from what may stand in its place. That a line buffer has two characters at least, and is
no larger than the index of `calculateHash` can count, is in `TerminalAssumption`.

**Loops.** The prover knows of a recursive function only that it is what its
definition chooses. `ListsAndLoops` shows that there is a function which obeys the
equation of a loop (`RoundsExist`, `LoopExists`) and gives the induction over its
rounds (`UpTo`), from the least element of a set of numbers; it also says what a list
that holds each entry once becomes by an insertion or a removal.

**Only model-checked:**

* `ScriptEnds` and `GcKeepsRunning`: liveness is beyond the prover.
* The violated properties, which the code does not have.

## What the models say about the code

Behaviour that the models follow and a reader might take for a mistake in them:

* **Scripts** - `runscript` reads the next line before it runs the one it looked
  at, and runs what is in the buffer. So the first command of a script, and any
  command that has a comment or an empty line in front of it, is passed over, and the
  last line may run twice. Of the line that ends a comment, the text in front of `*/` is
  run although it lies in the comment, as `handle_cmd` is given the buffer from its start
  (`winvde_mgmt.c:893`). `ScriptRunsAsWritten` is what is left of the order. A
  comment that is opened and closed on one line, or not closed at all, keeps the
  loop going for ever, hence `CommentsClosed`.
* **MAC table** - `hash_gc` hands its own argument, which the timer leaves null, to `gc`
  in place of the time (`winvde_gc.c:30`): the first collection that finds an entry ends
  the process (`HashGc`), so no address that falls silent is ever forgotten.
  `ImplementsMap` holds because `MacMap` may end there, too.
* **Management** - where `recv` fails, the handler returns without `remove_fd`
  (`MgmtReset`): the connection and its subscriptions stay. The size of the arrays
  in `debugadd` counts half of what it needs; four entries fit, the model has three.
* **Lifecycle** - `switch_errno` is set by the project's own functions only, and
  tested after `bind` and `_mkdir` (`winvde_mgmt.c:282-291`,
  `winvde_datasock.c:260,289`), so every failure is taken for an unknown one. The
  pid file is written over whoever's it is and removed twice, also by a switch that
  was refused (`winvde_mgmt.c:425`); no property says whose it is. A switch
  that made its directory and could not bind leaves it.
* **Plugins** - `plugin/add` by a name without `winvde_` lets go of the library twice
  and may unload a plugin that is on the list (`winvde_plugin.c:238-248`); the next
  walk over the list ends the process (`PluginCrash`). `PluginsHeld` therefore
  supposes names with the prefix.
* **PacketQueues** - the contract of a sender is to return `-EWOULDBLOCK`. Today's
  senders never do, as they read `switch_errno` (`winvde_datasock.c:682`), so the
  queues stay empty until that is mended. `POLLOUT` is in `fds`, and reaches the
  array that is polled only when the number of descriptors next changes
  (`winvde_switch.c:562`); `QueuesShareBuffers` is about `fds`.
* **BitArrays** - indices are split by 64 and elements have 32 bits
  (`bitarray.h:117`): members from 32 on share bits with others (`beyond`).
  `SwitchPorts` keeps below 32.
* **Tap** - `hinit_tap` is freed behind the last `newtap` (`winvde_tuntap.c:361`), so the
  handler and the clean-up of a working tap look it up in vain: no frame passes, and
  what it holds is kept when its endpoint is closed.
* **Terminal** - a line of which the cursor is at its begin is not sent and goes into
  the history all the same. `linebuf` grows by a byte per line and a line as long as
  it is not sent. Enter only marks the line; until the loop finds the socket writable
  further keys edit it. Letters, Enter, Backspace, the arrows and Insert are
  modelled; a control character, Ctrl-Enter and Del are not (`termkeys.c:238` tests the
  handler of Insert and calls that of Del, which is NULL). Lines of 256 characters and more, for
  which the index of `calculateHash` wraps and its loop never ends
  (`winvde_cmdhist.c:133-137`), are excluded by `TerminalAssumption`.
* **Options** - letters in a group (`-xd`) are read again and again and the switch does
  not start (`winvde_getopt.c:97,163-170`). `--debugclients` is in the table and
  nobody takes it. A name without its value at the end of the line reads
  `argv[argc]`, which is NULL.
* **Plug** - the test for `=` among the options is the wrong way round
  (`winvde_plug.c:679`), so URLs are read behind a lone dash only, which the usage text
  does not mention: `PlugAsGiven` is about what is read there. A URL or a `url = cmd` without the dash,
  which the usage text does have (`winvde_plug.c:400-406`), is taken for the `=` of a
  command, and nothing is opened; no property says that this is right. A third URL ends the program in a fault, as `fprintf` is
  given a text for its `FILE` (`ThirdUrl`); the second URL that opens ends the program
  (`winvde_plug.c:138`); `plug2cmd` takes a text for an array of words. The library of
  a plug module is let go twice at the end of a handle (`winvde.c:344` and
  `winvde_vde_close`).

## Not modelled

Output and formatting, the user and group queries to Windows, the wintun driver,
the test programs. FSTP is never compiled in. `port/remove` cannot succeed: it
insists on an unsigned argument, which the command interpreter never makes. In
`DataSock` a client sends one request per connection, as the client libraries
do. The console's entry is in the descriptor table; what is typed there is read by the
main loop without it and is not modelled. `RequestRecvFails` is the 64-bit build; in a
32-bit one the byte in front of the buffer is written instead. The handlers are given `fds[].revents`, which
nothing writes (`winvde_switch.c:692`); both values of its `POLLIN` are
covered: a management connection may end at any activity (`MgmtClose`), and a
frame may be read or not. Running out of memory is left out everywhere.

* The list of commands is filled at the start and then read; event functions
  (`eventadd`, `eventdel`) and what plugins may register are called by plugins, whose
  `init` and `fini` nothing calls. `winvde_dump` is such a plugin.
* `winvde_vde_open` is never called by the client library; it would connect to
  `ctl`, where the switch listens on `ctl.sock`.
* The stream, the hash table and the emulation of epoll in `src/WinVde` serve
  `winvde_netnode` and `plug2stream`. A handle has no sockets, so no frame reaches
  them. In `winvde_netnode` each connection is given the value of a comparison for
  its descriptor (`winvde_netnode.c:478`).
* The names and permissions of the endpoints' sockets. The user of a client is read
  from a structure that was not filled when `_stat64` fails and is -1 when it succeeds
  (`winvde_datasock.c:576`); `SwitchPorts` lets it be any user, the unknown one
  included. The padding of short frames is written behind their data
  (`winvde_port.c:1947`).

## Plan

1. *Done*: port table, forwarding, descriptor table with the main loop, timers,
   MAC table; proofs about the port table and forwarding.
2. *Done*: packet queues, scripts, sessions and debug classes, plugins, bit arrays,
   taps, start and end with crashes, the command lines, network names, the terminal
   and the replies it shows.
3. *Done*: proofs about the descriptor table and the main loop, the timers, the MAC
   table and its refinement of `MacMap`, and the parts and clients whose properties hold by
   induction on the steps.
4. *Done*: proofs about the replies, the command line and the network names.
   The types of the bit arrays and the terminal, and the composition of the components.
5. Left: liveness, which stays with TLC.
