-------------------------------- MODULE Terminal --------------------------------
(***************************************************************************)
(* The line editor, the command history and the loop of winvde_term, with  *)
(* the way a line takes through vdehist_term_to_mgmt to the switch.  Time  *)
(* is what the history needs of it: an entry is aged when it was made in   *)
(* an earlier second than the present one.                                 *)
(***************************************************************************)
EXTENDS Naturals, Sequences, SequencesExt, FiniteSets

CONSTANTS
  Letters,      \* the characters typed, numbers: the hash adds them up
  BuffSize,     \* STD_INPUT_BUFF_SIZE, for lines of up to 255 characters
  MaxHistory,   \* MAX_HISTORY
  MaxCommands   \* bound: after so many commands in the history nothing is typed or edited

\* The index of calculateHash has eight bits: it does not come to the end of a
\* longer line.
ASSUME TerminalAssumption ==
  /\ Letters \subseteq Nat \ {0} /\ BuffSize \in Nat \ {0, 1} /\ BuffSize <= 256
  /\ MaxHistory \in Nat \ {0} /\ MaxCommands \in Nat

VARIABLES
  std_input,          \* the static variables of winvde_termkeys.c: the record
                      \* [buffer, pos, length, ready, insertMode]
  cmd_history,        \* the entries, oldest first: [command, checksum, aged]
  currentHistoryPtr,  \* the checksum of an entry, NoEntry or FreedEntry
  command_history_count,
  linebuf,            \* the length of the text in st->linebuf
  linebufEnded,       \* a NUL was inserted there, so the text grows no more
  toSwitch,           \* what the last step sent to the switch, or NotSent
  doLoop,             \* FALSE when the terminal has ended
  meant,              \* the line as its keys mean it ...
  garbled             \* ... until a key the code handles otherwise

editVars == <<std_input, meant, garbled>>
termVars == <<std_input, cmd_history, currentHistoryPtr, command_history_count,
              linebuf, linebufEnded, toSwitch, doLoop, meant, garbled>>

NUL == 0
NoEntry == 65536         \* a checksum has 16 bits
FreedEntry == 65537
NotSent == << >>

Slots == 0 .. BuffSize - 1
TextTo(s, n) == [i \in 1 .. n |-> s.buffer[i - 1]]
Text(s) == TextTo(s, s.length)

\* calculateHash: it depends on the command through a sum only.
calculateHash(c) ==
  LET sum[i \in 0 .. Len(c)] == IF i = 0 THEN 0 ELSE sum[i - 1] + i * c[i]
  IN sum[Len(c)] % 65536

EmptyLine(s) == [s EXCEPT !.pos = 0, !.length = 0]

-----------------------------------------------------------------------------
EmptyInput == [buffer |-> [i \in Slots |-> NUL], pos |-> 0, length |-> 0,
               ready |-> FALSE, insertMode |-> FALSE]

TermInit ==
  /\ std_input = EmptyInput
  /\ cmd_history = << >> /\ currentHistoryPtr = NoEntry
  /\ command_history_count = 0
  /\ linebuf = 0 /\ linebufEnded = FALSE
  /\ toSwitch = NotSent
  /\ doLoop = TRUE
  /\ meant = << >> /\ garbled = FALSE

\* The variables go with the program.
TerminalEnds ==
  /\ doLoop' = FALSE
  /\ std_input' = EmptyInput
  /\ cmd_history' = << >> /\ currentHistoryPtr' = NoEntry
  /\ command_history_count' = 0
  /\ linebuf' = 0 /\ linebufEnded' = FALSE
  /\ toSwitch' = NotSent
  /\ meant' = << >> /\ garbled' = FALSE

-----------------------------------------------------------------------------
(* DoKbHit: the keys.                                                      *)

Unchanged ==
  /\ toSwitch' = NotSent
  /\ UNCHANGED <<cmd_history, currentHistoryPtr, command_history_count,
                 linebuf, linebufEnded, doLoop>>

AtEnd == std_input.pos = std_input.length
Typing == doLoop /\ command_history_count < MaxCommands

\* Backspace takes the last character away, wherever the cursor is.
Backspace ==
  /\ Typing /\ std_input.pos > 0
  /\ std_input' = [std_input EXCEPT !.pos = @ - 1, !.length = @ - 1]
  /\ garbled' = (garbled \/ ~AtEnd)
  /\ meant' = IF garbled' THEN << >> ELSE Front(meant)
  /\ Unchanged

(***************************************************************************)
(* A character at the end, or in overtype mode.  In the middle the line    *)
(* grows all the same, by whatever lies behind it.  A full buffer is a     *)
(* line that has ended and is empty.                                       *)
(***************************************************************************)
PutChar(c) ==
  /\ Typing /\ (AtEnd \/ (std_input.insertMode /\ std_input.length < BuffSize - 1))
  /\ LET s == [std_input EXCEPT !.buffer[std_input.pos] = c,
                                !.pos = @ + 1, !.length = @ + 1]
         full == s.pos = BuffSize
     IN /\ std_input' = IF full THEN [EmptyLine(s) EXCEPT !.ready = TRUE] ELSE s
        /\ garbled' = (~full /\ (garbled \/ ~AtEnd))
        /\ meant' = IF full \/ garbled' THEN << >> ELSE Append(meant, c)
  /\ Unchanged

\* A bug: the tail is not saved before it is moved up.
InsertCharUnsaved(c) ==
  /\ Typing /\ ~AtEnd /\ ~std_input.insertMode
  /\ std_input.length < BuffSize - 1
  /\ std_input' = [std_input EXCEPT
                     !.buffer = [i \in Slots |->
                        IF i \in std_input.pos .. std_input.length THEN c ELSE @[i]],
                     !.pos = @ + 1, !.length = @ + 1]
  /\ meant' = IF garbled THEN meant ELSE InsertAt(meant, std_input.pos + 1, c)
  /\ UNCHANGED garbled
  /\ Unchanged

\* A character in the middle.  The last guard, here and in PutChar, is where
\* the code has no check and would write behind the buffer.
InsertChar(c) ==
  /\ Typing /\ ~AtEnd /\ ~std_input.insertMode
  /\ std_input.length < BuffSize - 1
  /\ std_input' = [std_input EXCEPT
                     !.buffer = [i \in Slots |->
                        IF i = std_input.pos THEN c
                        ELSE IF i \in std_input.pos + 1 .. std_input.length THEN @[i - 1]
                        ELSE @[i]],
                     !.pos = @ + 1, !.length = @ + 1]
  /\ meant' = IF garbled THEN meant ELSE InsertAt(meant, std_input.pos + 1, c)
  /\ UNCHANGED garbled
  /\ Unchanged

MoveCursorPositionLeft ==
  /\ Typing /\ std_input.pos > 0
  /\ std_input' = [std_input EXCEPT !.pos = @ - 1]
  /\ UNCHANGED <<meant, garbled>> /\ Unchanged

\* A bug: the cursor goes on behind the end of the line.
MoveCursorPositionRightFreely ==
  /\ Typing /\ std_input.pos < BuffSize - 1
  /\ std_input' = [std_input EXCEPT !.pos = @ + 1]
  /\ UNCHANGED <<meant, garbled>> /\ Unchanged

MoveCursorPositionRight ==
  /\ Typing /\ ~AtEnd
  /\ std_input' = [std_input EXCEPT !.pos = @ + 1]
  /\ UNCHANGED <<meant, garbled>> /\ Unchanged

ToggleInsert ==
  /\ Typing
  /\ std_input' = [std_input EXCEPT !.insertMode = ~@]
  /\ UNCHANGED <<meant, garbled>> /\ Unchanged

\* Enter: the line is sent by the loop when the socket can be written.  Keys
\* that come before that go on editing it.  (ParseCommand only allocates.)
Enter ==
  /\ Typing /\ ~std_input.ready
  /\ std_input' = [std_input EXCEPT !.ready = TRUE]
  /\ UNCHANGED <<meant, garbled>> /\ Unchanged

\* A function key without a handler has none of this; one that has no case
\* at all makes DoKbHit fail, which ends the loop.
UnknownKey == doLoop /\ TerminalEnds

-----------------------------------------------------------------------------
(* The history.                                                            *)

Sums == {cmd_history[i].checksum : i \in DOMAIN cmd_history}
EntryAt(sum) == CHOOSE i \in DOMAIN cmd_history : cmd_history[i].checksum = sum

\* The line becomes that of the entry, or empty behind the ends of the list.
ShowEntry(i) ==
  IF i \in DOMAIN cmd_history
  THEN LET c == cmd_history[i].command
       IN /\ std_input' = [std_input EXCEPT !.pos = Len(c), !.length = Len(c),
                             !.buffer = [k \in Slots |-> IF k < Len(c) THEN c[k + 1] ELSE @[k]]]
          /\ currentHistoryPtr' = cmd_history[i].checksum
          /\ meant' = c
  ELSE /\ std_input' = EmptyLine(std_input)
       /\ currentHistoryPtr' = NoEntry
       /\ meant' = << >>

HistoryKey(fromNone, by) ==
  /\ doLoop /\ cmd_history # << >>
  /\ \/ currentHistoryPtr = NoEntry /\ ShowEntry(fromNone)
     \/ currentHistoryPtr \in Sums /\ ShowEntry(EntryAt(currentHistoryPtr) + by)
  /\ garbled' = FALSE
  /\ toSwitch' = NotSent
  /\ UNCHANGED <<cmd_history, command_history_count, linebuf, linebufEnded, doLoop>>

CommandHistUp == HistoryKey(1, 1)
CommandHistDown == HistoryKey(Len(cmd_history), -1)

\* Up or Down after the entry they start from was freed: the freed memory
\* leads to any entry, to none, or to the end of the program.
HistoryKeyFreed ==
  /\ doLoop /\ currentHistoryPtr = FreedEntry
  /\ \/ /\ \E i \in 0 .. Len(cmd_history) : ShowEntry(i)
        /\ garbled' = FALSE
        /\ toSwitch' = NotSent
        /\ UNCHANGED <<cmd_history, command_history_count, linebuf, linebufEnded, doLoop>>
     \/ TerminalEnds

\* A second passes.
TermTick ==
  /\ doLoop
  /\ cmd_history' = [i \in DOMAIN cmd_history |-> [cmd_history[i] EXCEPT !.aged = TRUE]]
  /\ toSwitch' = NotSent
  /\ UNCHANGED <<editVars, currentHistoryPtr, command_history_count,
                 linebuf, linebufEnded, doLoop>>

(***************************************************************************)
(* addCommandHistory: nothing for an empty command or one whose checksum   *)
(* is there.  The count is of the commands put in, so from MaxHistory on   *)
(* every one deletes the oldest entry, if it is older than this second.    *)
(***************************************************************************)
addCommandHistory(command) ==
  LET sum == calculateHash(command)
      deletes == /\ command_history_count >= MaxHistory
                 /\ cmd_history # << >> /\ Head(cmd_history).aged
      entry == [command |-> command, checksum |-> sum, aged |-> FALSE]
  IN IF command = << >> \/ sum \in Sums
     THEN UNCHANGED <<cmd_history, currentHistoryPtr, command_history_count>>
     ELSE /\ command_history_count' = command_history_count + 1
          /\ cmd_history' = Append(IF deletes THEN Tail(cmd_history) ELSE cmd_history, entry)
          /\ currentHistoryPtr' =
               IF deletes /\ currentHistoryPtr = Head(cmd_history).checksum
               THEN FreedEntry ELSE currentHistoryPtr

-----------------------------------------------------------------------------
(***************************************************************************)
(* vdehist_term_to_mgmt(buffer, size): nothing when linebuf is as long as  *)
(* the line; else the line is sent whole at its first character, and the   *)
(* byte behind it goes into linebuf.                                       *)
(***************************************************************************)
vdehist_term_to_mgmt(size) ==
  LET behind == std_input.buffer[size]
  IN IF linebuf >= size
     THEN toSwitch' = NotSent /\ UNCHANGED <<linebuf, linebufEnded>>
     ELSE /\ toSwitch' = TextTo(std_input, size)
          /\ linebufEnded' = (linebufEnded \/ behind = NUL)
          /\ linebuf' = IF linebufEnded' THEN linebuf ELSE linebuf + 1

\* The loop finds the socket writable and a line that has ended.  With the
\* cursor at its begin nothing is sent.  The NUL is put one byte too far, for
\* the longest line behind the buffer.
SendLine ==
  /\ Typing /\ std_input.ready
  /\ IF std_input.pos > 0 THEN vdehist_term_to_mgmt(std_input.pos)
     ELSE toSwitch' = NotSent /\ UNCHANGED <<linebuf, linebufEnded>>
  /\ addCommandHistory(Text(std_input))
  /\ std_input' = [EmptyLine(std_input) EXCEPT !.ready = FALSE,
                     !.buffer = [i \in Slots |-> IF i = std_input.length + 1 THEN NUL ELSE @[i]]]
  /\ meant' = << >> /\ garbled' = FALSE
  /\ UNCHANGED doLoop

TermNext ==
  \/ \E c \in Letters : PutChar(c) \/ InsertChar(c)
  \/ Backspace \/ MoveCursorPositionLeft \/ MoveCursorPositionRight \/ ToggleInsert
  \/ Enter \/ UnknownKey \/ SendLine \/ TermTick
  \/ CommandHistUp \/ CommandHistDown \/ HistoryKeyFreed

TermSpec == TermInit /\ [][TermNext]_termVars

-----------------------------------------------------------------------------
TermTypeOK ==
  /\ std_input.pos <= std_input.length
  /\ std_input \in [buffer : [Slots -> Letters \cup {NUL}], pos : Slots, length : Slots,
                    ready : BOOLEAN, insertMode : BOOLEAN]
  /\ \A i \in DOMAIN cmd_history :
       cmd_history[i].checksum \in 0 .. NoEntry - 1 /\ cmd_history[i].aged \in BOOLEAN
  /\ currentHistoryPtr \in Sums \cup {NoEntry, FreedEntry}
  /\ command_history_count \in 0 .. MaxCommands
  /\ linebufEnded \in BOOLEAN /\ doLoop \in BOOLEAN /\ garbled \in BOOLEAN

(***************************************************************************)
(* However a line came about (typed, inserted into, recalled from the      *)
(* history, behind a longer line that left its characters in the buffer),  *)
(* the buffer holds what its keys mean, unless one was a Backspace or an   *)
(* overtyped character in the middle, and what the switch gets is that     *)
(* line up to the cursor.  The entries of the history are all there to be  *)
(* recalled, one for each checksum, a new one among them even when it      *)
(* displaces another, and the one Up and Down start from is lost only by   *)
(* a deletion.                                                             *)
(***************************************************************************)
LineAsMeant ==
  [][/\ (~garbled => Text(std_input) = meant)'
     /\ toSwitch' # NotSent =>
          /\ ~garbled => toSwitch' = SubSeq(meant, 1, std_input.pos)
          /\ calculateHash(Text(std_input)) \in Sums'
     /\ Cardinality(Sums') = Len(cmd_history')
     /\ \A i \in DOMAIN cmd_history' :
          cmd_history'[i].checksum = calculateHash(cmd_history'[i].command)
     /\ currentHistoryPtr' = FreedEntry => Len(cmd_history') < command_history_count'
    ]_termVars
=============================================================================
