------------------------------- MODULE Scripts -------------------------------
(***************************************************************************)
(* runscript and validatescript of winvde_mgmt.c: how the switch walks     *)
(* over the lines of a configuration script (the rc file, or "load").      *)
(* The two are one loop, first over the whole file without running         *)
(* anything, then running.  The loop looks at the line in its buffer, and  *)
(* hands to handle_cmd whatever is in the buffer at the end of the turn:   *)
(* after a command that is the line behind it.                             *)
(*                                                                         *)
(* A line is one of Kinds.  Lines end with a newline, are not indented,    *)
(* and are longer than what ended a comment before them.  A script that    *)
(* loads a script is left out.                                             *)
(***************************************************************************)
EXTENDS Sequences, SequencesExt, Naturals

CONSTANT MaxLines  \* bound: lines of a script

ASSUME ScriptsAssumption == MaxLines \in Nat

Kinds == {
  "blank",
  "note",     \* begins with ; # // or --
  "open",     \* begins with /* and holds no */
  "close",    \* ends with */
  "boxed",    \* begins with /* and ends with */
  "command",
  "last"}     \* a command, and then */

VARIABLES
  script,   \* the lines
  pass,     \* "idle", "validate", "run" or "over"
  buf,      \* which line is in buf
  more,     \* fgets has not met the end of the file
  comment,  \* the scan is inside a comment
  past,     \* cmd_start is behind the */ of the line: "no", "newline", "end"
  ran       \* the lines handle_cmd took for commands, in order

scriptVars == <<script, pass, buf, more, comment, past, ran>>

-----------------------------------------------------------------------------
Here == script[buf]

Closes(kind) == kind \in {"close", "boxed", "last"}

\* What handle_cmd finds in its table; it skips the rest or answers an error.
IsCommand(kind) == kind \in {"command", "last"}

Ended == pass \in {"idle", "over"} \/ ~more

\* handle_cmd on line k, in the pass that runs.
Run(k) == ran' = IF pass = "run" /\ IsCommand(script[k]) THEN Append(ran, k) ELSE ran

\* fgets: at the end of the file the buffer keeps the line it holds.
Fgets ==
  IF buf < Len(script) THEN buf' = buf + 1 /\ more' = TRUE
                       ELSE buf' = buf /\ more' = FALSE

\* fopen_s and the first fgets of a pass over the lines s.
StartPass(p, s) ==
  /\ pass' = p
  /\ buf' = 1
  /\ more' = (s # << >>)
  /\ comment' = FALSE
  /\ past' = "no"

ScriptInit ==
  /\ script = << >>
  /\ pass = "idle"
  /\ buf = 1
  /\ more = FALSE
  /\ comment = FALSE
  /\ past = "no"
  /\ ran = << >>

\* loadrcfile at the start, or the command "load"; runscript first validates.
LoadScript ==
  /\ pass = "idle"
  /\ script' \in BoundedSeq(Kinds, MaxLines)
  /\ StartPass("validate", script')
  /\ UNCHANGED ran

(***************************************************************************)
(* The top of the loop: a newline under cmd_start, or a note, is skipped   *)
(* and the loop goes round without handle_cmd.                             *)
(***************************************************************************)
AtLine == ~Ended /\ ~comment

\* A bug: a skipped line is not followed by the next.
SkipLineStays ==
  /\ AtLine
  /\ past = "newline" \/ Here \in {"blank", "note"}
  /\ past' = "no"
  /\ UNCHANGED <<script, pass, buf, more, comment, ran>>

SkipLine ==
  /\ AtLine
  /\ past = "newline" \/ Here \in {"blank", "note"}
  /\ Fgets
  /\ past' = "no"
  /\ UNCHANGED <<script, pass, comment, ran>>

\* A line that begins with /*.
EnterComment ==
  /\ AtLine /\ past # "newline"
  /\ Here \in {"open", "boxed"}
  /\ comment' = TRUE
  /\ past' = "no"
  /\ UNCHANGED <<script, pass, buf, more, ran>>

\* A bug: the text in a comment is handed to handle_cmd as well.
ScanOnRun ==
  /\ ~Ended /\ comment
  /\ ~Closes(Here)
  /\ buf' = IF buf < Len(script) THEN buf + 1 ELSE buf
  /\ past' = "newline"
  /\ Run(buf')
  /\ UNCHANGED <<script, pass, more, comment>>

(***************************************************************************)
(* In a comment: the line holds */, or the next one is read; at the end of *)
(* the file the last line is scanned again.  The newline of a line that    *)
(* was looked at from its start has been cut off.                          *)
(***************************************************************************)
ScanOn ==
  /\ ~Ended /\ comment
  /\ ~Closes(Here)
  /\ buf' = IF buf < Len(script) THEN buf + 1 ELSE buf
  /\ past' = "newline"
  /\ UNCHANGED <<script, pass, more, comment, ran>>

LeaveComment ==
  /\ ~Ended /\ comment
  /\ Closes(Here)
  /\ comment' = FALSE
  /\ past' = IF past = "newline" THEN "newline" ELSE "end"
  /\ Run(buf)
  /\ UNCHANGED <<script, pass, buf, more>>

\* Anything else is taken for a command, which validatecommand always accepts.
TakeCommand ==
  /\ AtLine /\ past # "newline"
  /\ Here \in {"command", "last", "close"}
  /\ Fgets
  /\ past' = "no"
  /\ Run(buf')
  /\ UNCHANGED <<script, pass, comment>>

\* The file has been read to its end.
EndPass ==
  /\ pass \in {"validate", "run"} /\ ~more
  /\ IF pass = "validate"
     THEN StartPass("run", script) /\ UNCHANGED <<script, ran>>
     ELSE pass' = "over" /\ UNCHANGED <<script, buf, more, comment, past, ran>>

ScriptStep ==
  SkipLine \/ EnterComment \/ ScanOn \/ LeaveComment \/ TakeCommand \/ EndPass

ScriptSpec == ScriptInit /\ [][LoadScript \/ ScriptStep]_scriptVars

-----------------------------------------------------------------------------
ScriptTypeOK ==
  /\ script \in BoundedSeq(Kinds, MaxLines)
  /\ pass \in {"idle", "validate", "run", "over"}
  /\ buf \in 1 .. MaxLines + 1
  /\ more \in BOOLEAN /\ comment \in BOOLEAN
  /\ past \in {"no", "newline", "end"}
  /\ ran \in Seq(1 .. MaxLines)

\* Which lines begin inside a comment, by the text s of a script alone.
CommentedIn(s) ==
  LET inside[k \in 1 .. MaxLines + 1] ==
        k > 1 /\ k - 1 <= Len(s) /\
          IF inside[k - 1] THEN ~Closes(s[k - 1]) ELSE s[k - 1] = "open"
  IN inside

Commented == CommentedIn(script)

\* A line of text that is a command.
Plain(k) == ~Commented[k] /\ IsCommand(script[k])

(***************************************************************************)
(* What of a script is run.  Of a comment: no line that lies wholly inside *)
(* it, and the line that ends it if a command stands in front of its "*"   *)
(* and "/": handle_cmd is given the buffer from its start, so this text of *)
(* the comment is run.  Of the rest: lines in the order of the file, where *)
(* only the last can come twice; and, once the script has ended, each      *)
(* command with a command in front of it.  (A command with none in front   *)
(* of it is passed over, see the README.)  This is about the look-ahead of *)
(* runscript, where the line that is looked at and the line that is run    *)
(* are not the same.                                                       *)
(***************************************************************************)
InsideNotRun ==
  \A i \in DOMAIN ran : Commented[ran[i]] => Closes(script[ran[i]])

ClosersRun ==
  pass = "over" =>
    \A k \in DOMAIN script : Commented[k] /\ script[k] = "last" => Contains(ran, k)

RunInOrder ==
  \A i \in DOMAIN ran : i > 1 =>
    ran[i - 1] < ran[i] \/ (ran[i - 1] = ran[i] /\ ran[i] = Len(script))

FollowersRun ==
  pass = "over" =>
    \A k \in 2 .. Len(script) : Plain(k - 1) /\ Plain(k) => Contains(ran, k)

ScriptRunsAsWritten == InsideNotRun /\ ClosersRun /\ RunInOrder /\ FollowersRun

(***************************************************************************)
(* A script whose comments are closed, each on a later line, is read to    *)
(* its end, so the switch, which reads it in the handler of the command or *)
(* before its main loop, goes on.                                          *)
(***************************************************************************)
CommentsClosed ==
  /\ ~Commented[Len(script) + 1]
  /\ \A k \in DOMAIN script : script[k] = "boxed" => Commented[k]

ScriptEnds == (pass # "idle" /\ CommentsClosed) ~> (pass = "over")
=============================================================================
