--------------------------------- MODULE Replies ---------------------------------
(***************************************************************************)
(* What winvde_hist makes of the answers of the switch: the list of        *)
(* commands it asks for when it starts, and the lines it shows.  A reply   *)
(* is the line 0000, its data and the line "." , when the command has      *)
(* output, and a line 1xxx with the outcome.  A reply is written at once,  *)
(* debug messages (3xxx) between two of them, but they arrive in parts of  *)
(* any length.  The socket does not block: a read takes what has arrived,  *)
(* which may end within a line.                                            *)
(***************************************************************************)
EXTENDS Naturals, Sequences, SequencesExt

CONSTANTS
  MaxReplies,   \* bound: the commands after the first "help"
  MaxData,      \* bound: the lines of data of a reply
  MaxDebug      \* bound: the debug messages

ASSUME RepliesAssumption == MaxReplies \in Nat /\ MaxData \in Nat \ {0} /\ MaxDebug \in Nat

VARIABLES
  unsent,       \* what the switch has yet to write of the reply to a command
  replies,      \* the replies begun
  debugs,       \* the debug messages written
  wire,         \* the lines on the way, the first perhaps without its begin
  listed,       \* commandlist # NULL
  commandlist,  \* the commands in it
  vindata,      \* st->vindata
  shown         \* what went to the terminal of the replies after the list

repliesVars == <<unsent, replies, debugs, wire, listed, commandlist, vindata, shown>>

\* A line: its kind, the reply it belongs to and its place in it.
Ln(k, r, i) == [kind |-> k, reply |-> r, at |-> i]
LineKinds == {"0000", "data", "dashes", "dot", "1000", "3000", "torn"}
Lines == [kind : LineKinds, reply : 0 .. MaxReplies, at : 0 .. MaxData + MaxDebug]

\* The reply to help, which has a table of n commands, and that to another
\* command with n lines of data.
HelpReply(n) ==
  <<Ln("0000", 0, 0), Ln("dashes", 0, 0)>> \o [i \in 1 .. n |-> Ln("data", 0, i)]
    \o <<Ln("dot", 0, 0), Ln("1000", 0, 0)>>
ReplyLines(r, n) ==
  (IF n = 0 THEN << >>
   ELSE <<Ln("0000", r, 0)>> \o [i \in 1 .. n |-> Ln("data", r, i)] \o <<Ln("dot", r, 0)>>)
    \o <<Ln("1000", r, 0)>>

-----------------------------------------------------------------------------
\* vdehist_new has written help, and the switch has not answered yet.
RepliesInit ==
  /\ unsent = HelpReply(MaxData)
  /\ replies = 0 /\ debugs = 0
  /\ wire = << >>
  /\ listed = FALSE /\ commandlist = << >>
  /\ vindata = FALSE
  /\ shown = << >>

\* A line of the switch arrives.
LineArrives ==
  /\ unsent # << >>
  /\ wire' = Append(wire, Head(unsent)) /\ unsent' = Tail(unsent)
  /\ UNCHANGED <<replies, debugs, listed, commandlist, vindata, shown>>

\* A debug message of the switch to this connection.
DebugArrives ==
  /\ debugs < MaxDebug
  /\ unsent # << >> => Head(unsent).kind = "0000"
  /\ debugs' = debugs + 1
  /\ wire' = Append(wire, Ln("3000", 0, debugs'))
  /\ UNCHANGED <<unsent, replies, listed, commandlist, vindata, shown>>

\* The next command of the user, which the terminal reads only after it has
\* made its list, is answered.
NextReply(n) ==
  /\ listed /\ unsent = << >> /\ replies < MaxReplies
  /\ replies' = replies + 1
  /\ unsent' = ReplyLines(replies', n)
  /\ UNCHANGED <<debugs, wire, listed, commandlist, vindata, shown>>

-----------------------------------------------------------------------------
(***************************************************************************)
(* vdehist_create_commandlist reads lines until the line "." or until      *)
(* nothing has arrived, and takes the first words of the lines behind the  *)
(* dashes.  What it has read of a line when nothing more has arrived is    *)
(* lost.  The list is made of what there is, and is not made again.        *)
(***************************************************************************)
Words(lines) ==
  LET dashes == SelectInSeq(lines, LAMBDA l : l.kind = "dashes")
  IN IF dashes = 0 THEN << >>
     ELSE SubSeq(lines, dashes + 1, Len(lines))

CreateCommandList ==
  /\ ~listed /\ listed' = TRUE
  /\ LET dot == SelectInSeq(wire, LAMBDA l : l.kind = "dot")
         last == IF dot = 0 THEN Len(wire) ELSE dot
     IN \E upto \in last .. Len(wire), tear \in BOOLEAN :
          \* upto: read along with the line "." into a buffer that is lost
          \* tear: the line being written arrives in two parts
          /\ tear => dot = 0 /\ unsent # << >>
          /\ commandlist' = Words(SubSeq(wire, 1, IF dot = 0 THEN last ELSE dot - 1))
          /\ wire' = SubSeq(wire, upto + 1, Len(wire))
               \o (IF tear THEN <<[Head(unsent) EXCEPT !.kind = "torn"]>> ELSE << >>)
          /\ unsent' = IF tear THEN Tail(unsent) ELSE unsent
  /\ UNCHANGED <<replies, debugs, vindata, shown>>

\* A bug: the "." is shown, or not, but does not end the data.
InDataAfterDot(l) == vindata \/ l.kind = "0000"

(***************************************************************************)
(* vdehist_mgmt_to_term, for one line: what has arrived of a line stays in *)
(* vlinebuf until the rest arrives.  In data every line but "." is shown;  *)
(* outside the lines of the forms 1xxx and 3xxx are, and 0000 begins data. *)
(***************************************************************************)
Shows(l) == IF vindata THEN l.kind # "dot" ELSE l.kind \in {"1000", "3000"}
InDataAfter(l) == IF vindata THEN l.kind # "dot" ELSE l.kind = "0000"

MgmtToTerm ==
  /\ listed /\ wire # << >>
  /\ LET l == Head(wire)
     IN /\ vindata' = InDataAfter(l)
        /\ shown' = IF Shows(l) /\ l.reply > 0 THEN Append(shown, l) ELSE shown
  /\ wire' = Tail(wire)
  /\ UNCHANGED <<unsent, replies, debugs, listed, commandlist>>

RepliesNext ==
  \/ LineArrives \/ DebugArrives \/ CreateCommandList \/ MgmtToTerm
  \/ \E n \in 0 .. MaxData : NextReply(n)

RepliesSpec == RepliesInit /\ [][RepliesNext]_repliesVars

-----------------------------------------------------------------------------
RepliesTypeOK ==
  /\ wire \in Seq(Lines) /\ unsent \in Seq(Lines)
  /\ shown \in Seq(Lines) /\ commandlist \in Seq(Lines)
  /\ replies \in 0 .. MaxReplies /\ debugs \in 0 .. MaxDebug
  /\ listed \in BOOLEAN /\ vindata \in BOOLEAN

\* The lines of a sequence that the user is to see.
Wanted(l) == l.reply > 0 /\ l.kind \in {"data", "1000"}
ToShow(lines) ==
  LET show[i \in 0 .. Len(lines)] ==
        IF i = 0 THEN << >>
        ELSE IF Wanted(lines[i]) THEN Append(show[i - 1], lines[i]) ELSE show[i - 1]
  IN show[Len(lines)]

\* The data of a reply come in their order and its outcome behind them, and
\* the next reply behind that.
Outcome(r) == Ln("1000", r, 0)
Follows(l, m) ==
  IF l.kind = "data" THEN m \in {Ln("data", l.reply, l.at + 1), Outcome(l.reply)}
  ELSE m \in {Ln("data", l.reply + 1, 1), Outcome(l.reply + 1)}

(***************************************************************************)
(* Wherever the list of commands stops reading in the reply to help, the   *)
(* replies that follow are shown whole, in order and once: what was shown  *)
(* and what is still to be shown are the lines of all replies begun, no    *)
(* line missing, doubled or out of its place.  And the terminal is in data *)
(* only while the rest of a reply, with its ".", is yet to come.           *)
(***************************************************************************)
RepliesShown ==
  /\ vindata => \E i \in DOMAIN (wire \o unsent) : (wire \o unsent)[i].kind = "dot"
  /\ LET lines == <<Outcome(0)>> \o shown \o ToShow(wire \o unsent)
     IN /\ \A i \in 1 .. Len(lines) - 1 : Follows(lines[i], lines[i + 1])
        /\ lines[Len(lines)] = Outcome(replies)
=============================================================================
