----------------------------- MODULE Clients_proofs -----------------------------
(***************************************************************************)
(* What holds of the scripts the switch runs, of the programs beside it,   *)
(* winvde_plug and winvde_term, and of the parameters in the names they    *)
(* open, for any script, any words of a command line, any lengths of the   *)
(* buffers and of the history, and any values.                             *)
(***************************************************************************)
EXTENDS Scripts, Plug, Terminal, Replies, Parameters, ListsAndLoops, FiniteSetTheorems, TLAPS

-----------------------------------------------------------------------------
(***************************************************************************)
(* A script: LoadScript and the two passes over it.  The invariant says    *)
(* where a pass stands: whether it is inside a comment is what the lines   *)
(* before the one in the buffer leave, and what it has run are the lines   *)
(* before that one which are no comment, in order.                         *)
(***************************************************************************)
ScriptFiles == BoundedSeq(Kinds, MaxLines)

LEMMA ScriptLines ==
  ASSUME NEW s \in ScriptFiles
  PROVE  /\ Len(s) \in Nat /\ Len(s) <= MaxLines /\ MaxLines \in Nat
         /\ s \in Seq(Kinds)
         /\ s # << >> => 1 <= Len(s)
         /\ \A k \in 1 .. Len(s) : s[k] \in Kinds
<1>1. MaxLines \in Nat
  BY ScriptsAssumption
<1>2. PICK m \in 0 .. MaxLines : s \in [1 .. m -> Kinds]
  BY <1>1 DEF ScriptFiles, BoundedSeq, SeqOf
<1>3. s \in Seq(Kinds)
  BY <1>1, <1>2, SeqDef
<1>4. Len(s) = m
  BY <1>1, <1>2, <1>3
<1> QED BY <1>1, <1>2, <1>3, <1>4, LenProperties, EmptySeq

\* The recursive function by its equation: the line before decides.
LEMMA CommentsByLine ==
  ASSUME NEW s \in ScriptFiles
  PROVE  /\ ~CommentedIn(s)[1]
         /\ \A k \in 1 .. Len(s) : CommentedIn(s)[k + 1] <=>
              IF CommentedIn(s)[k] THEN ~Closes(s[k]) ELSE s[k] = "open"
<1> DEFINE n == MaxLines
           next(k, c) == k <= Len(s) /\ IF c THEN ~Closes(s[k]) ELSE s[k] = "open"
           step == [p \in (1 .. n) \X BOOLEAN |-> next(p[1], p[2])]
           C == [k \in 1 .. n + 1 |->
                   k > 1 /\ k - 1 <= Len(s) /\
                     IF CommentedIn(s)[k - 1] THEN ~Closes(s[k - 1]) ELSE s[k - 1] = "open"]
<1>1. n \in Nat /\ Len(s) \in Nat /\ Len(s) <= n
  BY ScriptLines
<1>2. HasRounds(n, BOOLEAN, FALSE, step)
  <2>1. step \in [(1 .. n) \X BOOLEAN -> BOOLEAN]
    OBVIOUS
  <2> HIDE DEF step
  <2> QED BY <1>1, <2>1, RoundsExist
<1>3. PICK f \in [0 .. n -> BOOLEAN] :
        f = [k \in 0 .. n |-> IF k = 0 THEN FALSE ELSE step[<<k, f[k - 1]>>]]
  BY <1>2 DEF HasRounds
<1>4. \A k \in 0 .. n : f[k] <=> (k # 0 /\ next(k, f[k - 1]))
  <2> TAKE k \in 0 .. n
  <2>1. CASE k = 0
    BY <1>3, <2>1
  <2>2. CASE k # 0
    <3>1. k \in 1 .. n /\ f[k - 1] \in BOOLEAN
      BY <1>1, <2>2, SMTT(30)
    <3>2. f[k] = step[<<k, f[k - 1]>>]
      BY <1>3, <2>2
    <3>3. step[<<k, f[k - 1]>>] = next(k, f[k - 1])
      BY <3>1
    <3> HIDE DEF step, next
    <3> QED BY <2>2, <3>2, <3>3
  <2> QED BY <2>1, <2>2
<1> DEFINE g == [k \in 1 .. n + 1 |-> f[k - 1]]
<1>5. g = [k \in 1 .. n + 1 |->
             k > 1 /\ k - 1 <= Len(s) /\
               IF g[k - 1] THEN ~Closes(s[k - 1]) ELSE s[k - 1] = "open"]
  <2> SUFFICES ASSUME NEW k \in 1 .. n + 1
               PROVE  f[k - 1] = (k > 1 /\ k - 1 <= Len(s) /\
                        IF g[k - 1] THEN ~Closes(s[k - 1]) ELSE s[k - 1] = "open")
    OBVIOUS
  <2>1. k - 1 \in 0 .. n /\ (k > 1 <=> k - 1 # 0)
    BY <1>1
  <2>2. k > 1 => g[k - 1] = f[(k - 1) - 1]
    BY <1>1
  <2>3. f[k - 1] \in BOOLEAN
    BY <2>1
  <2>4. f[k - 1] <=> (k - 1 # 0 /\ next(k - 1, f[(k - 1) - 1]))
    BY <1>4, <2>1
  <2> HIDE DEF g
  <2> QED BY <2>1, <2>2, <2>3, <2>4
<1>6. CommentedIn(s) = C
  <2> HIDE DEF g
  <2> QED BY <1>5 DEF CommentedIn
<1>7. ~CommentedIn(s)[1]
  <2>1. 1 \in 1 .. n + 1 /\ ~(1 > 1)
    BY <1>1
  <2> QED BY <1>6, <2>1
<1>8. ASSUME NEW k \in 1 .. Len(s) PROVE CommentedIn(s)[k + 1] <=> IF CommentedIn(s)[k] THEN ~Closes(s[k]) ELSE s[k] = "open"
  <2>1. k + 1 \in 1 .. n + 1 /\ k + 1 > 1 /\ (k + 1) - 1 = k /\ k <= Len(s)
    BY <1>1
  <2>2. CommentedIn(s)[k + 1] = (k + 1 > 1 /\ (k + 1) - 1 <= Len(s) /\
          IF CommentedIn(s)[(k + 1) - 1] THEN ~Closes(s[(k + 1) - 1]) ELSE s[(k + 1) - 1] = "open")
    BY <1>6, <2>1
  <2> QED BY <2>1, <2>2
<1> QED BY <1>7, <1>8

\* Where the scan is, as long as the file has not ended.
ScanPlace ==
  more =>
    /\ buf <= Len(script) /\ pass \notin {"idle", "over"}
    /\ comment => \/ past = "no" /\ ~Commented[buf] /\ Here \in {"open", "boxed"}
                  \/ past = "newline" /\ (Commented[buf] \/ Here = "open")
    /\ ~comment => IF past = "newline" THEN Commented[buf] /\ Closes(Here)
                                       ELSE ~Commented[buf]

\* What has been run is a command that is not in a comment, in front of the scan.
RanSoFar ==
  /\ pass \in {"idle", "validate"} => ran = << >>
  /\ \A i \in DOMAIN ran :
       /\ ran[i] \in 1 .. Len(script) /\ ran[i] <= buf
       /\ IsCommand(script[ran[i]])
       /\ more /\ comment => ran[i] < buf

FollowersSoFar ==
  pass \in {"run", "over"} =>
    \A k \in 2 .. Len(script) : k <= buf /\ Plain(k - 1) /\ Plain(k) => Contains(ran, k)

ClosersSoFar ==
  pass \in {"run", "over"} =>
    \A k \in 1 .. Len(script) :
      /\ Commented[k] /\ script[k] = "last"
      /\ k < buf \/ (k = buf /\ ~comment)
      => Contains(ran, k)

ScriptInv ==
  /\ ScriptTypeOK
  /\ ~more => ~comment
  /\ pass = "idle" => script = << >>
  /\ pass # "idle" /\ ~more /\ script # << >> => buf = Len(script)
  /\ ScanPlace /\ RanSoFar /\ FollowersSoFar /\ ClosersSoFar
  /\ InsideNotRun /\ RunInOrder

LEMMA ScriptStarts == ScriptInit => ScriptInv
<1> SUFFICES ASSUME ScriptInit PROVE ScriptInv
  OBVIOUS
<1>1. script = << >> /\ Len(script) = 0 /\ ran = << >> /\ DOMAIN ran = {}
  BY DEF ScriptInit
<1>2. ScriptTypeOK
  <2>1. script \in [1 .. 0 -> Kinds]
    BY <1>1
  <2>2. 0 \in 0 .. MaxLines /\ 1 \in 1 .. MaxLines + 1
    BY ScriptsAssumption
  <2>3. script \in BoundedSeq(Kinds, MaxLines)
    BY <2>1, <2>2 DEF BoundedSeq, SeqOf
  <2> QED BY <1>1, <2>2, <2>3, EmptySeq DEF ScriptTypeOK, ScriptInit
<1> QED BY <1>1, <1>2 DEF ScriptInit, ScriptInv, ScanPlace, RanSoFar, FollowersSoFar,
             ClosersSoFar, InsideNotRun, RunInOrder

\* LoadScript and EndPass begin a walk over the lines.
LEMMA LoadKeepsInv ==
  ASSUME ScriptInv, LoadScript
  PROVE  ScriptInv'
<1>1. ran = << >> /\ ran' = << >> /\ DOMAIN ran' = {} /\ DOMAIN ran = {}
  BY DEF ScriptInv, RanSoFar, LoadScript
<1>2. ScriptTypeOK'
  <2>1. 1 \in 1 .. MaxLines + 1
    BY ScriptsAssumption
  <2> QED BY <1>1, <2>1, EmptySeq DEF LoadScript, StartPass, ScriptTypeOK
<1>3. /\ Len(script') \in Nat /\ (script' # << >> => 1 <= Len(script'))
      /\ ~CommentedIn(script')[1]
  <2>1. script' \in ScriptFiles
    BY <1>2 DEF ScriptTypeOK, ScriptFiles
  <2> QED BY <2>1, ScriptLines, CommentsByLine
<1>4. ~Commented'[1]
  BY <1>3 DEF Commented
<1>5. pass' = "validate" /\ buf' = 1 /\ (more' <=> script' # << >>) /\ comment' = FALSE /\ past' = "no"
  BY DEF LoadScript, StartPass
<1>6. ScanPlace'
  <2>1. more' => 1 <= Len(script')
    BY <1>3, <1>5
  <2> QED BY <1>4, <1>5, <2>1 DEF ScanPlace
<1>7. RanSoFar' /\ FollowersSoFar' /\ ClosersSoFar' /\ InsideNotRun' /\ RunInOrder'
  BY <1>1, <1>5 DEF RanSoFar, FollowersSoFar, ClosersSoFar, InsideNotRun, RunInOrder
<1> QED BY <1>2, <1>5, <1>6, <1>7 DEF ScriptInv

LEMMA EndPassKeepsInv ==
  ASSUME ScriptInv, EndPass
  PROVE  ScriptInv'
<1>1. script' = script /\ ran' = ran /\ Commented' = Commented /\ more = FALSE
  BY DEF EndPass, StartPass, Commented, ScriptInv, ScriptTypeOK
<1>2. /\ Len(script) \in Nat /\ MaxLines \in Nat /\ (script # << >> => 1 <= Len(script))
      /\ ~Commented[1]
  BY ScriptLines, CommentsByLine DEF ScriptInv, ScriptTypeOK, ScriptFiles, Commented
<1>3. \A k : Plain(k)' = Plain(k)
  BY <1>1 DEF Plain
<1>4. CASE pass = "validate"
  <2>1. pass' = "run" /\ buf' = 1 /\ (more' <=> script # << >>) /\ comment' = FALSE /\ past' = "no"
    BY <1>4 DEF EndPass, StartPass
  <2>2. ran = << >> /\ DOMAIN ran = {}
    BY <1>4 DEF ScriptInv, RanSoFar
  <2>3. ScriptTypeOK'
    <3>1. buf' \in 1 .. MaxLines + 1
      BY <1>2, <2>1
    <3>2. more' \in BOOLEAN /\ comment' \in BOOLEAN
      BY <1>4 DEF EndPass, StartPass
    <3> QED BY <1>1, <2>1, <3>1, <3>2 DEF ScriptInv, ScriptTypeOK
  <2>4. ScanPlace'
    <3>1. more' => 1 <= Len(script')
      BY <1>1, <1>2, <2>1
    <3> QED BY <1>1, <1>2, <2>1, <3>1 DEF ScanPlace
  <2>5. RanSoFar' /\ InsideNotRun' /\ RunInOrder'
    BY <1>1, <2>1, <2>2 DEF RanSoFar, InsideNotRun, RunInOrder
  <2>6. FollowersSoFar'
    <3>1. \A k \in 2 .. Len(script') : ~(k <= buf')
      BY <2>1
    <3> QED BY <3>1 DEF FollowersSoFar
  <2>7. ClosersSoFar'
    <3>1. \A k \in 1 .. Len(script') : k < buf' \/ k = buf' => k = 1
      BY <1>2, <2>1
    <3> QED BY <1>1, <1>2, <3>1 DEF ClosersSoFar
  <2> QED BY <1>1, <2>1, <2>3, <2>4, <2>5, <2>6, <2>7 DEF ScriptInv
<1>5. CASE pass = "run"
  <2>1. pass' = "over" /\ buf' = buf /\ more' = more /\ comment' = comment /\ past' = past
    BY <1>5 DEF EndPass
  <2>2. ScriptTypeOK'
    BY <1>1, <2>1 DEF ScriptInv, ScriptTypeOK
  <2>3. ScanPlace'
    BY <1>1, <2>1 DEF ScanPlace
  <2>4. RanSoFar' /\ InsideNotRun' /\ RunInOrder'
    BY <1>1, <2>1 DEF ScriptInv, RanSoFar, InsideNotRun, RunInOrder
  <2>5. FollowersSoFar'
    BY <1>1, <1>3, <1>5, <2>1 DEF ScriptInv, FollowersSoFar
  <2>6. ClosersSoFar'
    BY <1>1, <1>5, <2>1 DEF ScriptInv, ClosersSoFar
  <2> QED BY <1>1, <1>5, <2>1, <2>2, <2>3, <2>4, <2>5, <2>6 DEF ScriptInv
<1> QED BY <1>4, <1>5 DEF EndPass

LEMMA ScanFacts ==
  ASSUME ScriptInv, ~Ended
  PROVE  /\ Len(script) \in Nat /\ Len(script) <= MaxLines /\ MaxLines \in Nat
         /\ buf \in 1 .. Len(script) /\ Here \in Kinds
         /\ more = TRUE /\ pass \in {"validate", "run"} /\ script # << >>
         /\ script \in ScriptFiles /\ ScanPlace
         /\ buf < Len(script) => Commented[buf + 1] <=>
              IF Commented[buf] THEN ~Closes(Here) ELSE Here = "open"
<1>1. script \in ScriptFiles /\ buf \in 1 .. MaxLines + 1 /\ ScanPlace
  BY DEF ScriptInv, ScriptTypeOK, ScriptFiles
<1>2. more = TRUE /\ pass \in {"validate", "run"}
  BY DEF ScriptInv, ScriptTypeOK, Ended
<1>3. buf <= Len(script)
  BY <1>1, <1>2 DEF ScanPlace
<1>4. /\ Len(script) \in Nat /\ Len(script) <= MaxLines /\ MaxLines \in Nat
      /\ \A k \in 1 .. Len(script) : script[k] \in Kinds
  BY <1>1, ScriptLines
<1>5. buf \in 1 .. Len(script)
  BY <1>1, <1>3, <1>4
<1>6. script # << >>
  BY <1>4, <1>5
<1> QED BY <1>1, <1>2, <1>4, <1>5, <1>6, CommentsByLine DEF Commented, Here

\* Behind a line that opens no comment: the scan goes on outside comments.
LEMMA NextLine ==
  ASSUME ScriptInv, AtLine, Fgets, past' = "no", UNCHANGED <<script, pass, comment>>,
         past # "newline" => Here # "open"
  PROVE  /\ ScanPlace'
         /\ buf' \in 1 .. Len(script) /\ buf <= buf' /\ more' \in BOOLEAN
         /\ buf < Len(script) => buf' = buf + 1
         /\ ~(buf < Len(script)) => buf' = buf
         /\ ~more' => buf' = Len(script)
<1>1. ~Ended /\ ~comment
  BY DEF AtLine
<1>2. Commented' = Commented
  BY DEF Commented
<1>3. CASE buf < Len(script)
  <2>1. buf' = buf + 1 /\ more' = TRUE
    BY <1>3 DEF Fgets
  <2>2. ~Commented[buf + 1]
    BY <1>1, <1>3, ScanFacts DEF ScanPlace
  <2>3. buf' <= Len(script) /\ pass \notin {"idle", "over"}
    BY <1>1, <1>3, <2>1, ScanFacts
  <2>4. ScanPlace'
    BY <1>1, <1>2, <2>1, <2>2, <2>3 DEF ScanPlace
  <2> QED BY <1>1, <1>3, <2>1, <2>4, ScanFacts
<1>4. CASE ~(buf < Len(script))
  <2>1. buf' = buf /\ more' = FALSE
    BY <1>4 DEF Fgets
  <2>2. buf = Len(script)
    BY <1>1, <1>4, ScanFacts
  <2>3. ScanPlace'
    BY <2>1 DEF ScanPlace
  <2>4. buf' \in 1 .. Len(script) /\ buf <= buf'
    BY <1>1, <2>1, ScanFacts
  <2>5. more' \in BOOLEAN
    BY <2>1
  <2> QED BY <1>4, <2>1, <2>2, <2>3, <2>4, <2>5
<1> QED BY <1>3, <1>4

\* handle_cmd on line k, which is behind what has been run.
LEMMA RunKeeps ==
  ASSUME ScriptInv, ~Ended, NEW k \in 1 .. Len(script), Run(k),
         UNCHANGED <<script, pass>>, ~comment', buf' \in 1 .. Len(script), k <= buf', buf <= buf',
         Commented[k] /\ IsCommand(script[k]) => Closes(script[k]),
         \A i \in DOMAIN ran : ran[i] < k \/ (ran[i] = k /\ k = Len(script))
  PROVE  /\ ran' \in Seq(1 .. MaxLines) /\ RanSoFar' /\ InsideNotRun' /\ RunInOrder'
         /\ \A j : Contains(ran, j) => Contains(ran', j)
         /\ pass = "run" /\ IsCommand(script[k]) => Contains(ran', k)
<1>1. /\ ran \in Seq(1 .. MaxLines) /\ Len(ran) \in Nat /\ DOMAIN ran = 1 .. Len(ran)
      /\ \A i \in 1 .. Len(ran) : ran[i] \in 1 .. Len(script) /\ ran[i] <= buf
  BY LenProperties DEF ScriptInv, ScriptTypeOK, RanSoFar
<1>2. Commented' = Commented
  BY DEF Commented
<1>3. k \in 1 .. MaxLines /\ pass \in {"validate", "run"} /\ buf \in 1 .. Len(script) /\ Len(script) \in Nat
  BY ScanFacts
<1>4. CASE ~(pass = "run" /\ IsCommand(script[k]))
  <2>1. ran' = ran
    BY <1>4 DEF Run
  <2>2. \A i \in DOMAIN ran : ran[i] <= buf'
    BY <1>1, <1>3
  <2>3. RanSoFar'
    BY <1>2, <2>1, <2>2 DEF ScriptInv, RanSoFar
  <2>4. InsideNotRun' /\ RunInOrder'
    BY <1>2, <2>1 DEF ScriptInv, InsideNotRun, RunInOrder
  <2> QED BY <1>1, <1>4, <2>1, <2>3, <2>4
<1>5. CASE pass = "run" /\ IsCommand(script[k])
  <2> DEFINE n == Len(ran)
  <2>1. ran' = Append(ran, k)
    BY <1>5 DEF Run
  <2>2. /\ ran' \in Seq(1 .. MaxLines) /\ Len(ran') = n + 1 /\ DOMAIN ran' = 1 .. n + 1
        /\ \A i \in 1 .. n : ran'[i] = ran[i]
        /\ ran'[n + 1] = k
    BY <1>1, <1>3, <2>1, AppendProperties, LenProperties
  <2> HIDE DEF n
  <2>n. n \in Nat /\ \A i \in 1 .. n + 1 : i \in 1 .. n \/ i = n + 1
    BY <1>1 DEF n
  <2>3. RanSoFar'
    <3>1. ASSUME NEW i \in 1 .. n + 1
          PROVE  ran'[i] \in 1 .. Len(script) /\ ran'[i] <= buf' /\ IsCommand(script[ran'[i]])
      <4>1. CASE i = n + 1
        BY <1>5, <2>2, <4>1
      <4>2. CASE i \in 1 .. n
        <5>1. ran[i] \in 1 .. Len(script) /\ ran[i] <= buf'
          BY <1>1, <1>3, <4>2 DEF n
        <5>2. IsCommand(script[ran[i]])
          BY <1>1, <4>2 DEF ScriptInv, RanSoFar, n
        <5> QED BY <2>2, <4>2, <5>1, <5>2
      <4> QED BY <2>n, <4>1, <4>2
    <3> QED BY <1>5, <2>2, <3>1 DEF RanSoFar
  <2>4. InsideNotRun'
    <3>1. ASSUME NEW i \in 1 .. n + 1, Commented[ran'[i]] PROVE Closes(script[ran'[i]])
      <4>1. CASE i = n + 1
        BY <1>5, <2>2, <3>1, <4>1
      <4>2. CASE i \in 1 .. n
        <5>1. Commented[ran[i]] => Closes(script[ran[i]])
          BY <1>1, <4>2 DEF ScriptInv, InsideNotRun, n
        <5> QED BY <2>2, <3>1, <4>2, <5>1
      <4> QED BY <2>n, <4>1, <4>2
    <3> QED BY <1>2, <2>2, <3>1 DEF InsideNotRun
  <2>5. RunInOrder'
    <3>1. ASSUME NEW i \in 1 .. n + 1, i > 1
          PROVE  ran'[i - 1] < ran'[i] \/ (ran'[i - 1] = ran'[i] /\ ran'[i] = Len(script))
      <4>1. i - 1 \in 1 .. n /\ ran'[i - 1] = ran[i - 1]
        BY <2>2, <2>n, <3>1
      <4>2. CASE i = n + 1
        <5>1. ran[i - 1] < k \/ (ran[i - 1] = k /\ k = Len(script))
          BY <1>1, <4>1 DEF n
        <5> QED BY <2>2, <4>1, <4>2, <5>1
      <4>3. CASE i \in 1 .. n
        <5>1. ran[i - 1] < ran[i] \/ (ran[i - 1] = ran[i] /\ ran[i] = Len(script))
          BY <1>1, <3>1, <4>3 DEF ScriptInv, RunInOrder, n
        <5> QED BY <2>2, <4>1, <4>3, <5>1
      <4> QED BY <2>n, <4>2, <4>3
    <3> QED BY <2>2, <3>1 DEF RunInOrder
  <2>6. \A j : Contains(ran, j) => Contains(ran', j)
    BY <2>2, <2>n DEF Contains, n
  <2>7. Contains(ran', k)
    BY <2>2, <2>n DEF Contains
  <2> QED BY <2>2, <2>3, <2>4, <2>5, <2>6, <2>7
<1> QED BY <1>4, <1>5

\* A line of the script is left behind: no command with one in front is missed.
LEMMA FollowersKept ==
  ASSUME ScriptInv, ~Ended, UNCHANGED <<script, pass>>, buf' = buf \/ buf' = buf + 1,
         \A j : Contains(ran, j) => Contains(ran', j),
         pass = "run" /\ Plain(buf) /\ Plain(buf + 1) /\ buf' = buf + 1 => Contains(ran', buf + 1)
  PROVE  FollowersSoFar'
<1>1. Commented' = Commented
  BY DEF Commented
<1>2. \A k : Plain(k)' = Plain(k)
  BY <1>1 DEF Plain
<1>3. buf \in 1 .. Len(script) /\ Len(script) \in Nat /\ pass \in {"validate", "run"}
  BY ScanFacts
<1>4. ASSUME pass = "run", NEW k \in 2 .. Len(script), k <= buf', Plain(k - 1), Plain(k)
      PROVE  Contains(ran', k)
  <2>1. CASE k <= buf
    BY <1>4, <2>1 DEF ScriptInv, FollowersSoFar
  <2>2. CASE ~(k <= buf)
    <3>1. k = buf + 1 /\ buf' = buf + 1 /\ k - 1 = buf
      BY <1>3, <1>4, <2>2
    <3> QED BY <1>4, <3>1
  <2> QED BY <2>1, <2>2
<1> QED BY <1>2, <1>3, <1>4 DEF FollowersSoFar

\* A line of the script is left behind: no command that ends a comment is missed.
LEMMA ClosersKept ==
  ASSUME ScriptInv, ~Ended, UNCHANGED <<script, pass>>, buf' = buf \/ buf' = buf + 1,
         \A j : Contains(ran, j) => Contains(ran', j),
         pass = "run" /\ comment /\ Here = "last" => Contains(ran', buf),
         buf' = buf + 1 /\ ~comment' => ~Commented[buf + 1]
  PROVE  ClosersSoFar'
<1>1. Commented' = Commented
  BY DEF Commented
<1>2. buf \in 1 .. Len(script) /\ Len(script) \in Nat /\ pass \in {"validate", "run"}
  BY ScanFacts
<1>3. ASSUME pass = "run", NEW k \in 1 .. Len(script), Commented[k], script[k] = "last",
             k < buf' \/ (k = buf' /\ ~comment')
      PROVE  Contains(ran', k)
  <2>1. CASE k < buf
    BY <1>3, <2>1 DEF ScriptInv, ClosersSoFar
  <2>2. CASE k = buf
    BY <1>3, <2>2 DEF ScriptInv, ClosersSoFar, Here
  <2>3. CASE ~(k < buf) /\ k # buf
    <3>1. k = buf + 1 /\ buf' = buf + 1 /\ ~comment'
      BY <1>2, <1>3, <2>3
    <3> QED BY <1>3, <3>1
  <2> QED BY <2>1, <2>2, <2>3
<1> QED BY <1>1, <1>2, <1>3 DEF ClosersSoFar

LEMMA SkipKeepsInv ==
  ASSUME ScriptInv, SkipLine
  PROVE  ScriptInv'
<1>1. /\ ~Ended /\ ~comment /\ AtLine /\ Fgets /\ past' = "no"
      /\ UNCHANGED <<script, pass, comment, ran>>
      /\ past = "newline" \/ Here \in {"blank", "note"}
  BY DEF SkipLine, AtLine
<1>2. /\ ScanPlace'
      /\ buf' \in 1 .. Len(script) /\ buf <= buf' /\ more' \in BOOLEAN
      /\ buf < Len(script) => buf' = buf + 1
      /\ ~(buf < Len(script)) => buf' = buf
      /\ ~more' => buf' = Len(script)
  BY <1>1, NextLine
<1>3. /\ buf \in 1 .. Len(script) /\ Len(script) \in Nat /\ Len(script) <= MaxLines
      /\ more = TRUE /\ pass \in {"validate", "run"} /\ ScanPlace
  BY <1>1, ScanFacts
<1>4. Commented' = Commented
  BY <1>1 DEF Commented
<1>5. ScriptTypeOK'
  <2>1. buf' \in 1 .. MaxLines + 1
    BY <1>2, <1>3, ScriptsAssumption
  <2> QED BY <1>1, <1>2, <2>1 DEF ScriptInv, ScriptTypeOK
<1>6. RanSoFar'
  <2>1. \A i \in DOMAIN ran : ran[i] \in 1 .. Len(script) /\ ran[i] <= buf /\ IsCommand(script[ran[i]])
    BY DEF ScriptInv, RanSoFar
  <2>2. \A i \in DOMAIN ran : ran[i] <= buf'
    BY <1>2, <1>3, <2>1
  <2>3. pass \in {"idle", "validate"} => ran = << >>
    BY DEF ScriptInv, RanSoFar
  <2> QED BY <1>1, <2>1, <2>2, <2>3 DEF RanSoFar
<1>7. FollowersSoFar'
  <2>1. ~Plain(buf)
    BY <1>1, <1>3 DEF ScanPlace, Plain, IsCommand, Here
  <2>2. buf' = buf \/ buf' = buf + 1
    BY <1>2
  <2> QED BY <1>1, <2>1, <2>2, FollowersKept
<1>8. InsideNotRun' /\ RunInOrder'
  BY <1>1, <1>4 DEF ScriptInv, InsideNotRun, RunInOrder
<1>9. ClosersSoFar'
  <2>1. buf' = buf + 1 => ~Commented[buf + 1]
    BY <1>1, <1>2, <1>3, ScanFacts DEF ScanPlace
  <2>2. buf' = buf \/ buf' = buf + 1
    BY <1>2
  <2> QED BY <1>1, <2>1, <2>2, ClosersKept
<1> QED BY <1>1, <1>2, <1>3, <1>5, <1>6, <1>7, <1>8, <1>9 DEF ScriptInv

LEMMA EnterKeepsInv ==
  ASSUME ScriptInv, EnterComment
  PROVE  ScriptInv'
<1>1. /\ ~Ended /\ ~comment /\ past # "newline" /\ Here \in {"open", "boxed"}
      /\ comment' = TRUE /\ past' = "no"
      /\ UNCHANGED <<script, pass, buf, more, ran>>
  BY DEF EnterComment, AtLine
<1>2. /\ buf \in 1 .. Len(script) /\ Len(script) \in Nat
      /\ more = TRUE /\ pass \in {"validate", "run"} /\ ScanPlace
  BY <1>1, ScanFacts
<1>3. Commented' = Commented
  BY <1>1 DEF Commented
<1>4. ScriptTypeOK'
  BY <1>1 DEF ScriptInv, ScriptTypeOK
<1>5. ScanPlace'
  BY <1>1, <1>2, <1>3 DEF ScanPlace, Here
<1>6. RanSoFar'
  <2>1. ASSUME NEW i \in DOMAIN ran PROVE ran[i] < buf
    <3>1. ran[i] \in 1 .. Len(script) /\ ran[i] <= buf /\ IsCommand(script[ran[i]])
      BY DEF ScriptInv, RanSoFar
    <3>2. ran[i] # buf
      BY <1>1, <3>1 DEF IsCommand, Here
    <3> QED BY <1>2, <3>1, <3>2
  <2> QED BY <1>1, <2>1 DEF ScriptInv, RanSoFar
<1>7. FollowersSoFar'
  BY <1>1, <1>2, FollowersKept
<1>8. InsideNotRun' /\ RunInOrder'
  BY <1>1, <1>3 DEF ScriptInv, InsideNotRun, RunInOrder
<1>9. ClosersSoFar'
  BY <1>1, <1>2, ClosersKept
<1> QED BY <1>1, <1>2, <1>4, <1>5, <1>6, <1>7, <1>8, <1>9 DEF ScriptInv

LEMMA ScanOnKeepsInv ==
  ASSUME ScriptInv, ScanOn
  PROVE  ScriptInv'
<1>1. /\ ~Ended /\ comment /\ ~Closes(Here) /\ past' = "newline"
      /\ buf' = IF buf < Len(script) THEN buf + 1 ELSE buf
      /\ UNCHANGED <<script, pass, more, comment, ran>>
  BY DEF ScanOn
<1>2. /\ buf \in 1 .. Len(script) /\ Len(script) \in Nat /\ Len(script) <= MaxLines
      /\ more = TRUE /\ pass \in {"validate", "run"} /\ ScanPlace
      /\ buf < Len(script) => Commented[buf + 1] <=>
           IF Commented[buf] THEN ~Closes(Here) ELSE Here = "open"
  BY <1>1, ScanFacts
<1>3. Commented' = Commented
  BY <1>1 DEF Commented
<1>4. Commented[buf] \/ Here = "open"
  BY <1>1, <1>2 DEF ScanPlace, Closes
<1>5. buf' \in 1 .. Len(script) /\ buf <= buf' /\ (buf' = buf \/ buf' = buf + 1)
  BY <1>1, <1>2
<1>6. ScriptTypeOK'
  <2>1. buf' \in 1 .. MaxLines + 1
    BY <1>2, <1>5, ScriptsAssumption
  <2> QED BY <1>1, <2>1 DEF ScriptInv, ScriptTypeOK
<1>7. ScanPlace'
  <2>1. Commented[buf'] \/ script[buf'] = "open"
    <3>1. CASE buf < Len(script)
      <4>1. Commented[buf + 1]
        BY <1>1, <1>2, <1>4, <3>1
      <4> QED BY <1>1, <3>1, <4>1
    <3>2. CASE ~(buf < Len(script))
      BY <1>1, <1>4, <3>2 DEF Here
    <3> QED BY <3>1, <3>2
  <2>2. buf' <= Len(script)
    BY <1>2, <1>5
  <2> QED BY <1>1, <1>2, <1>3, <2>1, <2>2 DEF ScanPlace, Here
<1>8. RanSoFar'
  <2>1. ASSUME NEW i \in DOMAIN ran PROVE ran[i] \in 1 .. Len(script) /\ ran[i] < buf
    BY <1>1, <1>2 DEF ScriptInv, RanSoFar
  <2>2. ASSUME NEW i \in DOMAIN ran PROVE ran[i] < buf' /\ ran[i] <= buf'
    BY <1>2, <1>5, <2>1
  <2> QED BY <1>1, <2>2 DEF ScriptInv, RanSoFar
<1>9. FollowersSoFar'
  <2>1. ~Plain(buf)
    BY <1>4 DEF Plain, IsCommand, Here
  <2> QED BY <1>1, <1>5, <2>1, FollowersKept
<1>10. InsideNotRun' /\ RunInOrder'
  BY <1>1, <1>3 DEF ScriptInv, InsideNotRun, RunInOrder
<1>11. ClosersSoFar'
  <2>1. Here # "last"
    BY <1>1 DEF Closes
  <2> QED BY <1>1, <1>5, <2>1, ClosersKept
<1> QED BY <1>1, <1>2, <1>6, <1>7, <1>8, <1>9, <1>10, <1>11 DEF ScriptInv

LEMMA LeaveKeepsInv ==
  ASSUME ScriptInv, LeaveComment
  PROVE  ScriptInv'
<1>1. /\ ~Ended /\ comment /\ Closes(Here) /\ comment' = FALSE /\ Run(buf)
      /\ past' = IF past = "newline" THEN "newline" ELSE "end"
      /\ UNCHANGED <<script, pass, buf, more>>
  BY DEF LeaveComment
<1>2. /\ buf \in 1 .. Len(script) /\ Len(script) \in Nat
      /\ more = TRUE /\ pass \in {"validate", "run"} /\ ScanPlace
  BY <1>1, ScanFacts
<1>3. Commented' = Commented
  BY <1>1 DEF Commented
<1>4. \A i \in DOMAIN ran : ran[i] < buf
  BY <1>1, <1>2 DEF ScriptInv, RanSoFar
<1>5. /\ ran' \in Seq(1 .. MaxLines) /\ RanSoFar' /\ InsideNotRun' /\ RunInOrder'
      /\ \A j : Contains(ran, j) => Contains(ran', j)
      /\ pass = "run" /\ IsCommand(script[buf]) => Contains(ran', buf)
  <2>1. buf' \in 1 .. Len(script) /\ buf <= buf' /\ ~comment'
    BY <1>1, <1>2
  <2>2. Commented[buf] /\ IsCommand(script[buf]) => Closes(script[buf])
    BY <1>1 DEF Here
  <2> QED BY <1>1, <1>2, <1>4, <2>1, <2>2, RunKeeps
<1>6. ScriptTypeOK'
  BY <1>1, <1>5 DEF ScriptInv, ScriptTypeOK
<1>7. ScanPlace'
  BY <1>1, <1>2, <1>3 DEF ScanPlace, Here, Closes
<1>8. FollowersSoFar'
  <2>1. buf' = buf /\ buf' # buf + 1
    BY <1>1, <1>2
  <2> QED BY <1>1, <1>5, <2>1, FollowersKept
<1>9. ClosersSoFar'
  <2>1. buf' = buf /\ buf' # buf + 1
    BY <1>1, <1>2
  <2>2. pass = "run" /\ Here = "last" => Contains(ran', buf)
    BY <1>5 DEF IsCommand, Here
  <2> QED BY <1>1, <1>5, <2>1, <2>2, ClosersKept
<1> QED BY <1>1, <1>2, <1>5, <1>6, <1>7, <1>8, <1>9 DEF ScriptInv

LEMMA TakeKeepsInv ==
  ASSUME ScriptInv, TakeCommand
  PROVE  ScriptInv'
<1>1. /\ ~Ended /\ ~comment /\ AtLine /\ past # "newline" /\ Here \in {"command", "last", "close"}
      /\ Fgets /\ past' = "no" /\ Run(buf') /\ UNCHANGED <<script, pass, comment>>
  BY DEF TakeCommand, AtLine
<1>2. /\ ScanPlace'
      /\ buf' \in 1 .. Len(script) /\ buf <= buf' /\ more' \in BOOLEAN
      /\ buf < Len(script) => buf' = buf + 1
      /\ ~(buf < Len(script)) => buf' = buf
      /\ ~more' => buf' = Len(script)
  BY <1>1, NextLine
<1>3. /\ buf \in 1 .. Len(script) /\ Len(script) \in Nat /\ Len(script) <= MaxLines
      /\ more = TRUE /\ pass \in {"validate", "run"} /\ ScanPlace
      /\ buf < Len(script) => Commented[buf + 1] <=>
           IF Commented[buf] THEN ~Closes(Here) ELSE Here = "open"
  BY <1>1, ScanFacts
<1>4. ~Commented[buf]
  BY <1>1, <1>3 DEF ScanPlace
<1>5. ~Commented[buf']
  <2>1. buf < Len(script) => ~Commented[buf + 1]
    BY <1>1, <1>3, <1>4
  <2> QED BY <1>2, <1>4, <2>1
<1>6. \A i \in DOMAIN ran : ran[i] < buf' \/ (ran[i] = buf' /\ buf' = Len(script))
  <2>1. \A i \in DOMAIN ran : ran[i] \in 1 .. Len(script) /\ ran[i] <= buf
    BY DEF ScriptInv, RanSoFar
  <2> QED BY <1>2, <1>3, <2>1
<1>7. /\ ran' \in Seq(1 .. MaxLines) /\ RanSoFar' /\ InsideNotRun' /\ RunInOrder'
      /\ \A j : Contains(ran, j) => Contains(ran', j)
      /\ pass = "run" /\ IsCommand(script[buf']) => Contains(ran', buf')
  <2>1. ~comment' /\ buf' <= buf'
    BY <1>1, <1>2, <1>3
  <2> QED BY <1>1, <1>2, <1>5, <1>6, <2>1, RunKeeps
<1>8. ScriptTypeOK'
  <2>1. buf' \in 1 .. MaxLines + 1
    BY <1>2, <1>3, ScriptsAssumption
  <2> QED BY <1>1, <1>2, <1>7, <2>1 DEF ScriptInv, ScriptTypeOK
<1>9. FollowersSoFar'
  <2>1. buf' = buf \/ buf' = buf + 1
    BY <1>2
  <2>2. pass = "run" /\ Plain(buf + 1) /\ buf' = buf + 1 => Contains(ran', buf + 1)
    BY <1>7 DEF Plain
  <2> QED BY <1>1, <1>7, <2>1, <2>2, FollowersKept
<1>10. ClosersSoFar'
  <2>1. buf' = buf \/ buf' = buf + 1
    BY <1>2
  <2> QED BY <1>1, <1>5, <1>7, <2>1, ClosersKept
<1> QED BY <1>1, <1>2, <1>3, <1>7, <1>8, <1>9, <1>10 DEF ScriptInv

LEMMA ScriptStepKeepsInv ==
  ScriptInv /\ [LoadScript \/ ScriptStep]_scriptVars => ScriptInv'
<1> SUFFICES ASSUME ScriptInv, [LoadScript \/ ScriptStep]_scriptVars PROVE ScriptInv'
  OBVIOUS
<1>1. CASE UNCHANGED scriptVars
  <2>1. UNCHANGED <<script, pass, buf, more, comment, past, ran>>
    BY <1>1 DEF scriptVars
  <2>2. Commented' = Commented
    BY <2>1 DEF Commented
  <2>3. /\ ScriptTypeOK' /\ ScanPlace' /\ RanSoFar' /\ FollowersSoFar' /\ ClosersSoFar'
        /\ InsideNotRun' /\ RunInOrder'
    BY <2>1, <2>2 DEF ScriptInv, ScriptTypeOK, ScanPlace, Here, RanSoFar, FollowersSoFar, Plain,
         ClosersSoFar, InsideNotRun, RunInOrder
  <2> QED BY <2>1, <2>3 DEF ScriptInv
<1> QED BY <1>1, LoadKeepsInv, SkipKeepsInv, EnterKeepsInv, ScanOnKeepsInv, LeaveKeepsInv,
         TakeKeepsInv, EndPassKeepsInv DEF ScriptStep

(***************************************************************************)
(* For scripts of any number of lines: what the look-ahead of runscript    *)
(* hands to handle_cmd lies not wholly in a comment and comes in the order *)
(* of the file, no command behind a command is lost, and a command in      *)
(* front of the end of a comment is run (winvde_mgmt.c:893).               *)
(***************************************************************************)
THEOREM ScriptsRunAsWritten == ScriptSpec => []ScriptRunsAsWritten
<1>1. ScriptInv => ScriptRunsAsWritten
  <2> SUFFICES ASSUME ScriptInv PROVE FollowersRun /\ ClosersRun
    BY DEF ScriptInv, ScriptRunsAsWritten
  <2>1. script \in ScriptFiles /\ DOMAIN script = 1 .. Len(script) /\ Len(script) \in Nat
    <3>1. script \in ScriptFiles
      BY DEF ScriptInv, ScriptTypeOK, ScriptFiles
    <3>2. script \in Seq(Kinds)
      BY <3>1, ScriptLines
    <3> QED BY <3>1, <3>2, LenProperties
  <2>2. pass = "over" /\ 1 <= Len(script) => ~more /\ ~comment /\ buf = Len(script)
    BY <2>1 DEF ScriptInv, ScanPlace
  <2>3. ASSUME pass = "over", NEW k \in 2 .. Len(script), Plain(k - 1), Plain(k)
        PROVE  Contains(ran, k)
    BY <2>1, <2>2, <2>3 DEF ScriptInv, FollowersSoFar
  <2>4. ASSUME pass = "over", NEW k \in DOMAIN script, Commented[k], script[k] = "last"
        PROVE  Contains(ran, k)
    BY <2>1, <2>2, <2>4 DEF ScriptInv, ClosersSoFar
  <2> QED BY <2>3, <2>4 DEF FollowersRun, ClosersRun
<1> QED BY <1>1, ScriptStarts, ScriptStepKeepsInv, PTL DEF ScriptSpec

-----------------------------------------------------------------------------
(***************************************************************************)
(* winvde_plug.  The invariant says what the scan of the words has found   *)
(* so far (BehindDash and ValuesBehind hold until the program refuses its  *)
(* words) and which of the URLs found have an open handle.                 *)
(***************************************************************************)
PlugTexts == PlugWords \cup {"="}

\* What BehindDash finds between the dash and the next word.
UrlsAndCommand ==
  urls \o (IF first_arg = 0 THEN << >> ELSE <<"=">> \o SubSeq(argv, first_arg, at - 1))

PlugStarted ==
  /\ plugMode = "start" =>
       /\ at = 1 /\ ~lastdash /\ first_arg = 0
       /\ \A o \in PlugValued : plugOpt[o] = NotGiven
  /\ at <= Len(argv) + 1 /\ first_arg <= at
  /\ ~lastdash => urls = << >>

HandlesOfUrls ==
  /\ Len(handles) <= Len(urls)
  /\ \A i \in 1 .. Len(handles) : handles[i] = UrlModule[urls[i]]
  /\ \A m \in PlugModules :
       loads[m] = Cardinality({i \in 1 .. Len(handles) : UrlModule[urls[i]] = m})

PlugOpened ==
  /\ plugMode \in {"start", "options", "refused", "idle", "none"} => handles = << >>
  /\ plugMode \in {"start", "options", "open"} => HandlesOfUrls
  /\ plugMode = "open" => Len(handles) < Len(urls)
  /\ plugMode \in {"stream", "command", "second"} /\ Len(handles) = Len(urls) => HandlesOfUrls
  /\ Len(handles) <= Len(urls)

PlugInv ==
  /\ PlugTypeOK /\ PlugStarted /\ PlugOpened
  /\ plugMode # "refused" => BehindDash /\ ValuesBehind

LEMMA PlugFacts ==
  ASSUME PlugInv
  PROVE  /\ argv \in Seq(PlugWords) /\ Len(argv) \in Nat
         /\ \A i \in 1 .. Len(argv) : argv[i] \in PlugWords /\ argv[i] \in PlugTexts
         /\ argv \in Seq(PlugTexts)
         /\ at \in 1 .. Len(argv) + 1 /\ first_arg \in 0 .. at
         /\ urls \in Seq(PlugWords) /\ urls \in Seq(PlugTexts) /\ Len(urls) \in Nat /\ Len(urls) <= 2
         /\ \A i \in 1 .. Len(urls) : urls[i] \in PlugWords
         /\ handles \in Seq(PlugModules) /\ Len(handles) \in Nat
<1>1. argv \in Seq(PlugWords) /\ urls \in Seq(PlugWords) /\ handles \in Seq(PlugModules)
  BY DEF PlugInv, PlugTypeOK
<1>2. Len(argv) \in Nat /\ \A i \in 1 .. Len(argv) : argv[i] \in PlugWords
  BY <1>1, LenProperties, ElementOfSeq
<1>3. Len(urls) \in Nat /\ \A i \in 1 .. Len(urls) : urls[i] \in PlugWords
  BY <1>1, LenProperties, ElementOfSeq
<1>4. Len(handles) \in Nat
  BY <1>1, LenProperties
<1>5. argv \in Seq(PlugTexts) /\ urls \in Seq(PlugTexts)
  <2>1. PlugWords \subseteq PlugTexts
    BY DEF PlugTexts
  <2> QED BY <1>1, <2>1, SeqMonotonic
<1>6. at \in 1 .. Len(argv) + 1 /\ first_arg \in 0 .. at
  BY <1>2 DEF PlugInv, PlugTypeOK, PlugStarted
<1>7. Len(urls) <= 2
  BY DEF PlugInv, PlugTypeOK
<1>8. \A i \in 1 .. Len(argv) : argv[i] \in PlugTexts
  BY <1>2 DEF PlugTexts
<1> QED BY <1>1, <1>2, <1>3, <1>4, <1>5, <1>6, <1>7, <1>8

LEMMA PlugStarts == PlugInit => PlugInv
<1> SUFFICES ASSUME PlugInit PROVE PlugInv
  OBVIOUS
<1>1. /\ argv = << >> /\ Len(argv) = 0 /\ at = 1 /\ ~lastdash /\ first_arg = 0
      /\ urls = << >> /\ Len(urls) = 0 /\ plugMode = "start"
      /\ handles = << >> /\ Len(handles) = 0
  BY DEF PlugInit
<1>2. PlugTypeOK
  <2>1. plugOpt \in [PlugFlags \cup PlugValued -> PlugWords \cup {NotGiven}]
    BY DEF PlugInit
  <2>2. loads \in [PlugModules -> 0 .. 2]
    BY DEF PlugInit
  <2>3. at \in 1 .. Len(argv) + 2 /\ first_arg \in 0 .. Len(argv) + 1 /\ Len(urls) <= 2
    BY <1>1
  <2>4. argv \in Seq(PlugWords) /\ urls \in Seq(PlugWords) /\ handles \in Seq(PlugModules)
    BY <1>1, EmptySeq
  <2>5. lastdash \in BOOLEAN /\ plugMode \in PlugModes
    BY DEF PlugInit, PlugModes
  <2> QED BY <2>1, <2>2, <2>3, <2>4, <2>5 DEF PlugTypeOK
<1>3. PlugStarted
  BY <1>1 DEF PlugStarted, PlugInit
<1>4. PlugOpened
  <2>1. HandlesOfUrls
    <3>1. \A i \in 1 .. Len(handles) : FALSE
      BY <1>1
    <3>2. \A m \in PlugModules : {i \in 1 .. Len(handles) : UrlModule[urls[i]] = m} = {}
      BY <3>1
    <3>3. \A m \in PlugModules : loads[m] = 0
      BY DEF PlugInit
    <3> QED BY <1>1, <3>1, <3>2, <3>3, FS_EmptySet DEF HandlesOfUrls
  <2> QED BY <1>1, <2>1 DEF PlugOpened
<1>5. BehindDash /\ ValuesBehind
  BY <1>1, <1>3 DEF BehindDash, ValuesBehind, PlugStarted
<1> QED BY <1>2, <1>3, <1>4, <1>5 DEF PlugInv

\* While the arguments are read nothing is open.
LEMMA NothingOpened ==
  ASSUME PlugInv, handles = << >>, handles' = << >>, loads' = loads, Len(urls') \in Nat,
         plugMode \in {"start", "options"},
         plugMode' \in {"start", "options", "refused", "crashed", "idle", "open"},
         plugMode' = "open" => 0 < Len(urls')
  PROVE  PlugOpened'
<1>1. Len(handles) = 0 /\ Len(handles') = 0
  OBVIOUS
<1>2. \A i \in 1 .. Len(handles) : FALSE
  BY <1>1
<1>3. \A i \in 1 .. Len(handles') : FALSE
  BY <1>1
<1>4. ASSUME NEW m \in PlugModules
      PROVE  loads'[m] = Cardinality({i \in 1 .. Len(handles') : UrlModule[urls'[i]] = m})
  <2>1. loads[m] = Cardinality({i \in 1 .. Len(handles) : UrlModule[urls[i]] = m})
    BY DEF PlugInv, PlugOpened, HandlesOfUrls
  <2>2. {i \in 1 .. Len(handles) : UrlModule[urls[i]] = m} = {}
    BY <1>2
  <2>3. {i \in 1 .. Len(handles') : UrlModule[urls'[i]] = m} = {}
    BY <1>3
  <2> QED BY <2>1, <2>2, <2>3
<1>5. HandlesOfUrls'
  BY <1>1, <1>3, <1>4 DEF HandlesOfUrls
<1> QED BY <1>1, <1>5 DEF PlugOpened

\* The values of the options are where they were as the index goes on.
LEMMA ValuesKept ==
  ASSUME PlugInv, ValuesBehind, argv' = argv, at' \in Nat, at <= at',
         \A o \in PlugValued : plugOpt'[o] = plugOpt[o]
  PROVE  ValuesBehind'
<1>1. at \in Nat
  BY PlugFacts
<1>2. ASSUME NEW o \in PlugValued, plugOpt[o] # NotGiven
      PROVE  \E j \in 1 .. at' - 2 : argv[j] = o /\ argv[j + 1] = plugOpt[o]
  <2>1. PICK j \in 1 .. at - 2 : argv[j] = o /\ argv[j + 1] = plugOpt[o]
    BY <1>2 DEF ValuesBehind
  <2>2. \A a, b \in Nat : a <= b => \A k \in 1 .. a - 2 : k \in 1 .. b - 2
    OBVIOUS
  <2>3. j \in 1 .. at' - 2
    BY <1>1, <2>2
  <2> QED BY <2>1, <2>3
<1> QED BY <1>2 DEF ValuesBehind

LEMMA GiveKeepsInv ==
  ASSUME PlugInv, NEW w \in PlugWords, GiveArg(w)
  PROVE  PlugInv'
<1>1. /\ plugMode = "start" /\ argv' = Append(argv, w)
      /\ UNCHANGED <<at, plugOpt, lastdash, first_arg, urls, plugMode, handles, loads>>
  BY DEF GiveArg
<1>2. /\ at = 1 /\ ~lastdash /\ first_arg = 0
      /\ \A o \in PlugValued : plugOpt[o] = NotGiven
  BY <1>1 DEF PlugInv, PlugStarted
<1>3. argv' \in Seq(PlugWords) /\ Len(argv') = Len(argv) + 1 /\ Len(argv) \in Nat
  BY <1>1, PlugFacts, AppendProperties
<1>4. PlugTypeOK'
  <2>1. at' \in 1 .. Len(argv') + 2 /\ first_arg' \in 0 .. Len(argv') + 1
    BY <1>1, <1>2, <1>3
  <2> QED BY <1>1, <1>3, <2>1 DEF PlugInv, PlugTypeOK
<1>5. PlugStarted'
  <2>1. at' <= Len(argv') + 1 /\ first_arg' <= at'
    BY <1>1, <1>2, <1>3
  <2> QED BY <1>1, <1>2, <2>1 DEF PlugInv, PlugStarted
<1>6. PlugOpened'
  BY <1>1, PlugFacts, NothingOpened DEF PlugInv, PlugOpened
<1>7. BehindDash' /\ ValuesBehind'
  BY <1>1, <1>2 DEF BehindDash, ValuesBehind
<1> QED BY <1>4, <1>5, <1>6, <1>7 DEF PlugInv

\* The end of the options, and the starts that nothing is read in.
LEMMA ModeKeepsInv ==
  ASSUME PlugInv, StartPlug \/ BadOption \/ BadWord \/ ThirdUrl \/ OptionsRead
  PROVE  PlugInv'
<1>1. /\ UNCHANGED <<argv, at, plugOpt, lastdash, first_arg, urls, handles, loads>>
      /\ plugMode \in {"start", "options"} /\ plugMode' \in {"options", "refused", "crashed", "idle", "open"}
      /\ plugMode' = "open" => urls # << >>
  BY DEF StartPlug, BadOption, BadWord, ThirdUrl, RefuseArgs, OptionsRead
<1>2. PlugTypeOK'
  BY <1>1 DEF PlugInv, PlugTypeOK, PlugModes
<1>3. PlugStarted'
  BY <1>1 DEF PlugInv, PlugStarted
<1>4. PlugOpened'
  <2>1. plugMode' = "open" => 0 < Len(urls')
    BY <1>1, PlugFacts, EmptySeq
  <2>2. Len(urls') \in Nat
    BY <1>1, PlugFacts
  <2> QED BY <1>1, <2>1, <2>2, NothingOpened DEF PlugInv, PlugOpened
<1>5. BehindDash' /\ ValuesBehind'
  BY <1>1 DEF PlugInv, BehindDash, ValuesBehind
<1> QED BY <1>2, <1>3, <1>4, <1>5 DEF PlugInv

\* What a word that does not end the program leaves as it was.
LEMMA WordRead ==
  ASSUME PlugInv, NEW n \in 1 .. 2, ReadsWord(n), at + n <= Len(argv) + 1,
         plugOpt' \in [PlugFlags \cup PlugValued -> PlugWords \cup {NotGiven}],
         lastdash' \in BOOLEAN, first_arg' \in 0 .. at + n,
         urls' \in Seq(PlugWords), Len(urls') <= 2, ~lastdash' => urls' = << >>
  PROVE  /\ PlugTypeOK' /\ PlugStarted' /\ PlugOpened'
         /\ argv' = argv /\ at' = at + n /\ at \in 1 .. Len(argv)
         /\ plugMode' # "refused" /\ BehindDash /\ ValuesBehind
<1>1. /\ plugMode = "options" /\ plugMode' = "options" /\ at <= Len(argv) /\ at' = at + n
      /\ argv' = argv /\ handles' = handles /\ loads' = loads
  BY DEF ReadsWord
<1>2. /\ at \in 1 .. Len(argv) /\ Len(argv) \in Nat
      /\ at' \in 1 .. Len(argv') + 2 /\ first_arg' \in 0 .. Len(argv') + 1
      /\ at' <= Len(argv') + 1 /\ first_arg' <= at'
  BY <1>1, PlugFacts
<1>3. PlugTypeOK'
  BY <1>1, <1>2 DEF PlugInv, PlugTypeOK
<1>4. PlugStarted'
  BY <1>1, <1>2 DEF PlugStarted
<1>5. PlugOpened'
  <2>1. handles = << >>
    BY <1>1 DEF PlugInv, PlugOpened
  <2>2. Len(urls') \in Nat
    BY LenProperties
  <2> QED BY <1>1, <2>1, <2>2, NothingOpened
<1> QED BY <1>1, <1>2, <1>3, <1>4, <1>5 DEF PlugInv

\* One word more behind the dash.
LEMMA WordBehind ==
  ASSUME PlugInv, lastdash, BehindDash, at <= Len(argv),
         argv' = argv, at' = at + 1, lastdash' = lastdash,
         UrlsAndCommand \o <<argv[at]>> = UrlsAndCommand'
  PROVE  BehindDash'
<1>1. at \in 1 .. Len(argv) /\ Len(argv) \in Nat /\ argv \in Seq(PlugWords)
  BY PlugFacts
<1>2. PICK d \in 1 .. at - 1 : argv[d] = "-" /\ SubSeq(argv, d + 1, at - 1) = UrlsAndCommand
  BY DEF BehindDash, UrlsAndCommand
<1>3. SubSeq(argv, d + 1, at) = SubSeq(argv, d + 1, at - 1) \o <<argv[at]>>
  <2>1. d + 1 \in 1 .. Len(argv) /\ at \in d + 1 .. Len(argv)
    BY <1>1
  <2> QED BY <1>1, <2>1, SubSeqRecursiveSecond
<1>4. d \in 1 .. at' - 1 /\ at' - 1 = at
  BY <1>1
<1>5. SubSeq(argv, d + 1, at' - 1) = UrlsAndCommand'
  BY <1>2, <1>3, <1>4
<1> QED BY <1>2, <1>4, <1>5 DEF BehindDash, UrlsAndCommand

LEMMA FlagKeepsInv ==
  ASSUME PlugInv, PlugFlag
  PROVE  PlugInv'
<1>1. /\ ReadsWord(1) /\ ~lastdash /\ first_arg = 0 /\ Word \in PlugFlags
      /\ plugOpt' = [plugOpt EXCEPT ![Word] = Word]
      /\ UNCHANGED <<lastdash, first_arg, urls>>
  BY DEF PlugFlag, InOptions
<1>2. Word \in PlugWords /\ at \in Nat /\ Len(argv) \in Nat /\ at + 1 <= Len(argv) + 1
  BY <1>1, PlugFacts DEF ReadsWord, Word
<1>3. /\ plugOpt' \in [PlugFlags \cup PlugValued -> PlugWords \cup {NotGiven}]
      /\ \A o \in PlugValued : plugOpt'[o] = plugOpt[o]
  <2>1. \A o \in PlugValued : o # Word
    BY <1>1 DEF PlugFlags, PlugValued, PlugOnce
  <2> HIDE DEF Word
  <2> QED BY <1>1, <1>2, <2>1 DEF PlugInv, PlugTypeOK
<1>4. /\ PlugTypeOK' /\ PlugStarted' /\ PlugOpened'
      /\ argv' = argv /\ at' = at + 1
      /\ ValuesBehind
  <2>1. first_arg' \in 0 .. at + 1 /\ 1 \in 1 .. 2
    BY <1>1, <1>2
  <2>2. lastdash' \in BOOLEAN /\ urls' \in Seq(PlugWords) /\ Len(urls') <= 2 /\ (~lastdash' => urls' = << >>)
    BY <1>1 DEF PlugInv, PlugTypeOK, PlugStarted
  <2> QED BY <1>1, <1>2, <1>3, <2>1, <2>2, WordRead
<1>5. ValuesBehind'
  <2>1. at' \in Nat /\ at <= at'
    BY <1>2, <1>4
  <2> QED BY <1>3, <1>4, <2>1, ValuesKept
<1>6. BehindDash'
  BY <1>1 DEF BehindDash
<1> QED BY <1>4, <1>5, <1>6 DEF PlugInv

LEMMA ValueKeepsInv ==
  ASSUME PlugInv, PlugValue
  PROVE  PlugInv'
<1>1. /\ ReadsWord(2) /\ ~lastdash /\ first_arg = 0 /\ Word \in PlugValued /\ at < Len(argv)
      /\ plugOpt' = [plugOpt EXCEPT ![Word] = argv[at + 1]]
      /\ UNCHANGED <<lastdash, first_arg, urls>>
  BY DEF PlugValue, InOptions
<1>2. argv[at + 1] \in PlugWords /\ at \in 1 .. Len(argv) /\ Len(argv) \in Nat /\ at + 2 <= Len(argv) + 1
  BY <1>1, PlugFacts
<1>3. /\ plugOpt' \in [PlugFlags \cup PlugValued -> PlugWords \cup {NotGiven}]
      /\ \A o \in PlugValued : plugOpt'[o] = IF o = Word THEN argv[at + 1] ELSE plugOpt[o]
  BY <1>1, <1>2 DEF PlugInv, PlugTypeOK
<1>4. /\ PlugTypeOK' /\ PlugStarted' /\ PlugOpened'
      /\ argv' = argv /\ at' = at + 2
      /\ ValuesBehind
  <2>1. first_arg' \in 0 .. at + 2 /\ 2 \in 1 .. 2
    BY <1>1, <1>2
  <2>2. lastdash' \in BOOLEAN /\ urls' \in Seq(PlugWords) /\ Len(urls') <= 2 /\ (~lastdash' => urls' = << >>)
    BY <1>1 DEF PlugInv, PlugTypeOK, PlugStarted
  <2> QED BY <1>1, <1>2, <1>3, <2>1, <2>2, WordRead
<1>5. ValuesBehind'
  <2>1. ASSUME NEW o \in PlugValued, plugOpt'[o] # NotGiven
        PROVE  \E j \in 1 .. at' - 2 : argv[j] = o /\ argv[j + 1] = plugOpt'[o]
    <3>1. CASE o = Word
      <4>1. at \in 1 .. at' - 2
        BY <1>2, <1>4
      <4> QED BY <1>3, <3>1, <4>1 DEF Word
    <3>2. CASE o # Word
      <4>1. plugOpt'[o] = plugOpt[o]
        BY <1>3, <3>2
      <4>2. PICK j \in 1 .. at - 2 : argv[j] = o /\ argv[j + 1] = plugOpt[o]
        BY <1>4, <2>1, <4>1 DEF ValuesBehind
      <4>3. j \in 1 .. at' - 2
        BY <1>2, <1>4
      <4> QED BY <4>1, <4>2, <4>3
    <3> QED BY <3>1, <3>2
  <2> QED BY <1>4, <2>1 DEF ValuesBehind
<1>6. BehindDash'
  BY <1>1 DEF BehindDash
<1> QED BY <1>4, <1>5, <1>6 DEF PlugInv

LEMMA DashKeepsInv ==
  ASSUME PlugInv, LoneDash \/ EqualsPassedOver
  PROVE  PlugInv'
<1>1. /\ ReadsWord(1) /\ ~lastdash /\ first_arg = 0
      /\ UNCHANGED <<plugOpt, first_arg, urls>>
      /\ (Word = "-" /\ lastdash' = TRUE) \/ lastdash' = FALSE
  BY DEF LoneDash, EqualsPassedOver, InOptions, PlugInv, PlugTypeOK
<1>2. at \in 1 .. Len(argv) /\ Len(argv) \in Nat /\ at + 1 <= Len(argv) + 1 /\ urls = << >>
  BY <1>1, PlugFacts DEF ReadsWord, PlugInv, PlugStarted
<1>3. /\ PlugTypeOK' /\ PlugStarted' /\ PlugOpened'
      /\ argv' = argv /\ at' = at + 1
      /\ ValuesBehind
  <2>1. first_arg' \in 0 .. at + 1 /\ 1 \in 1 .. 2
    BY <1>1, <1>2
  <2>2. lastdash' \in BOOLEAN /\ urls' \in Seq(PlugWords) /\ Len(urls') <= 2 /\ urls' = << >>
    BY <1>1, <1>2 DEF PlugInv, PlugTypeOK
  <2>3. plugOpt' \in [PlugFlags \cup PlugValued -> PlugWords \cup {NotGiven}]
    BY <1>1 DEF PlugInv, PlugTypeOK
  <2> QED BY <1>1, <1>2, <2>1, <2>2, <2>3, WordRead
<1>4. ValuesBehind'
  <2>1. at' \in Nat /\ at <= at'
    BY <1>2, <1>3
  <2> QED BY <1>1, <1>3, <2>1, ValuesKept
<1>5. BehindDash'
  <2>1. CASE lastdash' = FALSE
    BY <2>1 DEF BehindDash
  <2>2. CASE Word = "-"
    <3>1. at \in 1 .. at' - 1 /\ argv[at] = "-"
      BY <1>2, <1>3, <2>2 DEF Word
    <3>2. SubSeq(argv, at + 1, at' - 1) = << >>
      <4>1. at + 1 \in Int /\ at' - 1 \in Int /\ at' - 1 < at + 1
        BY <1>2, <1>3
      <4> QED BY <4>1, SubSeqEmpty
    <3>3. urls' \o << >> = << >>
      BY <1>1, <1>2
    <3> QED BY <1>1, <1>3, <3>1, <3>2, <3>3 DEF BehindDash
  <2> QED BY <1>1, <2>1, <2>2
<1> QED BY <1>3, <1>4, <1>5 DEF PlugInv

LEMMA CommandBeginsKeepsInv ==
  ASSUME PlugInv, CommandBegins
  PROVE  PlugInv'
<1>1. /\ ReadsWord(1) /\ first_arg = 0 /\ first_arg' = at + 1 /\ (lastdash => Word = "=")
      /\ UNCHANGED <<plugOpt, lastdash, urls>>
  BY DEF CommandBegins
<1>2. at \in 1 .. Len(argv) /\ Len(argv) \in Nat /\ at + 1 <= Len(argv) + 1
  BY <1>1, PlugFacts DEF ReadsWord
<1>3. /\ PlugTypeOK' /\ PlugStarted' /\ PlugOpened'
      /\ argv' = argv /\ at' = at + 1
      /\ ValuesBehind /\ BehindDash
  <2>1. first_arg' \in 0 .. at + 1 /\ 1 \in 1 .. 2
    BY <1>1, <1>2
  <2>2. /\ plugOpt' \in [PlugFlags \cup PlugValued -> PlugWords \cup {NotGiven}]
        /\ lastdash' \in BOOLEAN /\ urls' \in Seq(PlugWords) /\ Len(urls') <= 2
        /\ ~lastdash' => urls' = << >>
    BY <1>1 DEF PlugInv, PlugTypeOK, PlugStarted
  <2> QED BY <1>1, <1>2, <2>1, <2>2, WordRead
<1>4. ValuesBehind'
  <2>1. at' \in Nat /\ at <= at'
    BY <1>2, <1>3
  <2> QED BY <1>1, <1>3, <2>1, ValuesKept
<1>5. BehindDash'
  <2>1. CASE lastdash
    <3>1. argv[at] = "="
      BY <1>1, <2>1 DEF Word
    <3>2. UrlsAndCommand = urls
      BY <1>1, PlugFacts, ConcatEmptySeq DEF UrlsAndCommand
    <3>3. SubSeq(argv', first_arg', at' - 1) = << >>
      <4>1. first_arg' \in Int /\ at' - 1 \in Int /\ at' - 1 < first_arg'
        BY <1>1, <1>2, <1>3
      <4> QED BY <4>1, SubSeqEmpty
    <3>4. first_arg' # 0
      BY <1>1, <1>2
    <3>5. <<"=">> \o << >> = <<"=">>
      BY ConcatEmptySeq DEF PlugTexts
    <3>6. UrlsAndCommand' = urls \o <<"=">>
      BY <1>1, <3>3, <3>4, <3>5 DEF UrlsAndCommand
    <3> QED BY <1>1, <1>2, <1>3, <2>1, <3>1, <3>2, <3>6, WordBehind
  <2>2. CASE ~lastdash
    BY <1>1, <2>2 DEF BehindDash
  <2> QED BY <2>1, <2>2
<1> QED BY <1>3, <1>4, <1>5 DEF PlugInv

LEMMA CommandWordKeepsInv ==
  ASSUME PlugInv, CommandWord
  PROVE  PlugInv'
<1>1. /\ ReadsWord(1) /\ first_arg # 0
      /\ UNCHANGED <<plugOpt, lastdash, first_arg, urls>>
  BY DEF CommandWord
<1>2. /\ at \in 1 .. Len(argv) /\ Len(argv) \in Nat /\ at + 1 <= Len(argv) + 1
      /\ first_arg \in 1 .. at /\ first_arg \in 1 .. Len(argv)
  BY <1>1, PlugFacts DEF ReadsWord
<1>3. /\ PlugTypeOK' /\ PlugStarted' /\ PlugOpened'
      /\ argv' = argv /\ at' = at + 1
      /\ ValuesBehind /\ BehindDash
  <2>1. first_arg' \in 0 .. at + 1 /\ 1 \in 1 .. 2
    BY <1>1, <1>2
  <2>2. /\ plugOpt' \in [PlugFlags \cup PlugValued -> PlugWords \cup {NotGiven}]
        /\ lastdash' \in BOOLEAN /\ urls' \in Seq(PlugWords) /\ Len(urls') <= 2
        /\ ~lastdash' => urls' = << >>
    BY <1>1 DEF PlugInv, PlugTypeOK, PlugStarted
  <2> QED BY <1>1, <1>2, <2>1, <2>2, WordRead
<1>4. ValuesBehind'
  <2>1. at' \in Nat /\ at <= at'
    BY <1>2, <1>3
  <2> QED BY <1>1, <1>3, <2>1, ValuesKept
<1>5. BehindDash'
  <2>1. CASE lastdash
    <3> DEFINE E == <<"=">>
               Z == SubSeq(argv, first_arg, at - 1)
               x == <<argv[at]>>
    <3>1. urls \in Seq(PlugTexts) /\ E \in Seq(PlugTexts) /\ x \in Seq(PlugTexts) /\ Z \in Seq(PlugTexts)
      <4>1. argv[at] \in PlugTexts /\ "=" \in PlugTexts /\ \A i \in first_arg .. at - 1 : argv[i] \in PlugTexts
        BY <1>2, PlugFacts DEF PlugTexts
      <4>2. first_arg \in Int /\ at - 1 \in Int
        BY <1>2
      <4> QED BY <4>1, <4>2, PlugFacts, SubSeqProperties
    <3>2. SubSeq(argv, first_arg, at) = Z \o x
      <4>1. at \in first_arg .. Len(argv)
        BY <1>2
      <4> QED BY <1>2, <4>1, PlugFacts, SubSeqRecursiveSecond
    <3>3. UrlsAndCommand = urls \o (E \o Z)
      BY <1>1 DEF UrlsAndCommand
    <3>4. at' - 1 = at
      BY <1>2, <1>3
    <3>5. UrlsAndCommand' = urls \o (E \o (Z \o x))
      BY <1>1, <1>3, <3>2, <3>4 DEF UrlsAndCommand
    <3> HIDE DEF E, Z
    <3>6. (urls \o (E \o Z)) \o x = urls \o (E \o (Z \o x))
      <4> HIDE DEF x
      <4>1. E \o Z \in Seq(PlugTexts)
        BY <3>1, ConcatProperties
      <4>2. (urls \o (E \o Z)) \o x = urls \o ((E \o Z) \o x)
        BY <3>1, <4>1, ConcatAssociative, SMTT(30)
      <4>3. (E \o Z) \o x = E \o (Z \o x)
        BY <3>1, ConcatAssociative, SMTT(30)
      <4> QED BY <4>2, <4>3
    <3>7. UrlsAndCommand \o <<argv[at]>> = UrlsAndCommand'
      BY <3>3, <3>5, <3>6
    <3>8. lastdash' = lastdash /\ at <= Len(argv)
      BY <1>1, <1>2
    <3> QED BY <1>3, <2>1, <3>7, <3>8, WordBehind
  <2>2. CASE ~lastdash
    BY <1>1, <2>2 DEF BehindDash
  <2> QED BY <2>1, <2>2
<1> QED BY <1>3, <1>4, <1>5 DEF PlugInv

LEMMA UrlKeepsInv ==
  ASSUME PlugInv, UrlWord
  PROVE  PlugInv'
<1>1. /\ ReadsWord(1) /\ lastdash /\ first_arg = 0 /\ Len(urls) < 2
      /\ urls' = Append(urls, Word)
      /\ UNCHANGED <<plugOpt, lastdash, first_arg>>
  BY DEF UrlWord
<1>2. /\ at \in 1 .. Len(argv) /\ Len(argv) \in Nat /\ at + 1 <= Len(argv) + 1
      /\ Word \in PlugWords
  BY <1>1, PlugFacts DEF ReadsWord, Word
<1>3. urls' \in Seq(PlugWords) /\ Len(urls') <= 2 /\ urls' = urls \o <<argv[at]>>
  <2>1. urls' \in Seq(PlugWords) /\ Len(urls') = Len(urls) + 1
    BY <1>1, <1>2, PlugFacts, AppendProperties
  <2>2. urls' = urls \o <<Word>>
    BY <1>1, <1>2, PlugFacts, AppendIsConcat
  <2> QED BY <1>1, <2>1, <2>2, PlugFacts DEF Word
<1>4. /\ PlugTypeOK' /\ PlugStarted' /\ PlugOpened'
      /\ argv' = argv /\ at' = at + 1
      /\ ValuesBehind /\ BehindDash
  <2>1. first_arg' \in 0 .. at + 1 /\ 1 \in 1 .. 2
    BY <1>1, <1>2
  <2>2. /\ plugOpt' \in [PlugFlags \cup PlugValued -> PlugWords \cup {NotGiven}]
        /\ lastdash' \in BOOLEAN /\ (~lastdash' => urls' = << >>)
    BY <1>1 DEF PlugInv, PlugTypeOK, PlugStarted
  <2> QED BY <1>1, <1>2, <1>3, <2>1, <2>2, WordRead
<1>5. ValuesBehind'
  <2>1. at' \in Nat /\ at <= at'
    BY <1>2, <1>4
  <2> QED BY <1>1, <1>4, <2>1, ValuesKept
<1>6. BehindDash'
  <2>1. UrlsAndCommand = urls
    BY <1>1, PlugFacts, ConcatEmptySeq DEF UrlsAndCommand
  <2>2. UrlsAndCommand' = urls'
    BY <1>1, <1>3, ConcatEmptySeq DEF UrlsAndCommand
  <2> QED BY <1>1, <1>2, <1>3, <1>4, <2>1, <2>2, WordBehind
<1> QED BY <1>4, <1>5, <1>6 DEF PlugInv

LEMMA OpenFailsKeepsInv ==
  ASSUME PlugInv, NEW i \in 1 .. 2, OpenFails(i)
  PROVE  PlugInv'
<1>1. /\ plugMode = "open" /\ Len(handles) = i - 1
      /\ plugMode' = IF i = 1 THEN "none" ELSE "plug"
      /\ UNCHANGED <<argv, at, plugOpt, lastdash, first_arg, urls, handles, loads>>
  BY DEF OpenFails
<1>2. PlugTypeOK'
  BY <1>1 DEF PlugInv, PlugTypeOK, PlugModes
<1>3. PlugStarted'
  BY <1>1 DEF PlugInv, PlugStarted
<1>4. i = 1 => handles = << >>
  BY <1>1, PlugFacts, EmptySeq
<1>5. PlugOpened'
  BY <1>1, <1>4 DEF PlugInv, PlugOpened
<1> QED BY <1>1, <1>2, <1>3, <1>5 DEF PlugInv, BehindDash, ValuesBehind

LEMMA OpenWorksKeepsInv ==
  ASSUME PlugInv, NEW i \in 1 .. 2, OpenWorks(i)
  PROVE  PlugInv'
<1> DEFINE n == Len(handles)
           x == UrlModule[urls[i]]
           At(m) == {j \in 1 .. n : UrlModule[urls[j]] = m}
<1>1. /\ plugMode = "open" /\ n = i - 1 /\ i <= Len(urls)
      /\ handles' = Append(handles, x)
      /\ loads' = [loads EXCEPT ![x] = @ + 1]
      /\ plugMode' \in {"second", "open", "command", "stream"}
      /\ plugMode' = "open" => i = 1 /\ Len(urls) = 2
      /\ UNCHANGED <<argv, at, plugOpt, lastdash, first_arg, urls>>
  BY DEF OpenWorks
<1>2. /\ n \in Nat /\ i = n + 1 /\ n < 2 /\ Len(urls) \in Nat /\ Len(urls) <= 2
      /\ handles \in Seq(PlugModules)
  BY <1>1, PlugFacts
<1>3. x \in PlugModules
  BY <1>1, PlugFacts DEF PlugModules
<1>4. /\ handles' \in Seq(PlugModules) /\ Len(handles') = n + 1
      /\ \A j \in 1 .. n : handles'[j] = handles[j]
      /\ handles'[n + 1] = x
  BY <1>1, <1>2, <1>3, AppendProperties
<1>5. /\ \A j \in 1 .. n : handles[j] = UrlModule[urls[j]]
      /\ \A m \in PlugModules : loads[m] = Cardinality(At(m))
  BY <1>1 DEF PlugInv, PlugOpened, HandlesOfUrls
<1>6. loads \in [PlugModules -> 0 .. 2]
  BY DEF PlugInv, PlugTypeOK
<1>7. ASSUME NEW m \in PlugModules
      PROVE  /\ IsFiniteSet(At(m)) /\ n + 1 \notin At(m)
             /\ Cardinality(At(m)) \in Nat /\ Cardinality(At(m)) <= n
             /\ Cardinality(At(m) \cup {n + 1}) = Cardinality(At(m)) + 1
             /\ {j \in 1 .. n + 1 : UrlModule[urls[j]] = m} =
                  IF m = x THEN At(m) \cup {n + 1} ELSE At(m)
  <2>1. IsFiniteSet(1 .. n) /\ Cardinality(1 .. n) = n
    <3>1. 1 \in Int /\ n \in Int
      BY <1>2
    <3> HIDE DEF n
    <3>2. Cardinality(1 .. n) = IF 1 > n THEN 0 ELSE n - 1 + 1
      BY <3>1, FS_Interval
    <3> QED BY <1>2, <3>1, <3>2, FS_Interval
  <2>2. At(m) \in SUBSET (1 .. n)
    OBVIOUS
  <2>3. IsFiniteSet(At(m)) /\ Cardinality(At(m)) <= n
    <3> HIDE DEF At, n
    <3> QED BY <2>1, <2>2, FS_Subset
  <2>4. n + 1 \notin At(m)
    BY <1>2
  <2>5. Cardinality(At(m)) \in Nat /\ Cardinality(At(m) \cup {n + 1}) = Cardinality(At(m)) + 1
    <3> HIDE DEF At
    <3> QED BY <2>3, <2>4, FS_CardinalityType, FS_AddElement
  <2>6. \A j \in 1 .. n + 1 : j \in 1 .. n \/ j = n + 1
    BY <1>2
  <2>7. n + 1 \in 1 .. n + 1 /\ \A j \in 1 .. n : j \in 1 .. n + 1
    BY <1>2
  <2>8. x = UrlModule[urls[n + 1]]
    BY <1>2
  <2>9. {j \in 1 .. n + 1 : UrlModule[urls[j]] = m} = IF m = x THEN At(m) \cup {n + 1} ELSE At(m)
    <3> HIDE DEF n, x
    <3> QED BY <2>6, <2>7, <2>8
  <2> QED BY <2>3, <2>4, <2>5, <2>9
<1> HIDE DEF At
<1>8. \A m \in PlugModules : loads'[m] = IF m = x THEN loads[m] + 1 ELSE loads[m]
  BY <1>1, <1>3, <1>6
<1>9. loads' \in [PlugModules -> 0 .. 2]
  <2>1. loads[x] + 1 \in 0 .. 2
    <3> HIDE DEF x
    <3>1. loads[x] = Cardinality(At(x)) /\ Cardinality(At(x)) \in Nat /\ Cardinality(At(x)) <= n
      BY <1>3, <1>5, <1>7
    <3> QED BY <1>2, <3>1
  <2> HIDE DEF x
  <2> QED BY <1>1, <1>3, <1>6, <2>1
<1>10. HandlesOfUrls'
  <2>1. Len(handles') <= Len(urls')
    BY <1>1, <1>2, <1>4
  <2>2. ASSUME NEW j \in 1 .. n + 1 PROVE handles'[j] = UrlModule[urls'[j]]
    <3>1. j \in 1 .. n \/ j = n + 1
      BY <1>2
    <3> QED BY <1>1, <1>2, <1>4, <1>5, <3>1
  <2>3. ASSUME NEW m \in PlugModules
        PROVE  loads'[m] = Cardinality({j \in 1 .. n + 1 : UrlModule[urls[j]] = m})
    <3> HIDE DEF x, n
    <3> QED BY <1>5, <1>7, <1>8
  <2> HIDE DEF n, x
  <2> QED BY <1>1, <1>4, <2>1, <2>2, <2>3 DEF HandlesOfUrls
<1>11. PlugTypeOK'
  BY <1>1, <1>4, <1>9 DEF PlugInv, PlugTypeOK, PlugModes
<1>12. PlugStarted'
  BY <1>1 DEF PlugInv, PlugStarted
<1>13. PlugOpened'
  <2>1. ASSUME plugMode' = "open" PROVE Len(handles') < Len(urls')
    <3>1. i = 1 /\ Len(urls) = 2 /\ urls' = urls
      BY <1>1, <2>1
    <3>2. Len(handles') = 1
      BY <1>1, <1>2, <1>4, <3>1
    <3> QED BY <3>1, <3>2
  <2>2. Len(handles') <= Len(urls')
    BY <1>10 DEF HandlesOfUrls
  <2>3. plugMode' \notin {"start", "options", "refused", "idle", "none"}
    BY <1>1
  <2> QED BY <1>10, <2>1, <2>2, <2>3 DEF PlugOpened
<1>14. BehindDash' /\ ValuesBehind'
  BY <1>1 DEF PlugInv, BehindDash, ValuesBehind
<1> QED BY <1>11, <1>12, <1>13, <1>14 DEF PlugInv

LEMMA CloseKeepsInv ==
  ASSUME PlugInv, CloseHandle
  PROVE  PlugInv'
<1>1. /\ plugMode \in {"plug", "command", "stream", "second"} /\ handles # << >>
      /\ UNCHANGED <<argv, at, plugOpt, lastdash, first_arg, urls>>
      /\ plugMode' = plugMode \/ plugMode' = "crashed"
  BY DEF CloseHandle
<1>2. BehindDash' /\ ValuesBehind' /\ PlugStarted'
  <2>1. plugMode # "refused" /\ plugMode' # "start"
    BY <1>1
  <2>2. PlugStarted'
    BY <1>1, <2>1 DEF PlugInv, PlugStarted
  <2> QED BY <1>1, <2>1, <2>2 DEF PlugInv, BehindDash, ValuesBehind
<1>3. CASE loads[Head(handles)] < 2
  <2>1. plugMode' = "crashed" /\ handles' = handles /\ loads' = loads
    BY <1>3 DEF CloseHandle
  <2>2. PlugTypeOK'
    BY <1>1, <2>1 DEF PlugInv, PlugTypeOK, PlugModes
  <2>3. PlugOpened'
    BY <1>1, <2>1 DEF PlugInv, PlugOpened
  <2> QED BY <1>2, <2>2, <2>3 DEF PlugInv
<1>4. CASE ~(loads[Head(handles)] < 2)
  <2>1. /\ handles' = Tail(handles) /\ plugMode' = plugMode
        /\ loads' = [loads EXCEPT ![Head(handles)] = @ - 2]
    BY <1>4 DEF CloseHandle
  <2>2. /\ Head(handles) \in PlugModules /\ handles' \in Seq(PlugModules)
        /\ Len(handles') = Len(handles) - 1
    BY <1>1, <2>1, PlugFacts, HeadTailProperties
  <2>3. loads' \in [PlugModules -> 0 .. 2]
    <3>1. loads \in [PlugModules -> 0 .. 2]
      BY DEF PlugInv, PlugTypeOK
    <3>2. loads[Head(handles)] - 2 \in 0 .. 2
      BY <1>4, <2>2, <3>1
    <3> QED BY <2>1, <3>1, <3>2
  <2>4. PlugTypeOK'
    BY <1>1, <2>1, <2>2, <2>3 DEF PlugInv, PlugTypeOK
  <2>5. PlugOpened'
    <3>1. Len(handles) <= Len(urls)
      BY DEF PlugInv, PlugOpened
    <3>2. Len(handles') < Len(urls') /\ Len(handles') <= Len(urls') /\ Len(handles') # Len(urls')
      BY <1>1, <2>2, <3>1, PlugFacts
    <3>3. plugMode' \in {"plug", "command", "stream", "second"}
      BY <1>1, <2>1
    <3> QED BY <3>2, <3>3 DEF PlugOpened
  <2> QED BY <1>2, <2>4, <2>5 DEF PlugInv
<1> QED BY <1>3, <1>4

LEMMA PlugStepKeepsInv == PlugInv /\ [PlugNext]_plugVars => PlugInv'
<1> SUFFICES ASSUME PlugInv, [PlugNext]_plugVars PROVE PlugInv'
  OBVIOUS
<1>1. CASE UNCHANGED plugVars
  <2>1. UNCHANGED <<argv, at, plugOpt, lastdash, first_arg, urls, plugMode, handles, loads>>
    BY <1>1 DEF plugVars
  <2>2. PlugTypeOK'
    BY <2>1 DEF PlugInv, PlugTypeOK
  <2>3. PlugStarted'
    BY <2>1 DEF PlugInv, PlugStarted
  <2>4. PlugOpened'
    BY <2>1 DEF PlugInv, PlugOpened, HandlesOfUrls
  <2>5. (plugMode # "refused" => BehindDash /\ ValuesBehind)'
    BY <2>1 DEF PlugInv, BehindDash, ValuesBehind
  <2> QED BY <2>2, <2>3, <2>4, <2>5 DEF PlugInv
<1> QED BY <1>1, GiveKeepsInv, ModeKeepsInv, FlagKeepsInv, ValueKeepsInv, DashKeepsInv,
         CommandBeginsKeepsInv, CommandWordKeepsInv, UrlKeepsInv, OpenFailsKeepsInv,
         OpenWorksKeepsInv, CloseKeepsInv DEF PlugNext

(***************************************************************************)
(* For any words on the command line, however many, and any plug modules:  *)
(* GetOptions of winvde_plug.c takes what is behind a lone dash for the    *)
(* URLs and the command, in order, and the library opens the URLs' modules *)
(* with one reference each.                                                *)
(***************************************************************************)
THEOREM PlugsAsGiven == PlugSpec => []PlugAsGiven
<1>1. PlugInv => PlugAsGiven
  <2> SUFFICES ASSUME PlugInv PROVE PlugAsGiven
    OBVIOUS
  <2>1. ASSUME plugMode \in {"stream", "command", "second"}, Len(handles) = Len(urls),
               NEW m \in PlugModules
        PROVE  loads[m] = Cardinality({i \in DOMAIN urls : UrlModule[urls[i]] = m})
    <3>1. loads[m] = Cardinality({i \in 1 .. Len(handles) : UrlModule[urls[i]] = m})
      BY <2>1 DEF PlugInv, PlugOpened, HandlesOfUrls
    <3>2. 1 .. Len(handles) = DOMAIN urls
      BY <2>1, PlugFacts, LenProperties
    <3> QED BY <3>1, <3>2
  <2> QED BY <2>1 DEF PlugInv, PlugAsGiven
<1> QED BY <1>1, PlugStarts, PlugStepKeepsInv, PTL DEF PlugSpec

-----------------------------------------------------------------------------
(***************************************************************************)
(* winvde_term.  The invariant: the buffer holds the line its keys mean,   *)
(* as long as every key means something, and each entry of the history has *)
(* the checksum of its command, which no other entry has.                  *)
(***************************************************************************)
Characters == Letters \cup {NUL}
Commands == {c \in Seq(Characters) : Len(c) < BuffSize}
Entries == [command : Commands, checksum : Nat, aged : BOOLEAN]
Inputs == [buffer : [Slots -> Characters], pos : Slots, length : Slots,
           ready : BOOLEAN, insertMode : BOOLEAN]

EntriesDiffer ==
  \A i, j \in DOMAIN cmd_history : cmd_history[i].checksum = cmd_history[j].checksum => i = j

EntriesHashed ==
  \A i \in DOMAIN cmd_history : cmd_history[i].checksum = calculateHash(cmd_history[i].command)

HistoryCount ==
  /\ command_history_count \in Nat /\ Len(cmd_history) <= command_history_count
  /\ currentHistoryPtr = FreedEntry => Len(cmd_history) < command_history_count

TextIsMeant ==
  /\ std_input \in Inputs /\ std_input.pos <= std_input.length /\ garbled \in BOOLEAN
  /\ ~garbled => meant = Text(std_input)

HistoryInv == cmd_history \in Seq(Entries) /\ EntriesDiffer /\ EntriesHashed /\ HistoryCount

TermInv == TextIsMeant /\ HistoryInv

\* A sum of natural numbers, whatever the command.
LEMMA HashInRange ==
  ASSUME NEW c \in Seq(Characters)
  PROVE  /\ calculateHash(c) \in Nat /\ calculateHash(c) < FreedEntry
         /\ calculateHash(c) \in 0 .. NoEntry - 1
<1> DEFINE n == Len(c)
           step == [p \in (1 .. n) \X Nat |-> p[2] + p[1] * c[p[1]]]
           sum[i \in 0 .. n] == IF i = 0 THEN 0 ELSE sum[i - 1] + i * c[i]
<1>1. n \in Nat /\ \A i \in 1 .. n : c[i] \in Nat
  <2>1. Characters \subseteq Nat
    BY TerminalAssumption DEF Characters, NUL
  <2> QED BY <2>1, LenProperties, ElementOfSeq
<1>2. HasRounds(n, Nat, 0, step)
  <2>1. step \in [(1 .. n) \X Nat -> Nat]
    <3>1. \A a, b, d \in Nat : a + b * d \in Nat
      OBVIOUS
    <3>2. \A p \in (1 .. n) \X Nat : p[1] \in 1 .. n /\ p[1] \in Nat /\ p[2] \in Nat
      BY <1>1
    <3> HIDE DEF n
    <3>3. \A p \in (1 .. n) \X Nat : p[2] + p[1] * c[p[1]] \in Nat
      BY <1>1, <3>1, <3>2
    <3> QED BY <3>3
  <2> HIDE DEF step, n
  <2> QED BY <1>1, <2>1, RoundsExist
<1>3. PICK f \in [0 .. n -> Nat] :
        f = [i \in 0 .. n |-> IF i = 0 THEN 0 ELSE step[<<i, f[i - 1]>>]]
  <2> HIDE DEF step, n
  <2> QED BY <1>2 DEF HasRounds
<1>4. f = [i \in 0 .. n |-> IF i = 0 THEN 0 ELSE f[i - 1] + i * c[i]]
  <2>1. \A i \in 0 .. n : i # 0 => i \in 1 .. n /\ f[i - 1] \in Nat
    BY <1>1, SMTT(30)
  <2>2. \A i \in 0 .. n : i # 0 => step[<<i, f[i - 1]>>] = f[i - 1] + i * c[i]
    BY <2>1
  <2> HIDE DEF step, n
  <2> QED BY <1>3, <2>2
<1>5. sum = [i \in 0 .. n |-> IF i = 0 THEN 0 ELSE sum[i - 1] + i * c[i]]
  BY <1>4
<1>6. calculateHash(c) = sum[n] % 65536
  BY DEF calculateHash
<1> HIDE DEF sum
<1> DEFINE G == {i \in 0 .. n : sum[i] \in Nat}
<1>7. 0 \in G
  <2>1. 0 \in 0 .. n
    BY <1>1
  <2> QED BY <1>5, <2>1
<1>8. ASSUME NEW i \in 1 .. n, i - 1 \in G PROVE i \in G
  <2>1. i \in 0 .. n /\ i # 0 /\ i \in Nat
    BY <1>1
  <2>2. sum[i] = sum[i - 1] + i * c[i]
    BY <1>5, <2>1
  <2>3. c[i] \in Nat /\ sum[i - 1] \in Nat
    BY <1>1, <1>8
  <2>4. i * c[i] \in Nat
    BY <2>1, <2>3
  <2> QED BY <2>1, <2>2, <2>3, <2>4
<1>9. sum[n] \in Nat
  <2>1. n \in 0 .. n
    BY <1>1
  <2>2. n \in G
    <3> HIDE DEF G, n
    <3> QED BY <1>1, <1>7, <1>8, <2>1, UpTo
  <2> QED BY <2>2
<1>10. \A x \in Nat : x % 65536 \in Nat /\ x % 65536 < 65536
  OBVIOUS
<1>11. calculateHash(c) \in Nat /\ calculateHash(c) < 65536
  BY <1>6, <1>9, <1>10
<1>12. NoEntry \in Nat /\ FreedEntry \in Nat /\ NoEntry < FreedEntry
  BY DEF NoEntry, FreedEntry
<1>13. calculateHash(c) < NoEntry
  BY <1>11 DEF NoEntry
<1> HIDE DEF n, step
<1> QED BY <1>11, <1>12, <1>13

LEMMA TextFacts ==
  ASSUME NEW s \in Inputs
  PROVE  /\ Text(s) \in Commands /\ Len(Text(s)) = s.length
         /\ \A i \in 1 .. s.length : Text(s)[i] = s.buffer[i - 1]
<1>1. s.length \in Slots /\ s.length \in Nat /\ s.length < BuffSize
  BY TerminalAssumption DEF Inputs, Slots
<1>2. \A i \in 1 .. s.length : s.buffer[i - 1] \in Characters
  <2>1. \A i \in 1 .. s.length : i - 1 \in Slots
    BY <1>1, TerminalAssumption DEF Slots
  <2> QED BY <2>1 DEF Inputs
<1>3. Text(s) = [i \in 1 .. s.length |-> s.buffer[i - 1]]
  BY DEF Text, TextTo
<1>4. Text(s) \in Seq(Characters)
  BY <1>1, <1>2, <1>3, SeqDef
<1>5. Len(Text(s)) = s.length
  BY <1>1, <1>3, <1>4
<1> QED BY <1>1, <1>3, <1>4, <1>5 DEF Commands

\* A text is the one with these characters.
LEMMA TextEqual ==
  ASSUME NEW s \in Inputs, NEW t \in Seq(Characters), Len(t) = s.length,
         \A i \in 1 .. s.length : t[i] = s.buffer[i - 1]
  PROVE  t = Text(s)
<1>1. Text(s) \in Seq(Characters)
  BY TextFacts DEF Commands
<1> QED BY <1>1, TextFacts, SeqEqual

LEMMA InputFacts ==
  ASSUME TextIsMeant
  PROVE  /\ std_input \in Inputs /\ garbled \in BOOLEAN /\ BuffSize \in Nat /\ BuffSize >= 2
         /\ std_input.pos \in 0 .. std_input.length
         /\ std_input.length \in 0 .. BuffSize - 1
         /\ std_input.buffer \in [Slots -> Characters]
         /\ std_input.ready \in BOOLEAN /\ std_input.insertMode \in BOOLEAN
         /\ ~garbled => /\ meant = Text(std_input) /\ meant \in Seq(Characters)
                        /\ Len(meant) = std_input.length
                        /\ \A i \in 1 .. std_input.length : meant[i] = std_input.buffer[i - 1]
<1>1. std_input \in Inputs /\ garbled \in BOOLEAN /\ std_input.pos <= std_input.length
  BY DEF TextIsMeant
<1>2. BuffSize \in Nat /\ BuffSize >= 2
  BY TerminalAssumption
<1>3. std_input.pos \in 0 .. std_input.length /\ std_input.length \in 0 .. BuffSize - 1
  BY <1>1, <1>2 DEF Inputs, Slots
<1> QED BY <1>1, <1>2, <1>3, TextFacts DEF TextIsMeant, Inputs, Commands

\* The history is left alone, or only grows older.
LEMMA HistoryAlone ==
  ASSUME HistoryInv, UNCHANGED <<cmd_history, currentHistoryPtr, command_history_count>>
  PROVE  HistoryInv'
BY DEF HistoryInv, EntriesDiffer, EntriesHashed, HistoryCount

\* The keys that change the line.
LEMMA BackspaceMeant ==
  ASSUME TermInv, Backspace
  PROVE  TextIsMeant'
<1>1. /\ std_input.pos > 0
      /\ std_input' = [std_input EXCEPT !.pos = @ - 1, !.length = @ - 1]
      /\ garbled' = (garbled \/ ~AtEnd)
      /\ meant' = IF garbled' THEN << >> ELSE Front(meant)
  BY DEF Backspace
<1>2. TextIsMeant
  BY DEF TermInv
<1> DEFINE n == std_input.length
<1>3. /\ n \in 1 .. BuffSize - 1 /\ BuffSize \in Nat
      /\ std_input.pos \in 1 .. n /\ std_input.buffer \in [Slots -> Characters]
  BY <1>1, <1>2, InputFacts
<1>4. /\ std_input'.pos = std_input.pos - 1 /\ std_input'.length = n - 1
      /\ std_input'.buffer = std_input.buffer
      /\ std_input' \in Inputs
  <2>1. std_input.pos - 1 \in Slots /\ n - 1 \in Slots
    BY <1>3 DEF Slots
  <2>2. std_input \in Inputs
    BY <1>2, InputFacts
  <2> QED BY <1>1, <2>1, <2>2 DEF Inputs
<1>5. garbled' \in BOOLEAN /\ (garbled' <=> garbled \/ ~AtEnd)
  BY <1>1
<1>6. ASSUME ~garbled' PROVE meant' = Text(std_input')
  <2>1. ~garbled
    BY <1>5, <1>6
  <2>2. /\ meant \in Seq(Characters) /\ Len(meant) = n
        /\ \A i \in 1 .. n : meant[i] = std_input.buffer[i - 1]
    BY <1>2, <2>1, InputFacts
  <2>3. meant' = SubSeq(meant, 1, n - 1)
    BY <1>1, <1>6, <2>2 DEF Front
  <2>4. /\ SubSeq(meant, 1, n - 1) \in Seq(Characters)
        /\ Len(SubSeq(meant, 1, n - 1)) = n - 1
        /\ \A i \in 1 .. n - 1 : SubSeq(meant, 1, n - 1)[i] = meant[i]
    <3>1. 1 \in Int /\ n - 1 \in Int /\ \A i \in 1 .. n - 1 : meant[i] \in Characters
      BY <1>3, <2>2, ElementOfSeq
    <3> HIDE DEF n
    <3>2. /\ SubSeq(meant, 1, n - 1) \in Seq(Characters)
          /\ Len(SubSeq(meant, 1, n - 1)) = IF 1 <= n - 1 THEN (n - 1) - 1 + 1 ELSE 0
          /\ \A i \in 1 .. (n - 1) - 1 + 1 : SubSeq(meant, 1, n - 1)[i] = meant[1 + i - 1]
      BY <3>1, SubSeqProperties
    <3> QED BY <1>3, <3>2
  <2>5. \A i \in 1 .. n - 1 : meant'[i] = std_input'.buffer[i - 1]
    <3>1. std_input'.buffer = std_input.buffer
      BY <1>4
    <3>2. \A i \in 1 .. n - 1 : i \in 1 .. n
      BY <1>3
    <3>3. \A i \in 1 .. n - 1 : meant'[i] = meant[i]
      BY <2>3, <2>4
    <3> HIDE DEF n
    <3> QED BY <2>2, <3>1, <3>2, <3>3
  <2> HIDE DEF n
  <2> QED BY <1>4, <2>3, <2>4, <2>5, TextEqual
<1>7. std_input'.pos <= std_input'.length
  BY <1>3, <1>4
<1> QED BY <1>4, <1>5, <1>6, <1>7 DEF TextIsMeant

LEMMA PutCharMeant ==
  ASSUME TermInv, NEW c \in Letters, PutChar(c)
  PROVE  TextIsMeant'
<1> DEFINE n == std_input.length
           p == std_input.pos
           s == [std_input EXCEPT !.buffer[p] = c, !.pos = @ + 1, !.length = @ + 1]
           full == s.pos = BuffSize
<1>1. /\ AtEnd \/ (std_input.insertMode /\ n < BuffSize - 1)
      /\ std_input' = IF full THEN [EmptyLine(s) EXCEPT !.ready = TRUE] ELSE s
      /\ garbled' = (~full /\ (garbled \/ ~AtEnd))
      /\ meant' = IF full \/ garbled' THEN << >> ELSE Append(meant, c)
  BY DEF PutChar
<1>2. TextIsMeant
  BY DEF TermInv
<1>3. /\ BuffSize \in Nat /\ BuffSize >= 2 /\ n \in 0 .. BuffSize - 1 /\ p \in 0 .. n /\ p \in Slots
      /\ std_input \in Inputs /\ std_input.buffer \in [Slots -> Characters]
  BY <1>2, InputFacts DEF Slots
<1>4. c \in Characters
  BY DEF Characters
<1>5. /\ s.pos = p + 1 /\ s.length = n + 1 /\ s.ready = std_input.ready
      /\ s.insertMode = std_input.insertMode
      /\ s.buffer = [std_input.buffer EXCEPT ![p] = c]
      /\ s.buffer \in [Slots -> Characters]
  BY <1>3, <1>4 DEF Inputs
<1>6. \A k \in Slots : s.buffer[k] = IF k = p THEN c ELSE std_input.buffer[k]
  BY <1>3, <1>5
<1>7. CASE full
  <2>1. /\ std_input'.pos = 0 /\ std_input'.length = 0
        /\ std_input'.ready = TRUE /\ std_input' \in Inputs
    <3>1. std_input' = [EmptyLine(s) EXCEPT !.ready = TRUE]
      BY <1>1, <1>7
    <3>2. EmptyLine(s) = [s EXCEPT !.pos = 0, !.length = 0]
      BY DEF EmptyLine
    <3>3. 0 \in Slots
      BY <1>3 DEF Slots
    <3> QED BY <1>3, <1>5, <3>1, <3>2, <3>3 DEF Inputs
  <2>2. garbled' = FALSE /\ meant' = << >>
    BY <1>1, <1>7
  <2>3. << >> = Text(std_input')
    <3>1. << >> \in Seq(Characters) /\ Len(<< >>) = std_input'.length
      BY <2>1
    <3>2. \A i \in 1 .. std_input'.length : FALSE
      BY <2>1
    <3> QED BY <2>1, <3>1, <3>2, TextEqual
  <2>4. std_input'.pos <= std_input'.length
    BY <2>1
  <2>5. garbled' \in BOOLEAN /\ (~garbled' => meant' = Text(std_input'))
    BY <2>2, <2>3
  <2> HIDE DEF n, p, s, full
  <2> QED BY <2>1, <2>4, <2>5 DEF TextIsMeant
<1>8. CASE ~full
  <2>1. std_input' = s /\ (garbled' <=> garbled \/ ~AtEnd) /\ garbled' \in BOOLEAN
    BY <1>1, <1>8
  <2>2. n + 1 \in Slots /\ p + 1 \in Slots
    <3>1. p + 1 # BuffSize
      BY <1>5, <1>8
    <3>2. AtEnd => p = n
      BY DEF AtEnd
    <3> QED BY <1>1, <1>3, <3>1, <3>2 DEF Slots
  <2>3. s \in Inputs
    <3> HIDE DEF n, p
    <3> QED BY <1>3, <1>5, <2>2 DEF Inputs
  <2>4. ASSUME ~garbled' PROVE meant' = Text(s)
    <3>1. p = n /\ ~garbled
      BY <2>1, <2>4 DEF AtEnd
    <3>2. /\ meant \in Seq(Characters) /\ Len(meant) = n
          /\ \A i \in 1 .. n : meant[i] = std_input.buffer[i - 1]
      BY <1>2, <3>1, InputFacts
    <3>3. meant' = Append(meant, c)
      BY <1>1, <1>8, <2>4
    <3>4. /\ meant' \in Seq(Characters) /\ Len(meant') = n + 1
          /\ \A i \in 1 .. n : meant'[i] = meant[i]
          /\ meant'[n + 1] = c
      <4> HIDE DEF n
      <4> QED BY <1>4, <3>2, <3>3, AppendProperties
    <3>5. ASSUME NEW i \in 1 .. n + 1 PROVE meant'[i] = s.buffer[i - 1]
      <4>1. CASE i = n + 1
        <5>1. i - 1 = p
          BY <1>3, <3>1, <4>1
        <5> QED BY <1>3, <1>6, <3>4, <4>1, <5>1
      <4>2. CASE i \in 1 .. n
        <5>1. i - 1 \in Slots /\ i - 1 # p
          BY <1>3, <3>1, <4>2 DEF Slots
        <5>2. s.buffer[i - 1] = std_input.buffer[i - 1]
          BY <1>6, <5>1
        <5>3. meant'[i] = std_input.buffer[i - 1]
          BY <3>2, <3>4, <4>2
        <5> QED BY <5>2, <5>3
      <4> QED BY <1>3, <4>1, <4>2
    <3> HIDE DEF n, s
    <3> QED BY <1>5, <2>3, <3>4, <3>5, TextEqual
  <2>5. s.pos <= s.length
    BY <1>3, <1>5
  <2> HIDE DEF s
  <2> QED BY <2>1, <2>3, <2>4, <2>5 DEF TextIsMeant
<1> QED BY <1>7, <1>8

LEMMA InsertCharMeant ==
  ASSUME TermInv, NEW c \in Letters, InsertChar(c)
  PROVE  TextIsMeant'
<1> DEFINE n == std_input.length
           p == std_input.pos
           b == [i \in Slots |-> IF i = p THEN c
                                 ELSE IF i \in p + 1 .. n THEN std_input.buffer[i - 1]
                                 ELSE std_input.buffer[i]]
<1>1. /\ ~AtEnd /\ n < BuffSize - 1
      /\ std_input' = [std_input EXCEPT !.buffer = b, !.pos = @ + 1, !.length = @ + 1]
      /\ meant' = IF garbled THEN meant ELSE InsertAt(meant, p + 1, c)
      /\ garbled' = garbled
  BY DEF InsertChar
<1>2. TextIsMeant
  BY DEF TermInv
<1>3. /\ BuffSize \in Nat /\ BuffSize >= 2 /\ n \in 0 .. BuffSize - 2 /\ p \in 0 .. n - 1
      /\ std_input \in Inputs /\ std_input.buffer \in [Slots -> Characters]
  BY <1>1, <1>2, InputFacts DEF AtEnd
<1>4. c \in Characters
  BY DEF Characters
<1>5. b \in [Slots -> Characters]
  <2>1. \A i \in Slots : i \in p + 1 .. n => i - 1 \in Slots
    BY <1>3 DEF Slots
  <2> QED BY <1>3, <1>4, <2>1
<1>6. /\ std_input'.pos = p + 1 /\ std_input'.length = n + 1 /\ std_input'.buffer = b
      /\ std_input' \in Inputs
  <2>1. p + 1 \in Slots /\ n + 1 \in Slots
    BY <1>3 DEF Slots
  <2> HIDE DEF b
  <2> QED BY <1>1, <1>3, <1>5, <2>1 DEF Inputs
<1>7. ASSUME ~garbled PROVE meant' = Text(std_input')
  <2>1. /\ meant \in Seq(Characters) /\ Len(meant) = n
        /\ \A i \in 1 .. n : meant[i] = std_input.buffer[i - 1] /\ meant[i] \in Characters
    BY <1>2, <1>7, InputFacts, ElementOfSeq, SMTT(30)
  <2> DEFINE f == SubSeq(meant, 1, p)
             g == SubSeq(meant, p + 1, n)
             h == f \o <<c>>
  <2>2. meant' = h \o g
    <3>1. (p + 1) - 1 = p
      BY <1>3
    <3> QED BY <1>1, <1>7, <2>1, <3>1 DEF InsertAt
  <2>3. f \in Seq(Characters) /\ Len(f) = p /\ \A i \in 1 .. p : f[i] = meant[i]
    <3>1. 1 \in Int /\ p \in Int /\ \A i \in 1 .. p : meant[i] \in Characters
      BY <1>3, <2>1
    <3>2. /\ f \in Seq(Characters) /\ Len(f) = IF 1 <= p THEN p - 1 + 1 ELSE 0
          /\ \A i \in 1 .. p - 1 + 1 : f[i] = meant[1 + i - 1]
      <4> HIDE DEF p
      <4> QED BY <3>1, SubSeqProperties
    <3>3. p - 1 + 1 = p /\ (IF 1 <= p THEN p - 1 + 1 ELSE 0) = p /\ \A i \in 1 .. p : 1 + i - 1 = i
      BY <1>3
    <3> HIDE DEF f, p
    <3> QED BY <3>2, <3>3
  <2>4. g \in Seq(Characters) /\ Len(g) = n - p /\ \A i \in 1 .. n - p : g[i] = meant[p + i]
    <3>1. p + 1 \in Int /\ n \in Int /\ \A i \in p + 1 .. n : meant[i] \in Characters
      BY <1>3, <2>1
    <3>2. /\ g \in Seq(Characters) /\ Len(g) = IF p + 1 <= n THEN n - (p + 1) + 1 ELSE 0
          /\ \A i \in 1 .. n - (p + 1) + 1 : g[i] = meant[(p + 1) + i - 1]
      <4> HIDE DEF p, n
      <4> QED BY <3>1, SubSeqProperties
    <3>3. /\ n - (p + 1) + 1 = n - p /\ \A i \in 1 .. n - p : (p + 1) + i - 1 = p + i
          /\ (IF p + 1 <= n THEN n - (p + 1) + 1 ELSE 0) = n - p
      BY <1>3
    <3> HIDE DEF g, p, n
    <3> QED BY <3>2, <3>3
  <2> HIDE DEF f, g
  <2>5. /\ h \in Seq(Characters) /\ Len(h) = p + 1 /\ \A i \in 1 .. p : h[i] = meant[i]
        /\ h[p + 1] = c
    <3>1. <<c>> \in Seq(Characters) /\ Len(<<c>>) = 1 /\ <<c>>[1] = c
      BY <1>4
    <3>2. /\ h \in Seq(Characters) /\ Len(h) = Len(f) + Len(<<c>>)
          /\ \A i \in 1 .. Len(f) + Len(<<c>>) : h[i] = IF i <= Len(f) THEN f[i] ELSE <<c>>[i - Len(f)]
      BY <2>3, <3>1, ConcatProperties
    <3>3. Len(f) + Len(<<c>>) = p + 1 /\ p + 1 \in 1 .. p + 1 /\ ~(p + 1 <= p) /\ (p + 1) - p = 1
      BY <1>3, <2>3
    <3>4. \A i \in 1 .. p : i \in 1 .. p + 1 /\ i <= p
      BY <1>3
    <3> HIDE DEF h, p
    <3> QED BY <2>3, <3>1, <3>2, <3>3, <3>4
  <2> HIDE DEF h
  <2>6. /\ meant' \in Seq(Characters) /\ Len(meant') = n + 1
        /\ \A i \in 1 .. n + 1 : meant'[i] = IF i <= p + 1 THEN h[i] ELSE g[i - (p + 1)]
    <3>1. /\ meant' \in Seq(Characters) /\ Len(meant') = Len(h) + Len(g)
          /\ \A i \in 1 .. Len(h) + Len(g) : meant'[i] = IF i <= Len(h) THEN h[i] ELSE g[i - Len(h)]
      BY <2>2, <2>4, <2>5, ConcatProperties
    <3>2. Len(h) + Len(g) = n + 1
      BY <1>3, <2>4, <2>5, SMTT(30)
    <3> HIDE DEF p, n
    <3> QED BY <2>5, <3>1, <3>2
  <2>7. ASSUME NEW i \in 1 .. n + 1 PROVE meant'[i] = b[i - 1]
    <3>0. i - 1 \in Slots
      BY <1>3 DEF Slots
    <3>1. CASE i \in 1 .. p
      <4>1. meant'[i] = meant[i] /\ meant[i] = std_input.buffer[i - 1]
        BY <1>3, <2>1, <2>5, <2>6, <3>1
      <4>2. b[i - 1] = std_input.buffer[i - 1]
        BY <1>3, <3>0, <3>1
      <4> QED BY <4>1, <4>2
    <3>2. CASE i = p + 1
      <4>1. meant'[i] = c
        BY <1>3, <2>5, <2>6, <3>2
      <4>2. b[i - 1] = c
        BY <1>3, <3>0, <3>2
      <4> QED BY <4>1, <4>2
    <3>3. CASE i \in p + 2 .. n + 1
      <4>1. i - (p + 1) \in 1 .. n - p /\ p + (i - (p + 1)) = i - 1 /\ ~(i <= p + 1) /\ i - 1 \in 1 .. n
        BY <1>3, <3>3
      <4>2. meant'[i] = g[i - (p + 1)]
        BY <2>6, <4>1
      <4>3. g[i - (p + 1)] = meant[i - 1]
        BY <2>4, <4>1
      <4>4. meant[i - 1] = std_input.buffer[(i - 1) - 1]
        BY <2>1, <4>1
      <4>5. b[i - 1] = std_input.buffer[(i - 1) - 1]
        BY <1>3, <3>0, <3>3
      <4> QED BY <4>2, <4>3, <4>4, <4>5
    <3> QED BY <1>3, <3>1, <3>2, <3>3
  <2> HIDE DEF b, n, p
  <2> QED BY <1>6, <2>6, <2>7, TextEqual
<1>8. std_input'.pos <= std_input'.length
  BY <1>3, <1>6
<1>9. garbled' \in BOOLEAN
  BY <1>1, <1>2 DEF TextIsMeant
<1> QED BY <1>1, <1>6, <1>7, <1>8, <1>9 DEF TextIsMeant

\* The line is left as it is.
LEMMA LineAlone ==
  ASSUME TermInv, std_input' \in Inputs, std_input'.pos <= std_input'.length,
         std_input'.buffer = std_input.buffer, std_input'.length = std_input.length,
         meant' = meant, garbled' = garbled
  PROVE  TextIsMeant'
<1>1. Text(std_input') = Text(std_input)
  BY DEF Text, TextTo
<1>2. garbled \in BOOLEAN /\ (~garbled => meant = Text(std_input))
  BY DEF TermInv, TextIsMeant
<1> QED BY <1>1, <1>2 DEF TextIsMeant

LEMMA OtherKeysMeant ==
  ASSUME TermInv, MoveCursorPositionLeft \/ MoveCursorPositionRight \/ ToggleInsert \/ Enter
  PROVE  TextIsMeant'
<1>1. /\ std_input \in Inputs /\ BuffSize \in Nat
      /\ std_input.pos \in 0 .. std_input.length /\ std_input.length \in 0 .. BuffSize - 1
  BY InputFacts DEF TermInv
<1>2. CASE MoveCursorPositionLeft
  <2>1. /\ std_input.pos > 0 /\ std_input' = [std_input EXCEPT !.pos = @ - 1]
        /\ meant' = meant /\ garbled' = garbled
    BY <1>2 DEF MoveCursorPositionLeft
  <2>2. std_input.pos - 1 \in Slots /\ std_input.pos - 1 <= std_input.length
    BY <1>1, <2>1 DEF Slots
  <2>3. /\ std_input' \in Inputs /\ std_input'.pos = std_input.pos - 1
        /\ std_input'.buffer = std_input.buffer /\ std_input'.length = std_input.length
    BY <1>1, <2>1, <2>2 DEF Inputs
  <2> QED BY <2>1, <2>2, <2>3, LineAlone
<1>3. CASE MoveCursorPositionRight
  <2>1. /\ ~AtEnd /\ std_input' = [std_input EXCEPT !.pos = @ + 1]
        /\ meant' = meant /\ garbled' = garbled
    BY <1>3 DEF MoveCursorPositionRight
  <2>2. std_input.pos + 1 \in Slots /\ std_input.pos + 1 <= std_input.length
    BY <1>1, <2>1 DEF Slots, AtEnd
  <2>3. /\ std_input' \in Inputs /\ std_input'.pos = std_input.pos + 1
        /\ std_input'.buffer = std_input.buffer /\ std_input'.length = std_input.length
    BY <1>1, <2>1, <2>2 DEF Inputs
  <2> QED BY <2>1, <2>2, <2>3, LineAlone
<1>4. CASE ToggleInsert \/ Enter
  <2>1. /\ \/ std_input' = [std_input EXCEPT !.insertMode = ~@]
           \/ std_input' = [std_input EXCEPT !.ready = TRUE]
        /\ meant' = meant /\ garbled' = garbled
    BY <1>4 DEF ToggleInsert, Enter
  <2>2. /\ std_input' \in Inputs /\ std_input'.pos = std_input.pos
        /\ std_input'.buffer = std_input.buffer /\ std_input'.length = std_input.length
    BY <1>1, <2>1 DEF Inputs
  <2> QED BY <1>1, <2>1, <2>2, LineAlone
<1> QED BY <1>2, <1>3, <1>4

LEMMA EmptyMeant ==
  ASSUME std_input' \in Inputs, std_input'.pos = 0, std_input'.length = 0,
         meant' = << >>, garbled' = FALSE
  PROVE  TextIsMeant'
<1>1. << >> = Text(std_input')
  <2>1. << >> \in Seq(Characters) /\ Len(<< >>) = std_input'.length
    OBVIOUS
  <2>2. \A i \in 1 .. std_input'.length : FALSE
    OBVIOUS
  <2> QED BY <2>1, <2>2, TextEqual
<1>2. std_input'.pos <= std_input'.length
  OBVIOUS
<1>3. garbled' \in BOOLEAN /\ (~garbled' => meant' = Text(std_input'))
  BY <1>1
<1> QED BY <1>2, <1>3 DEF TextIsMeant

\* An entry of the history becomes the line.
LEMMA ShowEntryMeant ==
  ASSUME TermInv, NEW i, ShowEntry(i), garbled' = FALSE
  PROVE  TextIsMeant' /\ currentHistoryPtr' # FreedEntry
<1>0. std_input \in Inputs /\ BuffSize \in Nat
  BY InputFacts DEF TermInv
<1>1. CASE i \in DOMAIN cmd_history
  <2> DEFINE c == cmd_history[i].command
             b == [k \in Slots |-> IF k < Len(c) THEN c[k + 1] ELSE std_input.buffer[k]]
  <2>1. /\ std_input' = [std_input EXCEPT !.pos = Len(c), !.length = Len(c), !.buffer = b]
        /\ currentHistoryPtr' = cmd_history[i].checksum
        /\ meant' = c
    BY <1>1 DEF ShowEntry
  <2>2. cmd_history[i] \in Entries
    BY <1>1, LenProperties, ElementOfSeq DEF TermInv, HistoryInv
  <2>3. c \in Seq(Characters) /\ Len(c) \in Nat /\ Len(c) < BuffSize
    BY <2>2, LenProperties DEF Entries, Commands
  <2>4. Len(c) \in Slots
    BY <1>0, <2>3 DEF Slots
  <2>5. b \in [Slots -> Characters]
    <3>1. \A k \in Slots : k < Len(c) => c[k + 1] \in Characters
      <4>1. \A k \in Slots : k < Len(c) => k + 1 \in 1 .. Len(c)
        BY <1>0, <2>3 DEF Slots
      <4> HIDE DEF c
      <4> QED BY <2>3, <4>1, ElementOfSeq
    <3>2. std_input.buffer \in [Slots -> Characters]
      BY <1>0 DEF Inputs
    <3> HIDE DEF c
    <3> QED BY <3>1, <3>2
  <2>6. /\ std_input' \in Inputs /\ std_input'.pos = Len(c) /\ std_input'.length = Len(c)
        /\ std_input'.buffer = b
    <3> HIDE DEF b, c
    <3> QED BY <1>0, <2>1, <2>4, <2>5 DEF Inputs
  <2>7. c = Text(std_input')
    <3>1. ASSUME NEW j \in 1 .. Len(c) PROVE c[j] = b[j - 1]
      <4>1. j - 1 \in Slots /\ j - 1 < Len(c) /\ (j - 1) + 1 = j
        BY <1>0, <2>3 DEF Slots
      <4> HIDE DEF c
      <4> QED BY <4>1
    <3> HIDE DEF c, b
    <3> QED BY <2>3, <2>6, <3>1, TextEqual
  <2>8. currentHistoryPtr' # FreedEntry
    <3>1. /\ cmd_history[i].checksum = calculateHash(c)
          /\ calculateHash(c) \in Nat /\ calculateHash(c) < FreedEntry
      BY <1>1, <2>3, HashInRange DEF TermInv, HistoryInv, EntriesHashed
    <3> QED BY <2>1, <3>1 DEF FreedEntry
  <2>9. std_input'.pos <= std_input'.length
    <3> HIDE DEF c
    <3> QED BY <2>3, <2>6, SMTT(30)
  <2>10. garbled' \in BOOLEAN /\ meant' = Text(std_input')
    BY <2>1, <2>7
  <2> QED BY <2>6, <2>8, <2>9, <2>10 DEF TextIsMeant
<1>2. CASE i \notin DOMAIN cmd_history
  <2>1. std_input' = EmptyLine(std_input) /\ currentHistoryPtr' = NoEntry /\ meant' = << >>
    BY <1>2 DEF ShowEntry
  <2>2. std_input' \in Inputs /\ std_input'.pos = 0 /\ std_input'.length = 0
    <3>1. 0 \in Slots
      BY TerminalAssumption DEF Slots
    <3> QED BY <1>0, <2>1, <3>1 DEF EmptyLine, Inputs
  <2>3. NoEntry # FreedEntry
    BY DEF NoEntry, FreedEntry
  <2> QED BY <2>1, <2>2, <2>3, EmptyMeant
<1> QED BY <1>1, <1>2

LEMMA HistoryFacts ==
  ASSUME HistoryInv
  PROVE  /\ cmd_history \in Seq(Entries) /\ Len(cmd_history) \in Nat
         /\ DOMAIN cmd_history = 1 .. Len(cmd_history)
         /\ \A i \in 1 .. Len(cmd_history) : cmd_history[i] \in Entries
         /\ Cardinality(Sums) = Len(cmd_history)
<1> DEFINE n == Len(cmd_history)
           f == [i \in 1 .. n |-> cmd_history[i].checksum]
<1>1. /\ cmd_history \in Seq(Entries) /\ n \in Nat /\ DOMAIN cmd_history = 1 .. n
      /\ \A i \in 1 .. n : cmd_history[i] \in Entries
  BY LenProperties, ElementOfSeq DEF HistoryInv
<1>2. f \in [1 .. n -> Sums] /\ \A s \in Sums : \E i \in 1 .. n : f[i] = s
  BY <1>1 DEF Sums
<1>3. \A i, j \in 1 .. n : f[i] = f[j] => i = j
  BY <1>1 DEF HistoryInv, EntriesDiffer
<1>4. IsFiniteSet(1 .. n) /\ Cardinality(1 .. n) = n
  <2>1. 1 \in Int /\ n \in Int
    BY <1>1
  <2> HIDE DEF n
  <2>2. Cardinality(1 .. n) = IF 1 > n THEN 0 ELSE n - 1 + 1
    BY <2>1, FS_Interval
  <2> QED BY <1>1, <2>1, <2>2, FS_Interval
<1>5. f \in Surjection(1 .. n, Sums) /\ f \in Injection(1 .. n, Sums)
  <2> HIDE DEF f
  <2> QED BY <1>2, <1>3 DEF Surjection, Injection, IsInjective
<1>6. Cardinality(Sums) = Cardinality(1 .. n)
  <2> HIDE DEF f, n
  <2> QED BY <1>4, <1>5, FS_Surjection
<1> QED BY <1>1, <1>4, <1>6

LEMMA AddKeepsHistory ==
  ASSUME HistoryInv, NEW c \in Commands, addCommandHistory(c)
  PROVE  HistoryInv' /\ (c # << >> => calculateHash(c) \in Sums')
<1> DEFINE sum == calculateHash(c)
           deletes == /\ command_history_count >= MaxHistory
                      /\ cmd_history # << >> /\ Head(cmd_history).aged
           entry == [command |-> c, checksum |-> sum, aged |-> FALSE]
           rest == IF deletes THEN Tail(cmd_history) ELSE cmd_history
           n == Len(cmd_history)
           m == Len(rest)
<1>1. CASE c = << >> \/ sum \in Sums
  <2>1. UNCHANGED <<cmd_history, currentHistoryPtr, command_history_count>>
    BY <1>1 DEF addCommandHistory
  <2> QED BY <1>1, <2>1, HistoryAlone DEF Sums
<1>2. CASE c # << >> /\ sum \notin Sums
  <2>1. /\ command_history_count' = command_history_count + 1
        /\ cmd_history' = Append(rest, entry)
        /\ currentHistoryPtr' = IF deletes /\ currentHistoryPtr = Head(cmd_history).checksum
                                THEN FreedEntry ELSE currentHistoryPtr
    BY <1>2 DEF addCommandHistory
  <2>2. entry \in Entries
    <3>1. sum \in Nat
      BY HashInRange DEF Commands
    <3> HIDE DEF sum
    <3> QED BY <3>1 DEF Entries
  <2>3. /\ cmd_history \in Seq(Entries) /\ n \in Nat /\ DOMAIN cmd_history = 1 .. n
        /\ \A i, j \in 1 .. n : cmd_history[i].checksum = cmd_history[j].checksum => i = j
        /\ \A i \in 1 .. n : /\ cmd_history[i].checksum = calculateHash(cmd_history[i].command)
                            /\ cmd_history[i].checksum # sum
    BY <1>2, HistoryFacts DEF HistoryInv, EntriesDiffer, EntriesHashed, Sums
  \* Where each entry that stays was.
  <2>4. PICK d \in 0 .. 1 :
          /\ deletes <=> d = 1
          /\ rest \in Seq(Entries) /\ m = n - d /\ m \in Nat
          /\ \A i \in 1 .. m : i + d \in 1 .. n /\ rest[i] = cmd_history[i + d]
    <3>1. CASE deletes
      <4>1. /\ cmd_history # << >> /\ rest = Tail(cmd_history)
            /\ n >= 1
        BY <2>3, <3>1, EmptySeq, SMTT(30)
      <4>2. /\ rest \in Seq(Entries) /\ m = n - 1
            /\ \A i \in 1 .. m : rest[i] = cmd_history[i + 1]
        BY <2>3, <4>1, HeadTailProperties, ZenonT(60)
      <4>n. n \in Nat
        BY <2>3
      <4> HIDE DEF rest, m, n, deletes
      <4>3. m \in Nat /\ \A i \in 1 .. m : i + 1 \in 1 .. n
        BY <4>n, <4>1, <4>2
      <4> WITNESS 1 \in 0 .. 1
      <4> QED BY <3>1, <4>2, <4>3
    <3>2. CASE ~deletes
      <4>1. rest = cmd_history
        BY <3>2
      <4>2. \A i \in 1 .. n : i + 0 = i
        BY <2>3
      <4>3. m = n /\ n \in Nat /\ rest \in Seq(Entries)
        BY <2>3, <4>1
      <4> HIDE DEF rest, m, n, deletes
      <4>4. m = n - 0 /\ m \in Nat
        BY <4>3
      <4>5. \A i \in 1 .. m : i + 0 \in 1 .. n /\ rest[i] = cmd_history[i + 0]
        BY <4>1, <4>2, <4>3
      <4> WITNESS 0 \in 0 .. 1
      <4> QED BY <3>2, <4>3, <4>4, <4>5
    <3> QED BY <3>1, <3>2
  <2> HIDE DEF rest, m
  <2>5. /\ cmd_history' \in Seq(Entries) /\ Len(cmd_history') = m + 1
        /\ DOMAIN cmd_history' = 1 .. m + 1
        /\ \A i \in 1 .. m : cmd_history'[i] = rest[i]
        /\ cmd_history'[m + 1] = entry
    <3> HIDE DEF entry
    <3> QED BY <2>1, <2>2, <2>4, AppendProperties, LenProperties DEF m
  <2>6. /\ \A i \in 1 .. m : cmd_history'[i] = cmd_history[i + d] /\ i + d \in 1 .. n
        /\ \A i \in 1 .. m + 1 : i \in 1 .. m \/ i = m + 1
    <3>1. \A i \in 1 .. m : cmd_history'[i] = cmd_history[i + d] /\ i + d \in 1 .. n
      BY <2>4, <2>5
    <3>2. m \in Nat
      BY <2>4
    <3>3. \A i \in 1 .. m + 1 : i \in 1 .. m \/ i = m + 1
      BY <3>2
    <3> QED BY <3>1, <3>3
  <2>7. entry.checksum = sum /\ entry.command = c
    OBVIOUS
  <2>8. EntriesHashed'
    <3>1. ASSUME NEW i \in 1 .. m + 1
          PROVE  cmd_history'[i].checksum = calculateHash(cmd_history'[i].command)
      <4>1. CASE i = m + 1
        BY <2>5, <2>7, <4>1
      <4>2. CASE i \in 1 .. m
        BY <2>3, <2>6, <4>2
      <4> QED BY <2>6, <4>1, <4>2
    <3> QED BY <2>5, <3>1 DEF EntriesHashed
  <2>9. EntriesDiffer'
    <3>1. ASSUME NEW i \in 1 .. m + 1, NEW j \in 1 .. m + 1,
                 cmd_history'[i].checksum = cmd_history'[j].checksum
          PROVE  i = j
      <4>1. CASE i \in 1 .. m /\ j \in 1 .. m
        <5>1. i + d = j + d
          BY <2>3, <2>6, <3>1, <4>1
        <5> QED BY <5>1
      <4>2. CASE i = m + 1 /\ j \in 1 .. m
        BY <2>3, <2>5, <2>6, <2>7, <3>1, <4>2
      <4>3. CASE i \in 1 .. m /\ j = m + 1
        BY <2>3, <2>5, <2>6, <2>7, <3>1, <4>3
      <4> QED BY <2>6, <4>1, <4>2, <4>3
    <3> QED BY <2>5, <3>1 DEF EntriesDiffer
  <2>10. HistoryCount'
    <3>1. /\ command_history_count \in Nat /\ n <= command_history_count
          /\ currentHistoryPtr = FreedEntry => n < command_history_count
      BY DEF HistoryInv, HistoryCount
    <3>2. command_history_count' \in Nat /\ m + 1 <= command_history_count'
      BY <2>1, <2>3, <2>4, <3>1
    <3>3. currentHistoryPtr' = FreedEntry => m + 1 < command_history_count'
      <4>1. CASE d = 1
        BY <2>1, <2>3, <2>4, <3>1, <4>1
      <4>2. CASE d = 0
        <5>1. currentHistoryPtr' = currentHistoryPtr
          BY <2>1, <2>4, <4>2
        <5> QED BY <2>1, <2>3, <2>4, <3>1, <4>2, <5>1
      <4> QED BY <4>1, <4>2
    <3> QED BY <2>5, <3>2, <3>3 DEF HistoryCount
  <2>11. sum \in Sums'
    <3>1. m + 1 \in DOMAIN cmd_history'
      BY <2>4, <2>5
    <3> QED BY <2>5, <2>7, <3>1 DEF Sums
  <2> QED BY <2>5, <2>8, <2>9, <2>10, <2>11 DEF HistoryInv
<1> QED BY <1>1, <1>2

LEMMA TickKeepsHistory ==
  ASSUME HistoryInv, TermTick
  PROVE  HistoryInv'
<1> DEFINE n == Len(cmd_history)
<1>1. /\ cmd_history' = [i \in 1 .. n |-> [cmd_history[i] EXCEPT !.aged = TRUE]]
      /\ currentHistoryPtr' = currentHistoryPtr /\ command_history_count' = command_history_count
  BY HistoryFacts DEF TermTick
<1>2. /\ n \in Nat /\ \A i \in 1 .. n : cmd_history[i] \in Entries
      /\ DOMAIN cmd_history = 1 .. n
  BY HistoryFacts
<1>3. \A i \in 1 .. n : /\ cmd_history'[i] \in Entries
                       /\ cmd_history'[i].checksum = cmd_history[i].checksum
                       /\ cmd_history'[i].command = cmd_history[i].command
  BY <1>1, <1>2 DEF Entries
<1>4. cmd_history' \in Seq(Entries) /\ DOMAIN cmd_history' = 1 .. n
  BY <1>1, <1>2, <1>3, SeqDef
<1>5. Len(cmd_history') = n
  BY <1>2, <1>4, LenProperties
<1> HIDE DEF n
<1>6. EntriesDiffer' /\ EntriesHashed'
  BY <1>2, <1>3, <1>4 DEF HistoryInv, EntriesDiffer, EntriesHashed
<1>7. HistoryCount'
  BY <1>1, <1>5 DEF HistoryInv, HistoryCount, n
<1> QED BY <1>4, <1>6, <1>7 DEF HistoryInv

\* What winvde_term starts with, and what is left of it when it has ended.
LEMMA NothingTyped ==
  /\ EmptyInput \in Inputs /\ EmptyInput.pos = 0 /\ EmptyInput.length = 0
  /\ Text(EmptyInput) = << >>
<1>1. /\ EmptyInput \in Inputs /\ EmptyInput.pos = 0 /\ EmptyInput.length = 0
  <2>1. 0 \in Slots /\ NUL \in Characters
    BY TerminalAssumption DEF Slots, Characters
  <2> QED BY <2>1 DEF EmptyInput, Inputs
<1>2. << >> \in Seq(Characters) /\ Len(<< >>) = EmptyInput.length
  BY <1>1
<1>3. \A i \in 1 .. EmptyInput.length : FALSE
  BY <1>1
<1> QED BY <1>1, <1>2, <1>3, TextEqual

LEMMA TermStarts == TermInit => TermInv
<1> SUFFICES ASSUME TermInit PROVE TermInv
  OBVIOUS
<1>1. TextIsMeant
  <2>1. std_input = EmptyInput /\ meant = << >> /\ garbled = FALSE
    BY DEF TermInit
  <2>2. std_input \in Inputs /\ std_input.pos <= std_input.length /\ meant = Text(std_input)
    BY <2>1, NothingTyped
  <2> QED BY <2>1, <2>2 DEF TextIsMeant
<1>2. HistoryInv
  <2>1. /\ cmd_history = << >> /\ command_history_count = 0 /\ currentHistoryPtr = NoEntry
    BY DEF TermInit
  <2>2. cmd_history \in Seq(Entries) /\ DOMAIN cmd_history = {} /\ Len(cmd_history) = 0
    BY <2>1
  <2>3. NoEntry # FreedEntry
    BY DEF NoEntry, FreedEntry
  <2> QED BY <2>1, <2>2, <2>3 DEF HistoryInv, EntriesDiffer, EntriesHashed, HistoryCount
<1> QED BY <1>1, <1>2 DEF TermInv

LEMMA EndKeepsInv == TerminalEnds => TermInv'
<1> SUFFICES ASSUME TerminalEnds PROVE TermInv'
  OBVIOUS
<1>1. TextIsMeant'
  <2>1. std_input' = EmptyInput /\ meant' = << >> /\ garbled' = FALSE
    BY DEF TerminalEnds
  <2>2. std_input' \in Inputs /\ std_input'.pos = 0 /\ std_input'.length = 0
    BY <2>1, NothingTyped
  <2> QED BY <2>1, <2>2, EmptyMeant
<1>2. HistoryInv'
  <2>1. /\ cmd_history' = << >> /\ command_history_count' = 0 /\ currentHistoryPtr' = NoEntry
    BY DEF TerminalEnds
  <2>2. cmd_history' \in Seq(Entries) /\ DOMAIN cmd_history' = {} /\ Len(cmd_history') = 0
    BY <2>1
  <2>3. NoEntry # FreedEntry
    BY DEF NoEntry, FreedEntry
  <2> QED BY <2>1, <2>2, <2>3 DEF HistoryInv, EntriesDiffer, EntriesHashed, HistoryCount
<1> QED BY <1>1, <1>2 DEF TermInv

\* A line is sent: it is what was meant, up to the cursor, and it is in the
\* history, unless it is empty.
LEMMA SendLineMeant ==
  ASSUME TermInv, SendLine
  PROVE  /\ TermInv'
         /\ toSwitch' # NotSent =>
              /\ ~garbled => toSwitch' = SubSeq(meant, 1, std_input.pos)
              /\ calculateHash(Text(std_input)) \in Sums'
<1> DEFINE c == Text(std_input)
           b == [i \in Slots |-> IF i = std_input.length + 1 THEN NUL ELSE std_input.buffer[i]]
<1>1. /\ std_input' = [EmptyLine(std_input) EXCEPT !.ready = FALSE, !.buffer = b]
      /\ meant' = << >> /\ garbled' = FALSE
      /\ addCommandHistory(c)
  BY DEF SendLine, EmptyLine
<1>2. TextIsMeant /\ HistoryInv
  BY DEF TermInv
<1>3. /\ std_input \in Inputs /\ BuffSize \in Nat /\ std_input.buffer \in [Slots -> Characters]
      /\ std_input.pos \in 0 .. std_input.length /\ std_input.length \in 0 .. BuffSize - 1
  BY <1>2, InputFacts
<1>4. /\ std_input' \in Inputs /\ std_input'.pos = 0 /\ std_input'.length = 0
  <2>1. 0 \in Slots
    BY TerminalAssumption DEF Slots
  <2>2. b \in [Slots -> Characters]
    <3>1. NUL \in Characters
      BY DEF Characters
    <3> QED BY <1>3, <3>1
  <2> HIDE DEF b
  <2> QED BY <1>1, <1>3, <2>1, <2>2 DEF Inputs, EmptyLine
<1>5. TextIsMeant'
  BY <1>1, <1>4, EmptyMeant
<1>6. c \in Commands /\ Len(c) = std_input.length
      /\ \A i \in 1 .. std_input.length : c[i] = std_input.buffer[i - 1]
  BY <1>3, TextFacts
<1>7. HistoryInv' /\ (c # << >> => calculateHash(c) \in Sums')
  <2> HIDE DEF c
  <2> QED BY <1>1, <1>2, <1>6, AddKeepsHistory
<1>8. ASSUME toSwitch' # NotSent
      PROVE  /\ std_input.pos > 0 /\ toSwitch' = TextTo(std_input, std_input.pos)
    BY <1>8 DEF SendLine, vdehist_term_to_mgmt
<1>9. ASSUME toSwitch' # NotSent PROVE c # << >>
  <2>1. Len(c) >= 1
    <3> HIDE DEF c
    <3> QED BY <1>3, <1>6, <1>8, <1>9
  <2> QED BY <2>1
<1>10. ASSUME toSwitch' # NotSent, ~garbled PROVE toSwitch' = SubSeq(meant, 1, std_input.pos)
  <2> DEFINE p == std_input.pos
  <2>1. meant = c
    BY <1>2, <1>10 DEF TextIsMeant
  <2>2. p \in Int /\ \A i \in 1 .. p : meant[i] \in Characters
    <3>1. c \in Seq(Characters) /\ Len(c) = std_input.length
      BY <1>6 DEF Commands
    <3>2. \A i \in 1 .. p : i \in 1 .. std_input.length
      BY <1>3
    <3> HIDE DEF c, p
    <3> QED BY <1>3, <2>1, <3>1, <3>2, ElementOfSeq DEF p
  <2>3. \A i \in 1 .. p : meant[i] = std_input.buffer[i - 1]
    <3> HIDE DEF c
    <3> QED BY <1>3, <1>6, <2>1
  <2>4. toSwitch' = [i \in 1 .. p |-> std_input.buffer[i - 1]]
    BY <1>8, <1>10 DEF TextTo
  <2>5. /\ toSwitch' \in Seq(Characters) /\ Len(toSwitch') = p
        /\ \A i \in 1 .. p : toSwitch'[i] = meant[i]
    <3>1. p \in Nat
      BY <1>3
    <3> HIDE DEF c, p
    <3>2. toSwitch' \in Seq(Characters)
      <4>1. \A i \in 1 .. p : std_input.buffer[i - 1] \in Characters
        BY <2>2, <2>3
      <4>2. toSwitch' \in [1 .. p -> Characters]
        BY <2>4, <4>1
      <4> QED BY <3>1, <4>2, SeqDef
    <3> QED BY <2>3, <2>4, <3>1, <3>2
  <2>6. /\ SubSeq(meant, 1, p) \in Seq(Characters) /\ Len(SubSeq(meant, 1, p)) = p
        /\ \A i \in 1 .. p : SubSeq(meant, 1, p)[i] = meant[i]
    <3>1. p \in Nat
      BY <1>3
    <3> HIDE DEF c, p
    <3>2. /\ SubSeq(meant, 1, p) \in Seq(Characters)
          /\ Len(SubSeq(meant, 1, p)) = IF 1 <= p THEN p - 1 + 1 ELSE 0
          /\ \A i \in 1 .. p - 1 + 1 : SubSeq(meant, 1, p)[i] = meant[1 + i - 1]
      BY <2>2, SubSeqProperties
    <3> QED BY <3>1, <3>2
  <2> HIDE DEF c, p
  <2> QED BY <2>5, <2>6, SeqEqual DEF p
<1> QED BY <1>5, <1>7, <1>9, <1>10 DEF TermInv

\* An entry is recalled.
LEMMA RecallKeepsInv ==
  ASSUME TermInv, NEW i, ShowEntry(i), garbled' = FALSE,
         UNCHANGED <<cmd_history, command_history_count>>
  PROVE  TermInv'
<1>1. TextIsMeant' /\ currentHistoryPtr' # FreedEntry
  BY ShowEntryMeant
<1>2. HistoryInv'
  BY <1>1 DEF TermInv, HistoryInv, EntriesDiffer, EntriesHashed, HistoryCount
<1> QED BY <1>1, <1>2 DEF TermInv

\* What every step keeps.
LEMMA TermStepKeepsInv == TermInv /\ [TermNext]_termVars => TermInv'
<1> SUFFICES ASSUME TermInv, [TermNext]_termVars PROVE TermInv'
  OBVIOUS
<1>1. CASE \/ \E c \in Letters : PutChar(c) \/ InsertChar(c)
           \/ Backspace \/ MoveCursorPositionLeft \/ MoveCursorPositionRight
           \/ ToggleInsert \/ Enter
  <2>1. TextIsMeant'
    BY <1>1, PutCharMeant, InsertCharMeant, BackspaceMeant, OtherKeysMeant, SMTT(30)
  <2>2. UNCHANGED <<cmd_history, currentHistoryPtr, command_history_count>>
    BY <1>1 DEF PutChar, InsertChar, Backspace, MoveCursorPositionLeft,
                MoveCursorPositionRight, ToggleInsert, Enter, Unchanged
  <2> QED BY <2>1, <2>2, HistoryAlone DEF TermInv
<1>2. CASE UnknownKey
  BY <1>2, EndKeepsInv DEF UnknownKey
<1>3. CASE SendLine
  BY <1>3, SendLineMeant
<1>4. CASE TermTick
  <2>1. HistoryInv'
    BY <1>4, TickKeepsHistory DEF TermInv
  <2>2. TextIsMeant'
    BY <1>4 DEF TermInv, TermTick, editVars, TextIsMeant, Text, TextTo
  <2> QED BY <2>1, <2>2 DEF TermInv
<1>5. CASE CommandHistUp \/ CommandHistDown
  <2>1. PICK from, by : HistoryKey(from, by)
    BY <1>5 DEF CommandHistUp, CommandHistDown
  <2> QED BY <2>1, RecallKeepsInv DEF HistoryKey
<1>6. CASE HistoryKeyFreed
  BY <1>6, RecallKeepsInv, EndKeepsInv DEF HistoryKeyFreed
<1>7. CASE UNCHANGED termVars
  <2>1. TextIsMeant'
    BY <1>7 DEF termVars, TermInv, TextIsMeant, Text, TextTo
  <2> QED BY <1>7, <2>1, HistoryAlone DEF termVars, TermInv
<1> QED BY <1>1, <1>2, <1>3, <1>4, <1>5, <1>6, <1>7 DEF TermNext

\* The part of the property that is about one state.
LineAndHistory ==
  /\ ~garbled => Text(std_input) = meant
  /\ Cardinality(Sums) = Len(cmd_history)
  /\ \A i \in DOMAIN cmd_history :
       cmd_history[i].checksum = calculateHash(cmd_history[i].command)
  /\ currentHistoryPtr = FreedEntry => Len(cmd_history) < command_history_count

LEMMA InvIsLineAndHistory == TermInv => LineAndHistory
<1> SUFFICES ASSUME TermInv PROVE LineAndHistory
  OBVIOUS
<1>1. HistoryInv /\ TextIsMeant
  BY DEF TermInv
<1>2. Cardinality(Sums) = Len(cmd_history)
  BY <1>1, HistoryFacts
<1> QED BY <1>1, <1>2 DEF LineAndHistory, HistoryInv, EntriesHashed, HistoryCount, TextIsMeant

\* Only SendLine sends.
LEMMA SentAsMeant ==
  ASSUME TermInv, TermNext, toSwitch' # NotSent
  PROVE  /\ ~garbled => toSwitch' = SubSeq(meant, 1, std_input.pos)
         /\ calculateHash(Text(std_input)) \in Sums'
<1>1. SendLine
  BY DEF TermNext, PutChar, InsertChar, Backspace, MoveCursorPositionLeft,
         MoveCursorPositionRight, ToggleInsert, Enter, Unchanged, UnknownKey, TerminalEnds,
         TermTick, CommandHistUp, CommandHistDown, HistoryKey, HistoryKeyFreed
<1> QED BY <1>1, SendLineMeant, SMTT(30)

(***************************************************************************)
(* For lines of up to 255 characters and a history of any size: however    *)
(* the line came about, it is what its keys mean, what the switch gets of  *)
(* it is that line up to the cursor, and the history can recall it: the    *)
(* steps of the line editor of winvde_termkeys.c and its history.          *)
(***************************************************************************)
THEOREM LinesAreAsMeant == TermSpec => LineAsMeant
<1>1. TermInit => TermInv
  BY TermStarts
<1>2. TermInv /\ [TermNext]_termVars => TermInv'
  BY TermStepKeepsInv
<1>3. TermInv => LineAndHistory
  BY InvIsLineAndHistory
<1>4. TermInv /\ LineAndHistory' /\ [TermNext]_termVars =>
        [/\ (~garbled => Text(std_input) = meant)'
         /\ toSwitch' # NotSent =>
              /\ ~garbled => toSwitch' = SubSeq(meant, 1, std_input.pos)
              /\ calculateHash(Text(std_input)) \in Sums'
         /\ Cardinality(Sums') = Len(cmd_history')
         /\ \A i \in DOMAIN cmd_history' :
              cmd_history'[i].checksum = calculateHash(cmd_history'[i].command)
         /\ currentHistoryPtr' = FreedEntry => Len(cmd_history') < command_history_count'
        ]_termVars
  <2> SUFFICES ASSUME TermInv, LineAndHistory', TermNext
               PROVE  /\ (~garbled => Text(std_input) = meant)'
                      /\ toSwitch' # NotSent =>
                           /\ ~garbled => toSwitch' = SubSeq(meant, 1, std_input.pos)
                           /\ calculateHash(Text(std_input)) \in Sums'
                      /\ Cardinality(Sums') = Len(cmd_history')
                      /\ \A i \in DOMAIN cmd_history' :
                           cmd_history'[i].checksum = calculateHash(cmd_history'[i].command)
                      /\ currentHistoryPtr' = FreedEntry =>
                           Len(cmd_history') < command_history_count'
    OBVIOUS
  <2>1. toSwitch' # NotSent => /\ ~garbled => toSwitch' = SubSeq(meant, 1, std_input.pos)
                              /\ calculateHash(Text(std_input)) \in Sums'
    BY SentAsMeant
  <2> QED BY <2>1 DEF LineAndHistory
<1> QED BY <1>1, <1>2, <1>3, <1>4, PTL DEF TermSpec, LineAsMeant

(***************************************************************************)
(* What the types say beyond the invariant: the entry that Up and Down     *)
(* start from is in the history, freed or none, and the bound on the       *)
(* commands is kept.                                                       *)
(***************************************************************************)
PointerInHistory == currentHistoryPtr \in Sums \cup {NoEntry, FreedEntry}

TermShape ==
  /\ PointerInHistory
  /\ command_history_count \in 0 .. MaxCommands
  /\ linebufEnded \in BOOLEAN /\ doLoop \in BOOLEAN

\* A deletion frees the entry or leaves it in the list.
LEMMA AddKeepsPointer ==
  ASSUME HistoryInv, PointerInHistory, NEW c, addCommandHistory(c)
  PROVE  PointerInHistory'
<1> DEFINE deletes == /\ command_history_count >= MaxHistory
                      /\ cmd_history # << >> /\ Head(cmd_history).aged
           entry == [command |-> c, checksum |-> calculateHash(c), aged |-> FALSE]
           rest == IF deletes THEN Tail(cmd_history) ELSE cmd_history
           n == Len(cmd_history)
<1>0. /\ n \in Nat /\ DOMAIN cmd_history = 1 .. n
      /\ Head(cmd_history) = cmd_history[1]
  BY HistoryFacts
<1>1. CASE UNCHANGED <<cmd_history, currentHistoryPtr>>
  BY <1>1 DEF PointerInHistory, Sums
<1>2. CASE /\ cmd_history' = Append(rest, entry)
           /\ currentHistoryPtr' = IF deletes /\ currentHistoryPtr = Head(cmd_history).checksum
                                   THEN FreedEntry ELSE currentHistoryPtr
  <2>1. CASE currentHistoryPtr' \in {NoEntry, FreedEntry}
    BY <2>1 DEF PointerInHistory
  <2>2. CASE currentHistoryPtr' \notin {NoEntry, FreedEntry}
    <3>1. /\ currentHistoryPtr' = currentHistoryPtr
          /\ deletes => currentHistoryPtr # cmd_history[1].checksum
      BY <1>0, <1>2, <2>2
    <3>2. PICK i \in 1 .. n : cmd_history[i].checksum = currentHistoryPtr
      BY <1>0, <2>2, <3>1 DEF PointerInHistory, Sums
    <3>3. PICK j \in 1 .. Len(rest) : rest[j] = cmd_history[i]
      <4>1. CASE deletes
        <5>1. i # 1 /\ i - 1 \in 1 .. n - 1 /\ (i - 1) + 1 = i
          BY <1>0, <3>1, <3>2, <4>1
        <5>2. /\ cmd_history \in Seq(Entries) /\ cmd_history # << >> /\ rest = Tail(cmd_history)
          BY <4>1, HistoryFacts
        <5>3. Len(rest) = n - 1 /\ \A k \in 1 .. Len(rest) : rest[k] = cmd_history[k + 1]
          BY <5>2, HeadTailProperties
        <5> HIDE DEF rest, deletes, n
        <5> QED BY <5>1, <5>3
      <4>2. CASE ~deletes
        BY <4>2
      <4> QED BY <4>1, <4>2
    <3>4. rest \in Seq(Entries)
      BY <1>0, HistoryFacts, HeadTailProperties
    <3> HIDE DEF rest, entry, deletes
    <3>5. /\ cmd_history' = Append(rest, entry) /\ Len(rest) \in Nat
          /\ rest \in Seq(Entries \cup {entry})
      BY <1>2, <3>4, LenProperties, SeqDef
    <3>6. Len(cmd_history') = Len(rest) + 1 /\ cmd_history'[j] = rest[j]
          /\ DOMAIN cmd_history' = 1 .. Len(rest) + 1
      BY <3>5, AppendProperties, LenProperties
    <3>7. j \in DOMAIN cmd_history' /\ cmd_history'[j].checksum = currentHistoryPtr'
      BY <3>1, <3>2, <3>3, <3>5, <3>6
    <3> QED BY <3>7 DEF PointerInHistory, Sums
  <2> QED BY <2>1, <2>2
<1> QED BY <1>1, <1>2 DEF addCommandHistory

LEMMA ShowKeepsPointer ==
  ASSUME NEW i, ShowEntry(i), UNCHANGED cmd_history
  PROVE  PointerInHistory'
BY DEF ShowEntry, PointerInHistory, Sums

LEMMA TermShapeStarts == TermInit => TermShape
<1> SUFFICES ASSUME TermInit PROVE TermShape
  OBVIOUS
<1>1. currentHistoryPtr = NoEntry /\ linebufEnded = FALSE /\ doLoop = TRUE
  BY DEF TermInit
<1>2. command_history_count \in 0 .. MaxCommands
  BY TerminalAssumption DEF TermInit
<1>3. PointerInHistory
  BY <1>1 DEF PointerInHistory
<1> QED BY <1>1, <1>2, <1>3 DEF TermShape

LEMMA EndKeepsShape == TerminalEnds => TermShape'
<1> SUFFICES ASSUME TerminalEnds PROVE TermShape'
  OBVIOUS
<1>1. currentHistoryPtr' = NoEntry /\ linebufEnded' = FALSE /\ doLoop' = FALSE
  BY DEF TerminalEnds
<1>2. command_history_count' \in 0 .. MaxCommands
  BY TerminalAssumption DEF TerminalEnds
<1>3. PointerInHistory'
  BY <1>1 DEF PointerInHistory
<1> QED BY <1>1, <1>2, <1>3 DEF TermShape

LEMMA SendLineKeepsShape ==
  ASSUME TermInv, TermShape, SendLine
  PROVE  TermShape'
<1>0. HistoryInv
  BY DEF TermInv
<1>1. PointerInHistory'
  BY <1>0, AddKeepsPointer DEF SendLine, TermShape
<1>2. command_history_count' \in 0 .. MaxCommands
  <2>1. /\ command_history_count' \in {command_history_count, command_history_count + 1}
        /\ command_history_count \in 0 .. MaxCommands /\ command_history_count < MaxCommands
    BY DEF SendLine, addCommandHistory, Typing, TermShape
  <2> QED BY <2>1, TerminalAssumption
<1>3. linebufEnded' \in BOOLEAN
  <2>1. linebufEnded' = linebufEnded \/ \E t : linebufEnded' = (linebufEnded \/ t = NUL)
    BY DEF SendLine, vdehist_term_to_mgmt
  <2> QED BY <2>1 DEF TermShape
<1>4. doLoop' \in BOOLEAN
  BY DEF SendLine, TermShape
<1> QED BY <1>1, <1>2, <1>3, <1>4 DEF TermShape

LEMMA TickKeepsShape ==
  ASSUME TermShape, TermTick
  PROVE  TermShape'
<1>1. /\ cmd_history' = [i \in DOMAIN cmd_history |-> [cmd_history[i] EXCEPT !.aged = TRUE]]
      /\ UNCHANGED <<currentHistoryPtr, command_history_count, linebufEnded, doLoop>>
  BY DEF TermTick
<1> QED BY <1>1 DEF TermShape, PointerInHistory, Sums

LEMMA RecallKeepsShape ==
  ASSUME TermShape, NEW i, ShowEntry(i),
         UNCHANGED <<cmd_history, command_history_count, linebuf, linebufEnded, doLoop>>
  PROVE  TermShape'
BY ShowKeepsPointer, SMTT(30) DEF TermShape

LEMMA TermStepKeepsShape == TermInv /\ TermShape /\ [TermNext]_termVars => TermShape'
<1> SUFFICES ASSUME TermInv, TermShape, [TermNext]_termVars PROVE TermShape'
  OBVIOUS
<1>1. CASE UNCHANGED <<cmd_history, currentHistoryPtr, command_history_count,
                       linebuf, linebufEnded, doLoop>>
  BY <1>1 DEF TermShape, PointerInHistory, Sums
<1>2. CASE UnknownKey
  BY <1>2, EndKeepsShape DEF UnknownKey
<1>3. CASE SendLine
  BY <1>3, SendLineKeepsShape
<1>4. CASE TermTick
  BY <1>4, TickKeepsShape
<1>5. CASE CommandHistUp \/ CommandHistDown
  <2>1. PICK from, by : HistoryKey(from, by)
    BY <1>5 DEF CommandHistUp, CommandHistDown
  <2> QED BY <2>1, RecallKeepsShape DEF HistoryKey
<1>6. CASE HistoryKeyFreed
  <2>1. CASE TerminalEnds
    BY <2>1, EndKeepsShape
  <2>2. ASSUME NEW i, ShowEntry(i),
               UNCHANGED <<cmd_history, command_history_count, linebuf, linebufEnded, doLoop>>
        PROVE  TermShape'
    BY <2>2, RecallKeepsShape
  <2> QED BY <1>6, <2>1, <2>2 DEF HistoryKeyFreed
<1> QED BY <1>1, <1>2, <1>3, <1>4, <1>5, <1>6
        DEF TermNext, PutChar, InsertChar, Backspace, MoveCursorPositionLeft,
            MoveCursorPositionRight, ToggleInsert, Enter, Unchanged, termVars

LEMMA ShapeIsTyped == TermInv /\ TermShape => TermTypeOK
<1> SUFFICES ASSUME TermInv, TermShape PROVE TermTypeOK
  OBVIOUS
<1>1. HistoryInv /\ TextIsMeant
  BY DEF TermInv
<1>2. ASSUME NEW i \in DOMAIN cmd_history
      PROVE  cmd_history[i].checksum \in 0 .. NoEntry - 1 /\ cmd_history[i].aged \in BOOLEAN
  <2>1. cmd_history[i] \in Entries /\ cmd_history[i].checksum = calculateHash(cmd_history[i].command)
    BY <1>1, HistoryFacts DEF HistoryInv, EntriesHashed
  <2>2. cmd_history[i].command \in Commands /\ cmd_history[i].aged \in BOOLEAN
    BY <2>1 DEF Entries
  <2>3. cmd_history[i].command \in Seq(Characters)
    BY <2>2 DEF Commands
  <2>4. calculateHash(cmd_history[i].command) \in 0 .. NoEntry - 1
    BY <2>3, HashInRange
  <2>5. cmd_history[i].checksum \in 0 .. NoEntry - 1
    BY <2>1, <2>4
  <2> QED BY <2>2, <2>5
<1>3. /\ std_input.pos <= std_input.length /\ garbled \in BOOLEAN
      /\ std_input \in [buffer : [Slots -> Letters \cup {NUL}], pos : Slots, length : Slots,
                        ready : BOOLEAN, insertMode : BOOLEAN]
  BY <1>1 DEF TextIsMeant, Inputs, Characters
<1>4. /\ currentHistoryPtr \in Sums \cup {NoEntry, FreedEntry}
      /\ command_history_count \in 0 .. MaxCommands
      /\ linebufEnded \in BOOLEAN /\ doLoop \in BOOLEAN
  BY DEF TermShape, PointerInHistory
<1> QED BY <1>2, <1>3, <1>4 DEF TermTypeOK

(***************************************************************************)
(* The cursor of winvde_term stays within its line and the line within the *)
(* buffer, checksums fit 16 bits, and currentHistoryPtr is an entry of the *)
(* list, the freed one, or none.                                           *)
(***************************************************************************)
THEOREM TerminalTyped == TermSpec => []TermTypeOK
<1>1. TermInit => TermInv /\ TermShape
  BY TermStarts, TermShapeStarts
<1>2. TermInv /\ TermShape /\ [TermNext]_termVars => TermInv' /\ TermShape'
  BY TermStepKeepsInv, TermStepKeepsShape
<1> QED BY <1>1, <1>2, ShapeIsTyped, PTL DEF TermSpec

-----------------------------------------------------------------------------
(***************************************************************************)
(* The replies that winvde_term shows, whole or in pieces.  The invariant  *)
(* follows vindata over every line that is still to come, what the socket  *)
(* has and what the switch has yet to write: it is FALSE behind the last   *)
(* line, and while the list of the commands is not made every 0000 among   *)
(* them has its "." behind it, so the cut at the first "." is the end of   *)
(* the help.  What was shown and what is still to be shown is a chain of   *)
(* lines, each one the next of the one before it.                          *)
(***************************************************************************)
LEMMA KindsOfLines ==
  ASSUME NEW k \in LineKinds, NEW r \in 0 .. MaxReplies, NEW i \in 0 .. MaxData + MaxDebug
  PROVE  Ln(k, r, i) \in Lines /\ Ln(k, r, i).kind = k /\ Ln(k, r, i).reply = r
         /\ Ln(k, r, i).at = i
  BY DEF Ln, Lines

\* What is to be shown of the first lines of a sequence, by their number.
IsShowing(f, s) ==
  /\ f \in [0 .. Len(s) -> Seq(Lines)] /\ f[0] = << >>
  /\ \A i \in 1 .. Len(s) :
       f[i] = IF Wanted(s[i]) THEN Append(f[i - 1], s[i]) ELSE f[i - 1]

LEMMA ShowingLines ==
  ASSUME NEW s \in Seq(Lines)
  PROVE  \E f : IsShowing(f, s) /\ ToShow(s) = f[Len(s)]
<1> DEFINE n == Len(s)
           step == [p \in (1 .. n) \X Seq(Lines) |->
                      IF Wanted(s[p[1]]) THEN Append(p[2], s[p[1]]) ELSE p[2]]
           show[i \in 0 .. n] ==
             IF i = 0 THEN << >>
             ELSE IF Wanted(s[i]) THEN Append(show[i - 1], s[i]) ELSE show[i - 1]
<1>1. n \in Nat /\ \A i \in 1 .. n : s[i] \in Lines
  BY Places
<1>2. ToShow(s) = show[n]
  BY DEF ToShow
<1> HIDE DEF n
<1>3. step \in [(1 .. n) \X Seq(Lines) -> Seq(Lines)]
  BY <1>1
<1>4. \A i \in 1 .. n : \A x \in Seq(Lines) :
        step[<<i, x>>] = IF Wanted(s[i]) THEN Append(x, s[i]) ELSE x
  OBVIOUS
<1> HIDE DEF step
<1>5. << >> \in Seq(Lines)
  BY EmptySeq
<1>6. PICK f \in [0 .. n -> Seq(Lines)] :
        f = [i \in 0 .. n |-> IF i = 0 THEN << >> ELSE step[<<i, f[i - 1]>>]]
  <2>1. HasRounds(n, Seq(Lines), << >>, step)
    BY <1>1, <1>3, <1>5, RoundsExist
  <2> QED BY <2>1 DEF HasRounds
<1>7. \A i \in 0 .. n :
        f[i] = IF i = 0 THEN << >>
               ELSE IF Wanted(s[i]) THEN Append(f[i - 1], s[i]) ELSE f[i - 1]
  <2> TAKE i \in 0 .. n
  <2>1. f[i] = IF i = 0 THEN << >> ELSE step[<<i, f[i - 1]>>]
    BY <1>6
  <2>2. CASE i = 0
    BY <2>1, <2>2
  <2>3. CASE i # 0
    <3>1. i \in 1 .. n /\ i - 1 \in 0 .. n /\ f[i - 1] \in Seq(Lines)
      BY <1>1, <2>3
    <3> QED BY <1>4, <2>1, <2>3, <3>1
  <2> QED BY <2>2, <2>3
<1>8. f = [i \in 0 .. n |->
             IF i = 0 THEN << >>
             ELSE IF Wanted(s[i]) THEN Append(f[i - 1], s[i]) ELSE f[i - 1]]
  <2>1. f = [i \in 0 .. n |-> f[i]]
    OBVIOUS
  <2> QED BY <1>7, <2>1
<1>9. show = [i \in 0 .. n |->
                IF i = 0 THEN << >>
                ELSE IF Wanted(s[i]) THEN Append(show[i - 1], s[i]) ELSE show[i - 1]]
  BY <1>8
<1> HIDE DEF show
<1>10. \A i \in 0 .. n : show[i] = f[i]
  <2> DEFINE G == {i \in 0 .. n : show[i] = f[i]}
  <2>1. 0 \in G
    BY <1>1, <1>7, <1>9
  <2>2. ASSUME NEW i \in 1 .. n, i - 1 \in G PROVE i \in G
    <3>1. i \in 0 .. n /\ i # 0 /\ show[i - 1] = f[i - 1]
      BY <2>2
    <3>2. show[i] = IF Wanted(s[i]) THEN Append(show[i - 1], s[i]) ELSE show[i - 1]
      BY <1>9, <3>1
    <3>3. f[i] = IF Wanted(s[i]) THEN Append(f[i - 1], s[i]) ELSE f[i - 1]
      BY <1>7, <3>1
    <3>4. show[i] = f[i]
      <4> HIDE DEF G
      <4> QED BY <3>1, <3>2, <3>3
    <3> QED BY <3>1, <3>4
  <2> HIDE DEF G
  <2>3. \A i \in 0 .. n : i \in G
    BY <1>1, <2>1, <2>2, UpTo
  <2> QED BY <2>3 DEF G
<1>11. IsShowing(f, s)
  <2>1. f[0] = << >>
    BY <1>1, <1>7
  <2>2. \A i \in 1 .. n : f[i] = IF Wanted(s[i]) THEN Append(f[i - 1], s[i]) ELSE f[i - 1]
    <3> TAKE i \in 1 .. n
    <3>1. i \in 0 .. n /\ i # 0
      BY <1>1
    <3> QED BY <1>7, <3>1
  <2> QED BY <2>1, <2>2 DEF IsShowing, n
<1>12. ToShow(s) = f[n]
  BY <1>1, <1>2, <1>10
<1> QED BY <1>11, <1>12 DEF n

LEMMA ToShowIn ==
  ASSUME NEW s \in Seq(Lines)
  PROVE  ToShow(s) \in Seq(Lines)
<1>1. PICK f : IsShowing(f, s) /\ ToShow(s) = f[Len(s)]
  BY ShowingLines
<1>2. Len(s) \in 0 .. Len(s)
  BY LenProperties
<1> QED BY <1>1, <1>2 DEF IsShowing

\* Lines of which none is wanted.
LEMMA NothingToShow ==
  ASSUME NEW s \in Seq(Lines), \A i \in 1 .. Len(s) : ~Wanted(s[i])
  PROVE  ToShow(s) = << >>
<1>1. PICK f : IsShowing(f, s) /\ ToShow(s) = f[Len(s)]
  BY ShowingLines
<1>n. Len(s) \in Nat
  BY LenProperties
<1> DEFINE G == {i \in 0 .. Len(s) : f[i] = << >>}
<1>2. 0 \in G
  BY <1>1, <1>n DEF IsShowing
<1>3. ASSUME NEW i \in 1 .. Len(s), i - 1 \in G PROVE i \in G
  BY <1>1, <1>3 DEF IsShowing
<1> HIDE DEF G
<1>4. \A i \in 0 .. Len(s) : i \in G
  BY <1>n, <1>2, <1>3, UpTo
<1>5. f[Len(s)] = << >>
  BY <1>n, <1>4 DEF G
<1> QED BY <1>1, <1>5

\* Lines that are all wanted.
LEMMA AllToShow ==
  ASSUME NEW s \in Seq(Lines), \A i \in 1 .. Len(s) : Wanted(s[i])
  PROVE  ToShow(s) = s
<1>1. PICK f : IsShowing(f, s) /\ ToShow(s) = f[Len(s)]
  BY ShowingLines
<1>n. Len(s) \in Nat
  BY LenProperties
<1> DEFINE G == {i \in 0 .. Len(s) : Len(f[i]) = i /\ \A k \in 1 .. i : f[i][k] = s[k]}
<1>2. 0 \in G
  BY <1>1, <1>n, EmptySeq DEF IsShowing
<1>3. ASSUME NEW i \in 1 .. Len(s), i - 1 \in G PROVE i \in G
  <2>1. f[i] = Append(f[i - 1], s[i]) /\ f[i - 1] \in Seq(Lines) /\ s[i] \in Lines
    <3>1. i - 1 \in 0 .. Len(s)
      BY <1>n
    <3> QED BY <1>1, <3>1, Places DEF IsShowing
  <2>2. Len(f[i - 1]) = i - 1 /\ \A k \in 1 .. i - 1 : f[i - 1][k] = s[k]
    BY <1>3
  <2>3. Len(f[i]) = i /\ f[i][i] = s[i] /\ \A k \in 1 .. i - 1 : f[i][k] = f[i - 1][k]
    BY <2>1, <2>2, AppendProperties
  <2>4. \A k \in 1 .. i : k = i \/ k \in 1 .. i - 1
    OBVIOUS
  <2>5. i \in 0 .. Len(s)
    BY <1>n
  <2> QED BY <2>2, <2>3, <2>4, <2>5
<1> HIDE DEF G
<1>4. \A i \in 0 .. Len(s) : i \in G
  BY <1>n, <1>2, <1>3, UpTo
<1>5. Len(ToShow(s)) = Len(s) /\ \A k \in 1 .. Len(s) : ToShow(s)[k] = s[k]
  BY <1>n, <1>1, <1>4 DEF G
<1>6. ToShow(s) \in Seq(Lines)
  BY ToShowIn
<1> QED BY <1>5, <1>6, SeqEqual

LEMMA AppendConcat ==
  ASSUME NEW a \in Seq(Lines), NEW b \in Seq(Lines), NEW l \in Lines
  PROVE  Append(a \o b, l) = a \o Append(b, l)
  OBVIOUS

LEMMA Joined ==
  ASSUME NEW a \in Seq(Lines), NEW b \in Seq(Lines)
  PROVE  /\ a \o b \in Seq(Lines) /\ Len(a) \in Nat /\ Len(b) \in Nat
         /\ Len(a \o b) = Len(a) + Len(b)
         /\ \A i \in 1 .. Len(a) : (a \o b)[i] = a[i]
         /\ \A i \in 1 .. Len(b) : (a \o b)[Len(a) + i] = b[i]
<1> DEFINE c == a \o b
           p == Len(a)
           n == Len(b)
<1>1. p \in Nat /\ n \in Nat
  BY LenProperties
<1>2. /\ c \in Seq(Lines) /\ Len(c) = p + n
      /\ \A i \in 1 .. p + n : c[i] = IF i <= p THEN a[i] ELSE b[i - p]
  BY ConcatProperties
<1> HIDE DEF c, p, n
<1>3. \A i \in 1 .. p : c[i] = a[i]
  BY <1>1, <1>2
<1>4. \A i \in 1 .. n : c[p + i] = b[i]
  <2> TAKE i \in 1 .. n
  <2>1. p + i \in 1 .. p + n /\ ~(p + i <= p) /\ (p + i) - p = i
    BY <1>1
  <2> QED BY <1>2, <2>1
<1> QED BY <1>1, <1>2, <1>3, <1>4 DEF c, p, n

LEMMA ToShowConcat ==
  ASSUME NEW a \in Seq(Lines), NEW b \in Seq(Lines)
  PROVE  ToShow(a \o b) = ToShow(a) \o ToShow(b)
<1> DEFINE c == a \o b
           p == Len(a)
           n == Len(b)
<1>1. /\ c \in Seq(Lines) /\ Len(c) = p + n /\ p \in Nat /\ n \in Nat
      /\ \A i \in 1 .. p : c[i] = a[i]
      /\ \A i \in 1 .. n : c[p + i] = b[i]
  BY Joined
<1>2. PICK f : IsShowing(f, c) /\ ToShow(c) = f[Len(c)]
  BY <1>1, ShowingLines
<1>3. PICK g : IsShowing(g, a) /\ ToShow(a) = g[p]
  BY ShowingLines
<1>4. PICK h : IsShowing(h, b) /\ ToShow(b) = h[n]
  BY ShowingLines
<1>f. /\ f[0] = << >>
      /\ \A i \in 1 .. p + n : f[i] = IF Wanted(c[i]) THEN Append(f[i - 1], c[i]) ELSE f[i - 1]
  BY <1>1, <1>2 DEF IsShowing
<1>g. /\ g \in [0 .. p -> Seq(Lines)] /\ g[0] = << >>
      /\ \A i \in 1 .. p : g[i] = IF Wanted(a[i]) THEN Append(g[i - 1], a[i]) ELSE g[i - 1]
  BY <1>3 DEF IsShowing
<1>h. /\ h \in [0 .. n -> Seq(Lines)] /\ h[0] = << >>
      /\ \A i \in 1 .. n : h[i] = IF Wanted(b[i]) THEN Append(h[i - 1], b[i]) ELSE h[i - 1]
  BY <1>4 DEF IsShowing
<1> HIDE DEF c, p, n
<1>5. \A i \in 0 .. p : f[i] = g[i]
  <2> DEFINE G == {i \in 0 .. p : f[i] = g[i]}
  <2>1. 0 \in G
    BY <1>1, <1>f, <1>g
  <2>2. ASSUME NEW i \in 1 .. p, i - 1 \in G PROVE i \in G
    <3>1. f[i - 1] = g[i - 1] /\ i \in 0 .. p /\ i \in 1 .. p + n
      BY <1>1, <2>2
    <3>2. c[i] = a[i]
      BY <1>1
    <3>3. f[i] = IF Wanted(a[i]) THEN Append(g[i - 1], a[i]) ELSE g[i - 1]
      BY <1>f, <3>1, <3>2
    <3> QED BY <1>g, <3>1, <3>3
  <2> HIDE DEF G
  <2>3. \A i \in 0 .. p : i \in G
    BY <1>1, <2>1, <2>2, UpTo
  <2> QED BY <2>3 DEF G
<1>6. \A i \in 0 .. n : f[p + i] = g[p] \o h[i]
  <2> DEFINE G == {i \in 0 .. n : f[p + i] = g[p] \o h[i]}
  <2>p. g[p] \in Seq(Lines)
    BY <1>1, <1>g
  <2>1. 0 \in G
    <3>1. f[p + 0] = g[p]
      BY <1>1, <1>5
    <3>2. g[p] \o h[0] = g[p]
      BY <1>h, <2>p, ConcatEmptySeq
    <3>3. 0 \in 0 .. n
      BY <1>1
    <3>4. f[p + 0] = g[p] \o h[0]
      BY <3>1, <3>2
    <3> QED BY <3>3, <3>4
  <2>2. ASSUME NEW i \in 1 .. n, i - 1 \in G PROVE i \in G
    <3>0. i \in 0 .. n /\ i - 1 \in 0 .. n
      BY <1>1
    <3>1. f[p + (i - 1)] = g[p] \o h[i - 1] /\ i \in 0 .. n /\ i - 1 \in 0 .. n
      <4> DEFINE Same(j) == f[p + j] = g[p] \o h[j]
      <4>1. G = {j \in 0 .. n : Same(j)}
        OBVIOUS
      <4> HIDE DEF Same, G
      <4>2. Same(i - 1)
        BY <2>2, <4>1
      <4> QED BY <3>0, <4>2 DEF Same
    <3>2. p + i \in 1 .. p + n /\ (p + i) - 1 = p + (i - 1)
      BY <1>1
    <3>3. c[p + i] = b[i] /\ b[i] \in Lines
      BY <1>1, Places DEF n
    <3>4. f[p + i] = IF Wanted(b[i]) THEN Append(g[p] \o h[i - 1], b[i]) ELSE g[p] \o h[i - 1]
      BY <1>f, <3>1, <3>2, <3>3
    <3>5. h[i] = IF Wanted(b[i]) THEN Append(h[i - 1], b[i]) ELSE h[i - 1]
      BY <1>h
    <3>6. h[i - 1] \in Seq(Lines)
      BY <1>h, <3>1
    <3>7. Append(g[p] \o h[i - 1], b[i]) = g[p] \o Append(h[i - 1], b[i])
      BY <2>p, <3>3, <3>6, AppendConcat
    <3>8. f[p + i] = g[p] \o h[i]
      BY <3>4, <3>5, <3>7
    <3> QED BY <3>1, <3>8
  <2> HIDE DEF G
  <2>3. \A i \in 0 .. n : i \in G
    BY <1>1, <2>1, <2>2, UpTo
  <2> QED BY <2>3 DEF G
<1>7. f[p + n] = g[p] \o h[n]
  <2>1. n \in 0 .. n
    BY <1>1
  <2> QED BY <1>6, <2>1
<1>8. ToShow(c) = g[p] \o h[n]
  BY <1>1, <1>2, <1>7
<1> QED BY <1>3, <1>4, <1>8 DEF c

-----------------------------------------------------------------------------
(***************************************************************************)
(* vindata at each line of what the switch has yet to send, and that it is *)
(* FALSE at the end: data[i] is its value behind the line i.  In data are  *)
(* the lines of data that are to be shown, outside their outcome and what  *)
(* begins the data.                                                        *)
(***************************************************************************)
InData(data, lines, first) ==
  /\ data \in [0 .. Len(lines) -> BOOLEAN]
  /\ data[0] = first /\ data[Len(lines)] = FALSE
  /\ \A i \in 1 .. Len(lines) :
       /\ data[i] = IF data[i - 1] THEN lines[i].kind # "dot" ELSE lines[i].kind = "0000"
       /\ lines[i].reply > 0 =>
            /\ lines[i].kind \in {"0000", "data", "dot", "1000"}
            /\ lines[i].kind \in {"data", "dot"} <=> data[i - 1]
DataEnds(lines) ==
  \A i \in 1 .. Len(lines) :
    /\ lines[i].reply = 0
    /\ lines[i].kind = "0000" => \E j \in i + 1 .. Len(lines) : lines[j].kind = "dot"
Chained(lines, r) ==
  /\ \A i \in 1 .. Len(lines) - 1 : Follows(lines[i], lines[i + 1])
  /\ lines[Len(lines)] = Outcome(r)

RepliesInv ==
  /\ RepliesTypeOK
  /\ Chained(<<Outcome(0)>> \o shown \o ToShow(wire \o unsent), replies)
  /\ IF listed THEN \E data \in [0 .. Len(wire \o unsent) -> BOOLEAN] :
                      InData(data, wire \o unsent, vindata)
     ELSE vindata = FALSE /\ replies = 0 /\ shown = << >> /\ DataEnds(wire \o unsent)

LEMMA InDataMore ==
  ASSUME NEW a \in Seq(Lines), NEW b \in Seq(Lines), NEW first \in BOOLEAN,
         NEW d, InData(d, a, first), NEW e, InData(e, b, FALSE)
  PROVE  \E data \in [0 .. Len(a \o b) -> BOOLEAN] : InData(data, a \o b, first)
<1> DEFINE c == a \o b
           p == Len(a)
           n == Len(b)
           data == [i \in 0 .. p + n |-> IF i <= p THEN d[i] ELSE e[i - p]]
<1>1. /\ c \in Seq(Lines) /\ Len(c) = p + n /\ p \in Nat /\ n \in Nat
      /\ \A i \in 1 .. p : c[i] = a[i]
      /\ \A i \in 1 .. n : c[p + i] = b[i]
  BY Joined
<1>d. /\ d \in [0 .. p -> BOOLEAN] /\ d[0] = first /\ d[p] = FALSE
      /\ \A i \in 1 .. p :
           /\ d[i] = IF d[i - 1] THEN a[i].kind # "dot" ELSE a[i].kind = "0000"
           /\ a[i].reply > 0 =>
                /\ a[i].kind \in {"0000", "data", "dot", "1000"}
                /\ a[i].kind \in {"data", "dot"} <=> d[i - 1]
  BY DEF InData
<1>e. /\ e \in [0 .. n -> BOOLEAN] /\ e[0] = FALSE /\ e[n] = FALSE
      /\ \A i \in 1 .. n :
           /\ e[i] = IF e[i - 1] THEN b[i].kind # "dot" ELSE b[i].kind = "0000"
           /\ b[i].reply > 0 =>
                /\ b[i].kind \in {"0000", "data", "dot", "1000"}
                /\ b[i].kind \in {"data", "dot"} <=> e[i - 1]
  BY DEF InData
<1> HIDE DEF c, p, n
<1>2. data \in [0 .. p + n -> BOOLEAN]
  <2>1. \A i \in 0 .. p + n : IF i <= p THEN i \in 0 .. p ELSE i - p \in 0 .. n
    BY <1>1
  <2> QED BY <1>d, <1>e, <2>1
<1>3. \A i \in 0 .. p : data[i] = d[i]
  BY <1>1
<1>4. \A i \in 0 .. n : data[p + i] = e[i]
  <2> TAKE i \in 0 .. n
  <2>1. CASE i = 0
    <3>1. p + i = p /\ p \in 0 .. p
      BY <1>1, <2>1
    <3> QED BY <1>3, <1>d, <1>e, <2>1, <3>1
  <2>2. CASE i # 0
    <3>1. p + i \in 0 .. p + n /\ ~(p + i <= p) /\ (p + i) - p = i
      BY <1>1, <2>2
    <3> QED BY <3>1
  <2> QED BY <2>1, <2>2
<1> HIDE DEF data
<1>5. data[0] = first /\ data[p + n] = FALSE
  BY <1>1, <1>3, <1>4, <1>d, <1>e
<1>6. ASSUME NEW i \in 1 .. p + n
      PROVE  /\ data[i] = IF data[i - 1] THEN c[i].kind # "dot" ELSE c[i].kind = "0000"
             /\ c[i].reply > 0 =>
                  /\ c[i].kind \in {"0000", "data", "dot", "1000"}
                  /\ c[i].kind \in {"data", "dot"} <=> data[i - 1]
  <2>1. CASE i <= p
    <3>1. i \in 1 .. p /\ i \in 0 .. p /\ i - 1 \in 0 .. p
      BY <1>1, <2>1
    <3>2. data[i] = d[i] /\ data[i - 1] = d[i - 1] /\ c[i] = a[i]
      BY <1>1, <1>3, <3>1
    <3> QED BY <1>d, <3>1, <3>2
  <2>2. CASE ~(i <= p)
    <3> DEFINE j == i - p
    <3>1. j \in 1 .. n /\ j \in 0 .. n /\ j - 1 \in 0 .. n /\ p + j = i /\ p + (j - 1) = i - 1
      BY <1>1, <2>2
    <3> HIDE DEF j
    <3>2. data[i] = e[j] /\ data[i - 1] = e[j - 1] /\ c[i] = b[j]
      BY <1>1, <1>4, <3>1
    <3> QED BY <1>e, <3>1, <3>2
  <2> QED BY <2>1, <2>2
<1>7. InData(data, c, first)
  BY <1>1, <1>2, <1>5, <1>6 DEF InData
<1>8. data \in [0 .. Len(c) -> BOOLEAN]
  BY <1>1, <1>2
<1> QED BY <1>7, <1>8 DEF c

\* A message in between, behind the first p lines, of no reply.
Inserted(c, o, p, m) ==
  /\ c \in Seq(Lines) /\ Len(c) = Len(o) + 1
  /\ \A i \in 1 .. p : c[i] = o[i]
  /\ c[p + 1] = m
  /\ \A i \in p + 1 .. Len(o) : c[i + 1] = o[i]

LEMMA InDataBetween ==
  ASSUME NEW o \in Seq(Lines), NEW p \in 0 .. Len(o), NEW first \in BOOLEAN, NEW m \in Lines,
         m.kind = "3000", m.reply = 0, NEW c, Inserted(c, o, p, m), NEW d, InData(d, o, first)
  PROVE  \E data \in [0 .. Len(c) -> BOOLEAN] : InData(data, c, first)
<1> DEFINE n == Len(o)
           data == [i \in 0 .. n + 1 |-> IF i <= p THEN d[i] ELSE d[i - 1]]
<1>1. n \in Nat /\ p \in 0 .. n
  BY LenProperties
<1>2. /\ Len(c) = n + 1 /\ (\A i \in 1 .. p : c[i] = o[i]) /\ c[p + 1] = m
      /\ \A i \in p + 1 .. n : c[i + 1] = o[i]
  BY DEF Inserted
<1>d. /\ d \in [0 .. n -> BOOLEAN] /\ d[0] = first /\ d[n] = FALSE
      /\ \A i \in 1 .. n :
           /\ d[i] = IF d[i - 1] THEN o[i].kind # "dot" ELSE o[i].kind = "0000"
           /\ o[i].reply > 0 =>
                /\ o[i].kind \in {"0000", "data", "dot", "1000"}
                /\ o[i].kind \in {"data", "dot"} <=> d[i - 1]
  BY DEF InData
<1> HIDE DEF n
<1>3. data \in [0 .. n + 1 -> BOOLEAN]
  <2>1. \A i \in 0 .. n + 1 : IF i <= p THEN i \in 0 .. n ELSE i - 1 \in 0 .. n
    BY <1>1
  <2> QED BY <1>d, <2>1
<1>4. (\A i \in 0 .. p : data[i] = d[i]) /\ \A i \in p + 1 .. n + 1 : data[i] = d[i - 1]
  BY <1>1
<1> HIDE DEF data
<1>5. data[0] = first /\ data[n + 1] = FALSE
  <2>1. 0 \in 0 .. p /\ n + 1 \in p + 1 .. n + 1 /\ (n + 1) - 1 = n
    BY <1>1
  <2> QED BY <1>4, <1>d, <2>1
<1>6. ASSUME NEW i \in 1 .. n + 1
      PROVE  /\ data[i] = IF data[i - 1] THEN c[i].kind # "dot" ELSE c[i].kind = "0000"
             /\ c[i].reply > 0 =>
                  /\ c[i].kind \in {"0000", "data", "dot", "1000"}
                  /\ c[i].kind \in {"data", "dot"} <=> data[i - 1]
  <2>1. CASE i <= p
    <3>1. i \in 1 .. p /\ i \in 0 .. p /\ i - 1 \in 0 .. p /\ i \in 1 .. n
      BY <1>1, <2>1
    <3>2. data[i] = d[i] /\ data[i - 1] = d[i - 1] /\ c[i] = o[i]
      BY <1>2, <1>4, <3>1
    <3> QED BY <1>d, <3>1, <3>2
  <2>2. CASE i = p + 1
    <3>1. i \in p + 1 .. n + 1 /\ i - 1 = p /\ p \in 0 .. p
      BY <1>1, <2>2
    <3>2. data[i] = d[p] /\ data[i - 1] = d[p] /\ c[i] = m
      BY <1>2, <1>4, <2>2, <3>1
    <3>3. d[p] \in BOOLEAN
      BY <1>1, <1>d
    <3>4. data[i] = IF data[i - 1] THEN c[i].kind # "dot" ELSE c[i].kind = "0000"
      BY <3>2, <3>3
    <3> QED BY <3>2, <3>4
  <2>3. CASE i > p + 1
    <3> DEFINE j == i - 1
    <3>1. /\ j \in p + 1 .. n /\ j \in 1 .. n /\ i \in p + 1 .. n + 1
          /\ i - 1 \in p + 1 .. n + 1 /\ i - 1 = j /\ j + 1 = i
      BY <1>1, <2>3
    <3>2. data[i] = d[j] /\ data[i - 1] = d[j - 1]
      BY <1>4, <3>1
    <3> HIDE DEF j
    <3>3. c[i] = o[j]
      <4>1. c[j + 1] = o[j]
        BY <1>2, <3>1
      <4> QED BY <3>1, <4>1
    <3> QED BY <1>d, <3>1, <3>2, <3>3
  <2> QED BY <1>1, <2>1, <2>2, <2>3
<1>7. InData(data, c, first)
  BY <1>2, <1>3, <1>5, <1>6 DEF InData
<1>8. data \in [0 .. Len(c) -> BOOLEAN]
  BY <1>2, <1>3
<1> QED BY <1>7, <1>8

LEMMA DataEndsBetween ==
  ASSUME NEW o \in Seq(Lines), NEW p \in 0 .. Len(o), NEW m \in Lines,
         m.kind = "3000", m.reply = 0, NEW c, Inserted(c, o, p, m), DataEnds(o)
  PROVE  DataEnds(c)
<1> DEFINE n == Len(o)
           to(i) == IF i <= p THEN i ELSE i + 1
<1>1. n \in Nat /\ p \in 0 .. n
  BY LenProperties
<1>2. /\ Len(c) = n + 1 /\ (\A i \in 1 .. p : c[i] = o[i]) /\ c[p + 1] = m
      /\ \A i \in p + 1 .. n : c[i + 1] = o[i]
  BY DEF Inserted
<1>3. \A i \in 1 .. n :
        /\ o[i].reply = 0
        /\ o[i].kind = "0000" => \E j \in i + 1 .. n : o[j].kind = "dot"
  BY DEF DataEnds
<1> HIDE DEF n
<1>4. \A i \in 1 .. n : to(i) \in 1 .. n + 1 /\ c[to(i)] = o[i]
  BY <1>1, <1>2
<1>5. \A k \in 1 .. n + 1 : k = p + 1 \/ \E i \in 1 .. n : to(i) = k
  <2> TAKE k \in 1 .. n + 1
  <2>1. CASE k <= p
    BY <1>1, <2>1
  <2>2. CASE k > p + 1
    <3>1. k - 1 \in 1 .. n /\ ~(k - 1 <= p) /\ (k - 1) + 1 = k
      BY <1>1, <2>2
    <3> QED BY <3>1
  <2> QED BY <1>1, <2>1, <2>2
<1>6. \A i, j \in 1 .. n : i < j => to(i) < to(j)
  BY <1>1
<1> HIDE DEF to
<1>7. ASSUME NEW k \in 1 .. n + 1
      PROVE  /\ c[k].reply = 0
             /\ c[k].kind = "0000" => \E j \in k + 1 .. n + 1 : c[j].kind = "dot"
  <2>1. CASE k = p + 1
    BY <1>2, <2>1
  <2>2. CASE k # p + 1
    <3>1. PICK i \in 1 .. n : to(i) = k
      BY <1>5, <2>2
    <3>2. c[k] = o[i]
      BY <1>4, <3>1
    <3>3. ASSUME c[k].kind = "0000"
          PROVE  \E j \in k + 1 .. n + 1 : c[j].kind = "dot"
      <4>1. PICK j \in i + 1 .. n : o[j].kind = "dot"
        BY <1>3, <3>2, <3>3
      <4>2. j \in 1 .. n /\ i < j
        BY <1>1
      <4>3. to(j) \in 1 .. n + 1 /\ c[to(j)].kind = "dot" /\ k < to(j)
        BY <1>4, <1>6, <3>1, <4>1, <4>2
      <4>4. to(j) \in k + 1 .. n + 1
        BY <1>1, <4>3
      <4> QED BY <4>3, <4>4
    <3> QED BY <1>3, <3>2, <3>3
  <2> QED BY <2>1, <2>2
<1> QED BY <1>2, <1>7 DEF DataEnds

-----------------------------------------------------------------------------
\* A reply as it is written, and what of it is to be shown.
LEMMA DataLines ==
  ASSUME NEW r \in 0 .. MaxReplies, NEW n \in 0 .. MaxData
  PROVE  /\ [i \in 1 .. n |-> Ln("data", r, i)] \in Seq(Lines)
         /\ Len([i \in 1 .. n |-> Ln("data", r, i)]) = n
<1> DEFINE D == [i \in 1 .. n |-> Ln("data", r, i)]
<1>1. n \in Nat /\ \A i \in 1 .. n : i \in 0 .. MaxData + MaxDebug
  BY RepliesAssumption
<1>2. \A i \in 1 .. n : Ln("data", r, i) \in Lines
  BY <1>1 DEF Lines, Ln, LineKinds
<1>3. D \in [1 .. n -> Lines]
  BY <1>2
<1>4. D \in Seq(Lines)
  BY <1>1, <1>3, SeqDef
<1>5. DOMAIN D = 1 .. n
  OBVIOUS
<1>6. Len(D) = n
  <2>1. DOMAIN D = 1 .. Len(D) /\ Len(D) \in Nat
    BY <1>4, LenProperties
  <2> HIDE DEF D
  <2> QED BY <1>1, <1>5, <2>1
<1> QED BY <1>4, <1>6

LEMMA OneLine ==
  ASSUME NEW l \in Lines
  PROVE  <<l>> \in Seq(Lines) /\ Len(<<l>>) = 1 /\ <<l>>[1] = l
         /\ (\A i \in 1 .. Len(<<l>>) : <<l>>[i] = l)
         /\ ToShow(<<l>>) = IF Wanted(l) THEN <<l>> ELSE << >>
<1>1. <<l>> \in Seq(Lines) /\ Len(<<l>>) = 1 /\ <<l>>[1] = l
  OBVIOUS
<1>2. \A i \in 1 .. Len(<<l>>) : <<l>>[i] = l
  BY <1>1
<1>3. CASE Wanted(l)
  <2>1. ToShow(<<l>>) = <<l>>
    BY <1>1, <1>2, <1>3, AllToShow
  <2> QED BY <1>1, <1>2, <1>3, <2>1
<1>4. CASE ~Wanted(l)
  <2>1. ToShow(<<l>>) = << >>
    BY <1>1, <1>2, <1>4, NothingToShow
  <2> QED BY <1>1, <1>2, <1>4, <2>1
<1> QED BY <1>3, <1>4

LEMMA ReplyWhole ==
  ASSUME NEW r \in 1 .. MaxReplies, NEW n \in 0 .. MaxData
  PROVE  /\ ReplyLines(r, n) \in Seq(Lines)
         /\ ToShow(ReplyLines(r, n)) = [i \in 1 .. n |-> Ln("data", r, i)] \o <<Outcome(r)>>
         /\ \E data : InData(data, ReplyLines(r, n), FALSE)
<1> DEFINE D == [i \in 1 .. n |-> Ln("data", r, i)]
           b == Ln("0000", r, 0)
           e == Ln("dot", r, 0)
           o == Outcome(r)
           R == ReplyLines(r, n)
<1>1. D \in Seq(Lines) /\ Len(D) = n /\ \A i \in 1 .. n : D[i] = Ln("data", r, i)
  BY DataLines
<1>2. /\ b \in Lines /\ b.kind = "0000" /\ b.reply = r
      /\ e \in Lines /\ e.kind = "dot" /\ e.reply = r
      /\ o \in Lines /\ o.kind = "1000" /\ o.reply = r
  BY RepliesAssumption DEF Lines, Ln, LineKinds, Outcome
<1>n. n \in Nat /\ r \in Nat /\ r > 0
  BY RepliesAssumption
<1>3. ToShow(D) = D
  <2>1. \A i \in 1 .. Len(D) : Wanted(D[i])
    BY <1>1, <1>n DEF Ln, Wanted
  <2> QED BY <1>1, <2>1, AllToShow
<1>4. ToShow(<<b>>) = << >> /\ ToShow(<<e>>) = << >> /\ ToShow(<<o>>) = <<o>>
  BY <1>2, <1>n, OneLine DEF Wanted
<1>s. <<b>> \in Seq(Lines) /\ <<e>> \in Seq(Lines) /\ <<o>> \in Seq(Lines) /\ << >> \in Seq(Lines)
  BY <1>2, OneLine, EmptySeq
<1>5. R = (IF n = 0 THEN << >> ELSE <<b>> \o D \o <<e>>) \o <<o>>
  BY DEF ReplyLines, Outcome
<1> HIDE DEF D, b, e, o, R
<1>6. CASE n = 0
  <2>1. R = <<o>>
    BY <1>2, <1>5, <1>6, <1>s, ConcatEmptySeq
  <2>2. R \in Seq(Lines) /\ Len(R) = 1 /\ R[1] = o
    BY <1>2, <2>1, OneLine
  <2>3. D = << >>
    BY <1>1, <1>6, EmptySeq
  <2>4. ToShow(R) = D \o <<o>>
    BY <1>4, <1>s, <2>1, <2>3, ConcatEmptySeq
  <2>5. InData([i \in 0 .. 1 |-> FALSE], R, FALSE)
    <3> DEFINE data == [i \in 0 .. 1 |-> FALSE]
    <3>1. data \in [0 .. 1 -> BOOLEAN] /\ \A i \in 0 .. 1 : data[i] = FALSE
      OBVIOUS
    <3> HIDE DEF data
    <3>2. \A i \in 1 .. Len(R) : R[i] = o /\ data[i] = FALSE /\ data[i - 1] = FALSE
      BY <2>2, <3>1
    <3>3. InData(data, R, FALSE)
      BY <1>2, <2>2, <3>1, <3>2 DEF InData
    <3> QED BY <3>3 DEF data
  <2> QED BY <2>2, <2>4, <2>5 DEF D, o, R
<1>7. CASE n # 0
  <2> DEFINE x == <<b>> \o D
             y == x \o <<e>>
  <2>1. /\ x \in Seq(Lines) /\ Len(x) = n + 1 /\ x[1] = b
        /\ \A i \in 1 .. n : x[1 + i] = D[i]
    BY <1>1, <1>2, <1>s, OneLine, Joined
  <2>2. /\ y \in Seq(Lines) /\ Len(y) = n + 2 /\ y[n + 2] = e
        /\ \A i \in 1 .. n + 1 : y[i] = x[i]
    <3> HIDE DEF x
    <3>1. Len(<<e>>) = 1 /\ <<e>>[1] = e
      BY <1>2, OneLine
    <3>2. /\ y \in Seq(Lines) /\ Len(y) = Len(x) + Len(<<e>>)
          /\ \A i \in 1 .. Len(x) : y[i] = x[i]
          /\ \A i \in 1 .. Len(<<e>>) : y[Len(x) + i] = <<e>>[i]
      BY <1>s, <2>1, Joined
    <3> HIDE DEF y
    <3>3. y[Len(x) + 1] = e
      BY <3>1, <3>2
    <3>4. Len(x) + 1 = n + 2 /\ Len(y) = n + 2
      BY <1>n, <2>1, <3>1, <3>2
    <3> QED BY <2>1, <3>2, <3>3, <3>4
  <2>3. R = y \o <<o>>
    BY <1>5, <1>7
  <2>4. /\ R \in Seq(Lines) /\ Len(R) = n + 3 /\ R[n + 3] = o
        /\ \A i \in 1 .. n + 2 : R[i] = y[i]
    <3> HIDE DEF y
    <3>1. Len(<<o>>) = 1 /\ <<o>>[1] = o
      BY <1>2, OneLine
    <3>2. /\ R \in Seq(Lines) /\ Len(R) = Len(y) + Len(<<o>>)
          /\ \A i \in 1 .. Len(y) : R[i] = y[i]
          /\ \A i \in 1 .. Len(<<o>>) : R[Len(y) + i] = <<o>>[i]
      BY <1>s, <2>2, <2>3, Joined
    <3>3. R[Len(y) + 1] = o
      BY <3>1, <3>2
    <3>4. Len(y) + 1 = n + 3 /\ Len(R) = n + 3
      BY <1>n, <2>2, <3>1, <3>2
    <3> QED BY <2>2, <3>2, <3>3, <3>4
  <2>5. ToShow(x) = D
    <3> DEFINE u == <<b>>
    <3>1. u \in Seq(Lines) /\ ToShow(u) = << >> /\ x = u \o D
      BY <1>4, <1>s
    <3> HIDE DEF u, x
    <3>2. ToShow(x) = ToShow(u) \o ToShow(D)
      BY <1>1, <3>1, ToShowConcat
    <3> QED BY <1>1, <1>3, <3>1, <3>2, ConcatEmptySeq
  <2>6. ToShow(y) = D
    <3> DEFINE u == <<e>>
    <3>1. u \in Seq(Lines) /\ ToShow(u) = << >> /\ y = x \o u
      BY <1>4, <1>s
    <3> HIDE DEF u, x, y
    <3>2. ToShow(y) = ToShow(x) \o ToShow(u)
      BY <2>1, <3>1, ToShowConcat
    <3> QED BY <1>1, <2>5, <3>1, <3>2, ConcatEmptySeq
  <2>7. ToShow(R) = D \o <<o>>
    <3> HIDE DEF y
    <3> QED BY <1>4, <1>s, <2>2, <2>3, <2>6, ToShowConcat, ZenonT(60)
  <2> HIDE DEF x, y
  <2> DEFINE data == [i \in 0 .. n + 3 |-> IF i >= 1 /\ i <= n + 1 THEN TRUE ELSE FALSE]
  <2>8. InData(data, R, FALSE)
    <3>1. /\ data \in [0 .. n + 3 -> BOOLEAN] /\ data[0] = FALSE /\ data[n + 3] = FALSE
      <4>1. data \in [0 .. n + 3 -> BOOLEAN]
        OBVIOUS
      <4>2. 0 \in 0 .. n + 3 /\ n + 3 \in 0 .. n + 3 /\ ~(n + 3 <= n + 1)
        BY <1>n
      <4> QED BY <4>1, <4>2
    <3>2. ASSUME NEW i \in 1 .. n + 3
          PROVE  /\ data[i] = IF data[i - 1] THEN R[i].kind # "dot" ELSE R[i].kind = "0000"
                 /\ R[i].kind \in {"0000", "data", "dot", "1000"}
                 /\ R[i].kind \in {"data", "dot"} <=> data[i - 1]
      <4>0. /\ i <= n + 1 => data[i] = TRUE
            /\ i > n + 1 => data[i] = FALSE
            /\ i = 1 => data[i - 1] = FALSE
            /\ i > 1 /\ i <= n + 2 => data[i - 1] = TRUE
            /\ i = n + 3 => data[i - 1] = FALSE
        <5>1. i \in 0 .. n + 3 /\ i - 1 \in 0 .. n + 3 /\ i >= 1
          BY <1>n
        <5>2. data[i] = IF i >= 1 /\ i <= n + 1 THEN TRUE ELSE FALSE
          BY <5>1
        <5>3. data[i - 1] = IF i - 1 >= 1 /\ i - 1 <= n + 1 THEN TRUE ELSE FALSE
          BY <5>1
        <5> HIDE DEF data
        <5>4. (i <= n + 1 => data[i] = TRUE) /\ (i > n + 1 => data[i] = FALSE)
          BY <5>1, <5>2
        <5>5. /\ i = 1 => data[i - 1] = FALSE
              /\ i > 1 /\ i <= n + 2 => data[i - 1] = TRUE
              /\ i = n + 3 => data[i - 1] = FALSE
          BY <1>n, <5>1, <5>3
        <5> QED BY <5>4, <5>5
      <4> HIDE DEF data
      <4>1. CASE i = 1
        <5>1. R[i] = b
          BY <1>n, <2>1, <2>2, <2>4, <4>1
        <5>2. data[i] = TRUE /\ data[i - 1] = FALSE
          BY <1>n, <4>0, <4>1
        <5> QED BY <1>2, <5>1, <5>2
      <4>2. CASE i \in 2 .. n + 1
        <5>1. i - 1 \in 1 .. n /\ 1 + (i - 1) = i /\ i \in 1 .. n + 1 /\ i \in 1 .. n + 2
          BY <1>n, <4>2
        <5>2. R[i] = D[i - 1]
          BY <2>1, <2>2, <2>4, <5>1
        <5>3. R[i].kind = "data"
          BY <1>1, <5>1, <5>2 DEF Ln
        <5>4. data[i] = TRUE /\ data[i - 1] = TRUE
          BY <1>n, <4>0, <4>2
        <5> QED BY <5>3, <5>4
      <4>3. CASE i = n + 2
        <5>1. R[i] = e
          BY <1>n, <2>2, <2>4, <4>3
        <5>2. data[i] = FALSE /\ data[i - 1] = TRUE
          BY <1>n, <4>0, <4>3
        <5> QED BY <1>2, <5>1, <5>2
      <4>4. CASE i = n + 3
        <5>1. R[i] = o
          BY <2>4, <4>4
        <5>2. data[i] = FALSE /\ data[i - 1] = FALSE
          BY <1>n, <4>0, <4>4
        <5> QED BY <1>2, <5>1, <5>2
      <4> QED BY <1>n, <4>1, <4>2, <4>3, <4>4
    <3> HIDE DEF data
    <3> QED BY <2>4, <3>1, <3>2 DEF InData
  <2> QED BY <2>4, <2>7, <2>8 DEF D, o, R
<1> QED BY <1>6, <1>7

-----------------------------------------------------------------------------
LEMMA LeastPlace ==
  ASSUME NEW n \in Nat, NEW I, I \subseteq 1 .. n
  PROVE  (IF I # {} THEN Min(I) ELSE 0) \in 0 .. n
         /\ (I # {} => Min(I) \in I /\ \A i \in I : Min(I) <= i)
<1>1. CASE I = {}
  BY <1>1
<1>2. CASE I # {}
  <2>1. PICK m \in I : \A i \in I : m <= i
    <3>1. I \subseteq Nat
      OBVIOUS
    <3> QED BY <1>2, <3>1, LeastNat
  <2>2. Min(I) \in I /\ \A i \in I : Min(I) <= i
    <3>1. \E k \in I : \A i \in I : k =< i
      BY <2>1
    <3>2. Min(I) = CHOOSE k \in I : \A i \in I : k =< i
      BY DEF Min
    <3> QED BY <3>1, <3>2
  <2>3. Min(I) \in 0 .. n
    <3>1. Min(I) \in 1 .. n
      BY <2>2
    <3> QED BY <3>1
  <2> QED BY <1>2, <2>2, <2>3
<1> QED BY <1>1, <1>2

LEMMA FirstDot ==
  ASSUME NEW s \in Seq(Lines), NEW dot, dot = SelectInSeq(s, LAMBDA l : l.kind = "dot")
  PROVE  /\ dot \in 0 .. Len(s)
         /\ dot # 0 => s[dot].kind = "dot"
         /\ dot = 0 => \A i \in 1 .. Len(s) : s[i].kind # "dot"
<1> DEFINE I == {i \in 1 .. Len(s) : s[i].kind = "dot"}
<1>1. dot = IF I # {} THEN Min(I) ELSE 0
  BY DEF SelectInSeq
<1>2. Len(s) \in Nat
  BY LenProperties
<1>3. I \subseteq 1 .. Len(s)
  OBVIOUS
<1>4. \A i \in I : s[i].kind = "dot" /\ i # 0
  OBVIOUS
<1>5. I = {} => \A i \in 1 .. Len(s) : s[i].kind # "dot"
  OBVIOUS
<1> HIDE DEF I
<1>6. dot \in 0 .. Len(s) /\ (I # {} => dot \in I)
  BY <1>1, <1>2, <1>3, LeastPlace
<1>7. CASE I = {}
  BY <1>1, <1>5, <1>6, <1>7
<1>8. CASE I # {}
  BY <1>4, <1>6, <1>8
<1> QED BY <1>7, <1>8

LEMMA WordsIn ==
  ASSUME NEW s \in Seq(Lines)
  PROVE  Words(s) \in Seq(Lines)
<1> DEFINE d == SelectInSeq(s, LAMBDA l : l.kind = "dashes")
           I == {i \in 1 .. Len(s) : s[i].kind = "dashes"}
<1>1. d = IF I # {} THEN Min(I) ELSE 0
  BY DEF SelectInSeq
<1>2. Len(s) \in Nat
  BY LenProperties
<1>3. I \subseteq 1 .. Len(s)
  OBVIOUS
<1>4. Words(s) = IF d = 0 THEN << >> ELSE SubSeq(s, d + 1, Len(s))
  BY DEF Words
<1> HIDE DEF I, d
<1>5. d \in 0 .. Len(s)
  BY <1>1, <1>2, <1>3, LeastPlace
<1>6. \A i \in d + 1 .. Len(s) : s[i] \in Lines
  BY <1>2, <1>5, Places
<1>7. SubSeq(s, d + 1, Len(s)) \in Seq(Lines)
  BY <1>2, <1>5, <1>6, SubSeqProperties
<1> QED BY <1>4, <1>7, EmptySeq

-----------------------------------------------------------------------------
LEMMA DataEndsWell ==
  ASSUME NEW s \in Seq(Lines), DataEnds(s)
  PROVE  \E data \in [0 .. Len(s) -> BOOLEAN] : InData(data, s, FALSE)
<1> DEFINE n == Len(s)
           Begun(i) == \E j \in 1 .. i : s[j].kind = "0000" /\ \A k \in j + 1 .. i : s[k].kind # "dot"
           data == [i \in 0 .. n |-> IF Begun(i) THEN TRUE ELSE FALSE]
<1>1. n \in Nat
  BY LenProperties
<1>2. \A i \in 1 .. n : s[i].reply = 0 /\ (s[i].kind = "0000" => \E j \in i + 1 .. n : s[j].kind = "dot")
  BY DEF DataEnds
<1> HIDE DEF n
<1>3. data \in [0 .. n -> BOOLEAN] /\ \A i \in 0 .. n : data[i] = IF Begun(i) THEN TRUE ELSE FALSE
  OBVIOUS
<1> HIDE DEF data
<1>4. data[0] = FALSE
  <2>1. ~Begun(0)
    OBVIOUS
  <2>2. 0 \in 0 .. n
    BY <1>1
  <2> HIDE DEF Begun
  <2> QED BY <1>3, <2>1, <2>2
<1>5. data[n] = FALSE
  <2>1. ~Begun(n)
    BY <1>1, <1>2
  <2>2. n \in 0 .. n
    BY <1>1
  <2> HIDE DEF Begun
  <2> QED BY <1>3, <2>1, <2>2
<1>6. ASSUME NEW i \in 1 .. n
      PROVE  data[i] = IF data[i - 1] THEN s[i].kind # "dot" ELSE s[i].kind = "0000"
  <2>1. i \in 0 .. n /\ i - 1 \in 0 .. n /\ i \in Nat /\ i > 0
    BY <1>1
  <2>2. Begun(i) <=> s[i].kind = "0000" \/ (Begun(i - 1) /\ s[i].kind # "dot")
    <3>1. ASSUME NEW j \in 1 .. i - 1
          PROVE  (\A k \in j + 1 .. i : s[k].kind # "dot")
                   <=> (\A k \in j + 1 .. i - 1 : s[k].kind # "dot") /\ s[i].kind # "dot"
      <4>1. \A k : k \in j + 1 .. i <=> k \in j + 1 .. i - 1 \/ k = i
        BY <2>1
      <4> QED BY <4>1
    <3>2. (\A k \in i + 1 .. i : s[k].kind # "dot") /\ \A j : j \in 1 .. i <=> j \in 1 .. i - 1 \/ j = i
      BY <2>1
    <3> QED BY <3>1, <3>2
  <2> HIDE DEF Begun
  <2>3. data[i] = (IF Begun(i) THEN TRUE ELSE FALSE) /\ data[i - 1] = (IF Begun(i - 1) THEN TRUE ELSE FALSE)
    BY <1>3, <2>1
  <2>4. CASE Begun(i - 1)
    <3>1. CASE s[i].kind # "dot"
      BY <2>2, <2>3, <2>4, <3>1
    <3>2. CASE s[i].kind = "dot"
      BY <2>2, <2>3, <2>4, <3>2
    <3> QED BY <3>1, <3>2
  <2>5. CASE ~Begun(i - 1)
    <3>1. CASE s[i].kind = "0000"
      BY <2>2, <2>3, <2>5, <3>1
    <3>2. CASE s[i].kind # "0000"
      BY <2>2, <2>3, <2>5, <3>2
    <3> QED BY <3>1, <3>2
  <2> QED BY <2>4, <2>5
<1>7. \A i \in 1 .. n : ~(s[i].reply > 0)
  BY <1>2
<1>8. InData(data, s, FALSE)
  BY <1>3, <1>4, <1>5, <1>6, <1>7 DEF InData, n
<1> QED BY <1>3, <1>8 DEF n

LEMMA NothingOfReplies ==
  ASSUME NEW s \in Seq(Lines), DataEnds(s)
  PROVE  ToShow(s) = << >>
<1>1. \A i \in 1 .. Len(s) : ~Wanted(s[i])
  BY DEF DataEnds, Wanted
<1> QED BY <1>1, NothingToShow

LEMMA HelpWhole ==
  /\ HelpReply(MaxData) \in Seq(Lines)
  /\ DataEnds(HelpReply(MaxData))
<1> DEFINE n == MaxData
           D == [i \in 1 .. n |-> Ln("data", 0, i)]
           a == <<Ln("0000", 0, 0), Ln("dashes", 0, 0)>>
           z == <<Ln("dot", 0, 0), Ln("1000", 0, 0)>>
           x == a \o D
           H == x \o z
<1>n. n \in Nat
  BY RepliesAssumption
<1>1. D \in Seq(Lines) /\ Len(D) = n /\ \A i \in 1 .. n : D[i] = Ln("data", 0, i)
  <2>1. 0 \in 0 .. MaxReplies /\ n \in 0 .. MaxData
    BY RepliesAssumption
  <2> QED BY <2>1, DataLines
<1>2. /\ a \in Seq(Lines) /\ Len(a) = 2 /\ \A i \in 1 .. 2 : a[i].reply = 0
  <2>1. Ln("0000", 0, 0) \in Lines /\ Ln("dashes", 0, 0) \in Lines
    BY RepliesAssumption DEF Lines, Ln, LineKinds
  <2> QED BY <2>1 DEF Ln
<1>3. /\ z \in Seq(Lines) /\ Len(z) = 2 /\ z[1] = Ln("dot", 0, 0) /\ z[2] = Ln("1000", 0, 0)
  <2>1. Ln("dot", 0, 0) \in Lines /\ Ln("1000", 0, 0) \in Lines
    BY RepliesAssumption DEF Lines, Ln, LineKinds
  <2> QED BY <2>1
<1>4. HelpReply(MaxData) = H
  BY DEF HelpReply
<1> HIDE DEF n, D, a, z, x, H
<1>5. /\ x \in Seq(Lines) /\ Len(x) = n + 2
      /\ \A i \in 1 .. 2 : x[i] = a[i]
      /\ \A i \in 1 .. n : x[2 + i] = D[i]
  <2>1. /\ x \in Seq(Lines) /\ Len(x) = Len(a) + Len(D)
        /\ \A i \in 1 .. Len(a) : x[i] = a[i]
        /\ \A i \in 1 .. Len(D) : x[Len(a) + i] = D[i]
    BY <1>1, <1>2, Joined DEF x
  <2>2. Len(a) = 2 /\ Len(D) = n
    BY <1>1, <1>2
  <2>3. /\ x \in Seq(Lines) /\ Len(x) = 2 + n
        /\ \A i \in 1 .. 2 : x[i] = a[i]
        /\ \A i \in 1 .. n : x[2 + i] = D[i]
    BY <2>1, <2>2
  <2> QED BY <1>n, <2>3
<1>6. /\ H \in Seq(Lines) /\ Len(H) = n + 4
      /\ \A i \in 1 .. n + 2 : H[i] = x[i]
      /\ \A i \in 1 .. 2 : H[n + 2 + i] = z[i]
  <2>1. /\ H \in Seq(Lines) /\ Len(H) = Len(x) + Len(z)
        /\ \A i \in 1 .. Len(x) : H[i] = x[i]
        /\ \A i \in 1 .. Len(z) : H[Len(x) + i] = z[i]
    BY <1>3, <1>5, Joined DEF H
  <2> QED BY <1>n, <1>3, <1>5, <2>1
<1>7. H[n + 3] = Ln("dot", 0, 0) /\ H[n + 4] = Ln("1000", 0, 0)
  <2>1. H[n + 2 + 1] = z[1] /\ H[n + 2 + 2] = z[2] /\ n + 2 + 1 = n + 3 /\ n + 2 + 2 = n + 4
    BY <1>n, <1>6
  <2> QED BY <1>3, <2>1
<1>8. ASSUME NEW i \in 1 .. n + 4
      PROVE  H[i].reply = 0 /\ (i > n + 2 => H[i].kind # "0000")
  <2>1. CASE i \in 1 .. 2
    BY <1>n, <1>2, <1>5, <1>6, <2>1
  <2>2. CASE i \in 3 .. n + 2
    <3>1. i - 2 \in 1 .. n /\ 2 + (i - 2) = i /\ i \in 1 .. n + 2 /\ ~(i > n + 2)
      BY <1>n, <2>2
    <3>2. H[i] = D[i - 2]
      BY <1>5, <1>6, <3>1
    <3> QED BY <1>1, <3>1, <3>2 DEF Ln
  <2>3. CASE i \in {n + 3, n + 4}
    BY <1>7, <2>3 DEF Ln
  <2> QED BY <1>n, <2>1, <2>2, <2>3
<1>9. DataEnds(H)
  <2>1. ASSUME NEW i \in 1 .. n + 4, H[i].kind = "0000"
        PROVE  \E j \in i + 1 .. n + 4 : H[j].kind = "dot"
    <3>1. n + 3 \in i + 1 .. n + 4
      BY <1>n, <1>8, <2>1
    <3>2. H[n + 3].kind = "dot"
      BY <1>7 DEF Ln
    <3> QED BY <3>1, <3>2
  <2> QED BY <1>6, <1>8, <2>1 DEF DataEnds
<1> QED BY <1>4, <1>6, <1>9

-----------------------------------------------------------------------------
LEMMA HeadBefore ==
  ASSUME NEW s \in Seq(Lines), s # << >>
  PROVE  /\ Head(s) \in Lines /\ Tail(s) \in Seq(Lines) /\ Head(s) = s[1]
         /\ Len(s) \in Nat \ {0} /\ Len(Tail(s)) = Len(s) - 1
         /\ \A i \in 1 .. Len(s) - 1 : Tail(s)[i] = s[i + 1]
         /\ s = <<Head(s)>> \o Tail(s)
<1> DEFINE h == Head(s)
           t == Tail(s)
           f == <<h>>
           c == f \o t
<1>1. /\ h \in Lines /\ t \in Seq(Lines) /\ Len(t) = Len(s) - 1
      /\ \A i \in 1 .. Len(t) : t[i] = s[i + 1]
  BY HeadTailProperties
<1>2. Len(s) \in Nat \ {0} /\ h = s[1]
  BY EmptySeq
<1>3. f \in Seq(Lines) /\ Len(f) = 1 /\ f[1] = h
  BY <1>1, OneLine
<1> HIDE DEF h, t, f, c
<1>4. /\ c \in Seq(Lines) /\ Len(c) = Len(f) + Len(t)
      /\ \A i \in 1 .. Len(f) : c[i] = f[i]
      /\ \A i \in 1 .. Len(t) : c[Len(f) + i] = t[i]
  BY <1>1, <1>3, Joined DEF c
<1>5. Len(c) = Len(s)
  BY <1>1, <1>2, <1>3, <1>4
<1>6. \A i \in 1 .. Len(c) : c[i] = s[i]
  <2> TAKE i \in 1 .. Len(c)
  <2>1. CASE i = 1
    BY <1>2, <1>3, <1>4, <2>1
  <2>2. CASE i # 1
    <3>1. i - 1 \in 1 .. Len(t) /\ Len(f) + (i - 1) = i /\ (i - 1) + 1 = i
      BY <1>1, <1>2, <1>3, <1>5, <2>2
    <3>2. c[Len(f) + (i - 1)] = t[i - 1] /\ t[i - 1] = s[(i - 1) + 1]
      BY <1>1, <1>4, <3>1
    <3> QED BY <3>1, <3>2
  <2> QED BY <2>1, <2>2
<1>7. c = s
  BY <1>4, <1>5, <1>6, SeqEqual
<1>8. \A i \in 1 .. Len(s) - 1 : t[i] = s[i + 1]
  BY <1>1
<1> QED BY <1>1, <1>2, <1>7, <1>8 DEF h, t, f, c

LEMMA RepliesFacts ==
  ASSUME RepliesInv
  PROVE  /\ wire \in Seq(Lines) /\ unsent \in Seq(Lines) /\ shown \in Seq(Lines)
         /\ wire \o unsent \in Seq(Lines) /\ vindata \in BOOLEAN /\ listed \in BOOLEAN
         /\ replies \in 0 .. MaxReplies /\ debugs \in 0 .. MaxDebug
         /\ commandlist \in Seq(Lines)
  BY Joined DEF RepliesInv, RepliesTypeOK

LEMMA FirstOutcome == <<Outcome(0)>> \in Seq(Lines) /\ Len(<<Outcome(0)>>) = 1
<1>1. Outcome(0) \in Lines
  BY RepliesAssumption DEF Outcome, Ln, Lines, LineKinds
<1> QED BY <1>1, OneLine

LEMMA RepliesStart == RepliesInit => RepliesInv
<1> SUFFICES ASSUME RepliesInit PROVE RepliesInv
  OBVIOUS
<1> DEFINE H == HelpReply(MaxData)
           f == <<Outcome(0)>>
<1>1. /\ wire = << >> /\ unsent = H /\ replies = 0 /\ debugs = 0 /\ shown = << >>
      /\ listed = FALSE /\ vindata = FALSE /\ commandlist = << >>
  BY DEF RepliesInit
<1>2. H \in Seq(Lines) /\ DataEnds(H)
  BY HelpWhole
<1>3. f \in Seq(Lines) /\ Len(f) = 1 /\ f[1] = Outcome(0)
  BY FirstOutcome
<1> HIDE DEF H, f
<1>4. wire \o unsent = H
  BY <1>1, <1>2, ConcatEmptySeq
<1>5. ToShow(H) = << >>
  BY <1>2, NothingOfReplies
<1>6. (f \o shown) \o ToShow(wire \o unsent) = f
  <2>1. f \o << >> = f
    BY <1>3, ConcatEmptySeq
  <2> QED BY <1>1, <1>4, <1>5, <2>1
<1>7. Chained(f, 0)
  BY <1>3 DEF Chained
<1>8. RepliesTypeOK
  <2>1. << >> \in Seq(Lines) /\ 0 \in 0 .. MaxReplies /\ 0 \in 0 .. MaxDebug
    BY EmptySeq, RepliesAssumption
  <2> QED BY <1>1, <1>2, <2>1 DEF RepliesTypeOK
<1> QED BY <1>1, <1>2, <1>4, <1>6, <1>7, <1>8 DEF RepliesInv, f

LEMMA LineArrivesKeepsInv == RepliesInv /\ LineArrives => RepliesInv'
<1> SUFFICES ASSUME RepliesInv, LineArrives PROVE RepliesInv'
  OBVIOUS
<1> DEFINE h == Head(unsent)
           t == Tail(unsent)
<1>1. /\ unsent # << >> /\ wire' = Append(wire, h) /\ unsent' = t
      /\ replies' = replies /\ debugs' = debugs /\ listed' = listed
      /\ commandlist' = commandlist /\ vindata' = vindata /\ shown' = shown
  BY DEF LineArrives
<1>2. h \in Lines /\ t \in Seq(Lines) /\ unsent = <<h>> \o t
  BY <1>1, HeadBefore, RepliesFacts
<1> HIDE DEF h, t
<1>3. wire' \in Seq(Lines)
  BY <1>1, <1>2, RepliesFacts, AppendProperties
<1>4. wire' \o unsent' = wire \o unsent
  <2>1. Append(wire, h) = wire \o <<h>>
    BY <1>2, RepliesFacts, AppendIsConcat
  <2>2. <<h>> \in Seq(Lines)
    BY <1>2, OneLine
  <2>3. (wire \o <<h>>) \o t = wire \o (<<h>> \o t)
    BY <1>2, <2>2, RepliesFacts, ConcatAssociative, SMTT(30)
  <2> QED BY <1>1, <1>2, <2>1, <2>3
<1>5. RepliesTypeOK'
  BY <1>1, <1>2, <1>3, RepliesFacts DEF RepliesTypeOK
<1> QED BY <1>1, <1>4, <1>5 DEF RepliesInv

LEMMA DebugArrivesKeepsInv == RepliesInv /\ DebugArrives => RepliesInv'
<1> SUFFICES ASSUME RepliesInv, DebugArrives PROVE RepliesInv'
  OBVIOUS
<1> DEFINE m == Ln("3000", 0, debugs + 1)
           u == <<m>>
           rest == wire \o unsent
<1>1. /\ debugs < MaxDebug /\ debugs' = debugs + 1 /\ wire' = Append(wire, m)
      /\ unsent' = unsent /\ replies' = replies /\ listed' = listed
      /\ commandlist' = commandlist /\ vindata' = vindata /\ shown' = shown
  BY DEF DebugArrives
<1>2. debugs' \in 0 .. MaxDebug
  BY <1>1, RepliesFacts, RepliesAssumption
<1>3. m \in Lines /\ m.kind = "3000" /\ m.reply = 0 /\ ~Wanted(m)
  <2>1. debugs + 1 \in 0 .. MaxData + MaxDebug
    BY <1>1, RepliesFacts, RepliesAssumption
  <2> QED BY <2>1, RepliesAssumption DEF Ln, Lines, LineKinds, Wanted
<1>4. u \in Seq(Lines) /\ Len(u) = 1 /\ u[1] = m /\ ToShow(u) = << >>
  BY <1>3, OneLine
<1>5. wire' \in Seq(Lines) /\ wire' = wire \o u
  BY <1>1, <1>3, RepliesFacts, AppendIsConcat, AppendProperties
<1> DEFINE w == wire'
           rest2 == w \o unsent
<1>6. /\ w \in Seq(Lines) /\ Len(w) = Len(wire) + 1 /\ Len(wire) \in Nat
      /\ \A i \in 1 .. Len(wire) : w[i] = wire[i]
      /\ w[Len(wire) + 1] = m
  <2> HIDE DEF m
  <2>1. Len(wire) \in Nat
    BY RepliesFacts, LenProperties
  <2> QED BY <1>1, <1>3, <1>5, <2>1, RepliesFacts, AppendProperties
<1> HIDE DEF w, u, m
<1>o. rest \in Seq(Lines) /\ Len(wire) \in 0 .. Len(rest)
  <2>1. Len(rest) = Len(wire) + Len(unsent) /\ Len(wire) \in Nat /\ Len(unsent) \in Nat
    BY RepliesFacts, Joined
  <2> HIDE DEF rest
  <2>2. Len(wire) \in 0 .. Len(rest)
    BY <2>1
  <2> QED BY <2>2, RepliesFacts DEF rest
<1>7. Inserted(rest2, rest, Len(wire), m)
  <2>1. /\ rest2 \in Seq(Lines) /\ Len(rest2) = Len(w) + Len(unsent) /\ Len(unsent) \in Nat
        /\ \A i \in 1 .. Len(w) : rest2[i] = w[i]
        /\ \A i \in 1 .. Len(unsent) : rest2[Len(w) + i] = unsent[i]
    BY <1>6, RepliesFacts, Joined
  <2>2. /\ Len(rest) = Len(wire) + Len(unsent)
        /\ \A i \in 1 .. Len(wire) : rest[i] = wire[i]
        /\ \A i \in 1 .. Len(unsent) : rest[Len(wire) + i] = unsent[i]
    BY RepliesFacts, Joined
  <2> HIDE DEF rest2, rest
  <2>3. Len(wire) + 1 \in 1 .. Len(w) /\ \A i \in 1 .. Len(wire) : i \in 1 .. Len(w)
    BY <1>6
  <2>4. Len(rest2) = Len(rest) + 1
    BY <1>6, <2>1, <2>2
  <2>5. rest2[Len(wire) + 1] = m /\ \A i \in 1 .. Len(wire) : rest2[i] = rest[i]
    BY <1>6, <2>1, <2>2, <2>3
  <2>6. ASSUME NEW i \in Len(wire) + 1 .. Len(rest) PROVE rest2[i + 1] = rest[i]
    <3> DEFINE k == i - Len(wire)
    <3>1. k \in 1 .. Len(unsent) /\ Len(w) + k = i + 1 /\ Len(wire) + k = i
      BY <1>6, <2>1, <2>2
    <3> HIDE DEF k
    <3>2. rest2[Len(w) + k] = unsent[k] /\ rest[Len(wire) + k] = unsent[k]
      BY <2>1, <2>2, <3>1
    <3> QED BY <3>1, <3>2
  <2> QED BY <2>1, <2>4, <2>5, <2>6 DEF Inserted
<1>8. ToShow(rest2) = ToShow(rest)
  <2>1. ToShow(w) = ToShow(wire) \o ToShow(u)
    BY <1>4, <1>5, RepliesFacts, ToShowConcat DEF w
  <2>2. ToShow(wire) \in Seq(Lines)
    BY RepliesFacts, ToShowIn
  <2>3. ToShow(w) = ToShow(wire)
    BY <1>4, <2>1, <2>2, ConcatEmptySeq
  <2>4. ToShow(rest2) = ToShow(w) \o ToShow(unsent)
    BY <1>6, RepliesFacts, ToShowConcat
  <2>5. ToShow(rest) = ToShow(wire) \o ToShow(unsent)
    BY RepliesFacts, ToShowConcat
  <2> QED BY <2>3, <2>4, <2>5
<1>r. wire' \o unsent' = rest2
  BY <1>1 DEF w
<1>9. RepliesTypeOK'
  BY <1>1, <1>2, <1>5, RepliesFacts DEF RepliesTypeOK
<1>10. Chained(<<Outcome(0)>> \o shown' \o ToShow(wire' \o unsent'), replies')
  BY <1>1, <1>8, <1>r DEF RepliesInv
<1>11. CASE listed
  <2>1. PICK d : InData(d, rest, vindata)
    BY <1>11 DEF RepliesInv
  <2> HIDE DEF rest2, rest
  <2>2. \E data \in [0 .. Len(rest2) -> BOOLEAN] : InData(data, rest2, vindata)
    BY <1>3, <1>7, <1>o, <2>1, RepliesFacts, InDataBetween
  <2> QED BY <1>1, <1>9, <1>10, <1>11, <1>r, <2>2 DEF RepliesInv
<1>12. CASE ~listed
  <2>1. vindata = FALSE /\ replies = 0 /\ shown = << >> /\ DataEnds(rest)
    BY <1>12 DEF RepliesInv
  <2> HIDE DEF rest2, rest
  <2>8. DataEnds(rest2)
    BY <1>3, <1>7, <1>o, <2>1, DataEndsBetween
  <2> QED BY <1>1, <1>9, <1>10, <1>12, <1>r, <2>1, <2>8 DEF RepliesInv
<1> QED BY <1>11, <1>12

LEMMA MgmtToTermKeepsInv == RepliesInv /\ MgmtToTerm => RepliesInv'
<1> SUFFICES ASSUME RepliesInv, MgmtToTerm PROVE RepliesInv'
  OBVIOUS
<1> DEFINE l == Head(wire)
           u == <<l>>
           t == Tail(wire)
           rest == wire \o unsent
           rest2 == t \o unsent
<1>1. /\ listed /\ wire # << >> /\ vindata' = InDataAfter(l)
      /\ shown' = (IF Shows(l) /\ l.reply > 0 THEN Append(shown, l) ELSE shown)
      /\ wire' = t /\ unsent' = unsent /\ replies' = replies /\ debugs' = debugs
      /\ listed' = listed /\ commandlist' = commandlist
  BY DEF MgmtToTerm
<1>2. l \in Lines /\ t \in Seq(Lines) /\ wire = u \o t
  BY <1>1, HeadBefore, RepliesFacts
<1>3. u \in Seq(Lines) /\ Len(u) = 1 /\ u[1] = l /\ ToShow(u) = IF Wanted(l) THEN u ELSE << >>
  BY <1>2, OneLine
<1> HIDE DEF l, u, t
<1>4. rest2 \in Seq(Lines) /\ rest = u \o rest2
  <2>0. u \in Seq(Lines) /\ t \in Seq(Lines) /\ unsent \in Seq(Lines)
    BY <1>2, <1>3, RepliesFacts
  <2>1. (u \o t) \o unsent = u \o (t \o unsent)
    BY <2>0, ConcatAssociative, SMTT(30)
  <2> QED BY <1>2, <2>1, RepliesFacts, Joined
<1> HIDE DEF rest2
<1>5. /\ Len(rest) = Len(rest2) + 1 /\ rest[1] = l /\ Len(rest2) \in Nat
      /\ \A i \in 1 .. Len(rest2) : rest[i + 1] = rest2[i]
  <2>1. /\ Len(rest) = Len(u) + Len(rest2) /\ Len(rest2) \in Nat
        /\ \A i \in 1 .. Len(u) : rest[i] = u[i]
        /\ \A i \in 1 .. Len(rest2) : rest[Len(u) + i] = rest2[i]
    <3>1. u \in Seq(Lines)
      BY <1>3
    <3> HIDE DEF rest
    <3> QED BY <1>4, <3>1, Joined
  <2> HIDE DEF rest
  <2> QED BY <1>3, <2>1
<1>6. PICK d : InData(d, rest, vindata)
  BY <1>1 DEF RepliesInv
<1> HIDE DEF rest
<1> DEFINE n == Len(rest2)
<1>7. /\ d \in [0 .. n + 1 -> BOOLEAN] /\ d[0] = vindata /\ d[n + 1] = FALSE
      /\ \A i \in 1 .. n + 1 :
           /\ d[i] = IF d[i - 1] THEN rest[i].kind # "dot" ELSE rest[i].kind = "0000"
           /\ rest[i].reply > 0 =>
                /\ rest[i].kind \in {"0000", "data", "dot", "1000"}
                /\ rest[i].kind \in {"data", "dot"} <=> d[i - 1]
  BY <1>5, <1>6 DEF InData
<1>8. /\ d[1] = IF vindata THEN l.kind # "dot" ELSE l.kind = "0000"
      /\ l.reply > 0 =>
           /\ l.kind \in {"0000", "data", "dot", "1000"}
           /\ l.kind \in {"data", "dot"} <=> vindata
  <2>1. 1 \in 1 .. n + 1 /\ 1 - 1 = 0
    BY <1>5
  <2>2. /\ d[1] = IF d[1 - 1] THEN rest[1].kind # "dot" ELSE rest[1].kind = "0000"
        /\ rest[1].reply > 0 =>
             /\ rest[1].kind \in {"0000", "data", "dot", "1000"}
             /\ rest[1].kind \in {"data", "dot"} <=> d[1 - 1]
    BY <1>7, <2>1
  <2> QED BY <1>5, <1>7, <2>1, <2>2
<1>9. vindata' = d[1] /\ vindata' \in BOOLEAN
  <2>1. vindata' = IF vindata THEN l.kind # "dot" ELSE l.kind = "0000"
    BY <1>1 DEF InDataAfter
  <2>2. CASE vindata
    BY <1>8, <2>1, <2>2
  <2>3. CASE ~vindata
    BY <1>8, <2>1, <2>3
  <2> QED BY <2>2, <2>3
\* What is shown of the line is what is to be shown.
<1>10. l.reply > 0 => (Shows(l) <=> Wanted(l))
  <2>1. CASE vindata
    BY <1>8, <2>1 DEF Shows, Wanted
  <2>2. CASE ~vindata
    BY <1>8, <2>2 DEF Shows, Wanted
  <2> QED BY <2>1, <2>2
<1>11. Wanted(l) => l.reply > 0
  BY DEF Wanted
<1> DEFINE f == <<Outcome(0)>>
           s2 == ToShow(rest2)
<1>12. f \in Seq(Lines) /\ s2 \in Seq(Lines)
  BY <1>4, FirstOutcome, ToShowIn
<1>13. ToShow(rest) = ToShow(u) \o s2
  BY <1>3, <1>4, ToShowConcat
<1>14. shown' \in Seq(Lines) /\ (f \o shown') \o s2 = (f \o shown) \o ToShow(rest)
  <2> HIDE DEF f, s2
  <2>1. CASE Wanted(l)
    <3>1. shown' = Append(shown, l)
      BY <1>1, <1>10, <1>11, <2>1
    <3>2. shown' = shown \o u /\ shown' \in Seq(Lines)
      BY <1>2, <3>1, RepliesFacts, AppendIsConcat, AppendProperties DEF u
    <3>3. (f \o shown') \o s2 = (f \o shown) \o ToShow(rest)
      <4>1. f \in Seq(Lines) /\ shown \in Seq(Lines) /\ u \in Seq(Lines) /\ s2 \in Seq(Lines)
        BY <1>3, <1>12, RepliesFacts
      <4> DEFINE y == f \o shown
      <4>2. y = f \o shown /\ ToShow(rest) = u \o s2 /\ shown' = shown \o u
        BY <1>3, <1>13, <2>1, <3>2
      <4>3. f \o shown' = y \o u
        BY <4>1, <4>2, ConcatAssociative, SMTT(30)
      <4>4. y \in Seq(Lines)
        BY <4>1, Joined
      <4> HIDE DEF y
      <4>0. y \in Seq(Lines) /\ u \in Seq(Lines) /\ s2 \in Seq(Lines)
        BY <4>1, <4>4
      <4>5. (y \o u) \o s2 = y \o (u \o s2)
        BY <4>0, ConcatAssociative
      <4>6. (f \o shown') \o s2 = y \o ToShow(rest)
        BY <4>2, <4>3, <4>5
      <4> QED BY <4>6 DEF y
    <3> QED BY <3>2, <3>3
  <2>2. CASE ~Wanted(l)
    <3>1. shown' = shown
      BY <1>1, <1>10, <2>2
    <3>2. ToShow(rest) = s2
      BY <1>3, <1>12, <1>13, <2>2, ConcatEmptySeq
    <3> QED BY <3>1, <3>2, RepliesFacts
  <2> QED BY <2>1, <2>2
<1>15. Chained(<<Outcome(0)>> \o shown' \o ToShow(wire' \o unsent'), replies')
  <2>1. wire' \o unsent' = rest2
    BY <1>1 DEF rest2
  <2>2. Chained((f \o shown) \o ToShow(rest), replies)
    BY DEF RepliesInv, rest
  <2> HIDE DEF f, s2
  <2>3. Chained((f \o shown') \o s2, replies')
    BY <1>1, <1>14, <2>2
  <2> QED BY <2>1, <2>3 DEF f, s2
<1> DEFINE e == [i \in 0 .. n |-> d[i + 1]]
<1>16. InData(e, rest2, vindata')
  <2>1. e \in [0 .. n -> BOOLEAN] /\ \A i \in 0 .. n : e[i] = d[i + 1]
    <3>1. \A i \in 0 .. n : i + 1 \in 0 .. n + 1
      BY <1>5
    <3> QED BY <1>7, <3>1
  <2> HIDE DEF e
  <2>2. e[0] = vindata' /\ e[n] = FALSE
    BY <1>5, <1>7, <1>9, <2>1
  <2>3. ASSUME NEW i \in 1 .. n
        PROVE  /\ e[i] = IF e[i - 1] THEN rest2[i].kind # "dot" ELSE rest2[i].kind = "0000"
               /\ rest2[i].reply > 0 =>
                    /\ rest2[i].kind \in {"0000", "data", "dot", "1000"}
                    /\ rest2[i].kind \in {"data", "dot"} <=> e[i - 1]
    <3>1. i + 1 \in 1 .. n + 1 /\ (i + 1) - 1 = i /\ i \in 0 .. n /\ i - 1 \in 0 .. n
          /\ (i - 1) + 1 = i
      BY <1>5
    <3>2. e[i] = d[i + 1] /\ e[i - 1] = d[i] /\ rest[i + 1] = rest2[i]
      BY <1>5, <2>1, <3>1
    <3> QED BY <1>7, <3>1, <3>2
  <2> QED BY <2>1, <2>2, <2>3 DEF InData
<1>17. e \in [0 .. Len(rest2) -> BOOLEAN]
  BY <1>16 DEF InData
<1>18. RepliesTypeOK'
  BY <1>1, <1>2, <1>9, <1>14, RepliesFacts DEF RepliesTypeOK
<1>19. listed' /\ wire' \o unsent' = rest2
  BY <1>1 DEF rest2
<1> HIDE DEF e, n
<1> QED BY <1>15, <1>16, <1>17, <1>18, <1>19 DEF RepliesInv

LEMMA ReplyFollows ==
  ASSUME NEW a \in Seq(Lines), NEW r \in 0 .. MaxReplies - 1, NEW n \in 0 .. MaxData,
         Len(a) > 0, Chained(a, r),
         NEW b, b = [i \in 1 .. n |-> Ln("data", r + 1, i)] \o <<Outcome(r + 1)>>
  PROVE  b \in Seq(Lines) /\ Chained(a \o b, r + 1)
<1> DEFINE D == [i \in 1 .. n |-> Ln("data", r + 1, i)]
           o == Outcome(r + 1)
           u == <<o>>
           c == a \o b
           p == Len(a)
<1>n. n \in Nat /\ r \in Nat /\ r + 1 \in 0 .. MaxReplies /\ p \in Nat /\ p > 0
  BY LenProperties, RepliesAssumption
<1>1. D \in Seq(Lines) /\ Len(D) = n /\ \A i \in 1 .. n : D[i] = Ln("data", r + 1, i)
  BY <1>n, DataLines
<1>2. o \in Lines
  BY <1>n, RepliesAssumption DEF Outcome, Ln, Lines, LineKinds
<1>3. u \in Seq(Lines) /\ Len(u) = 1 /\ u[1] = o
  BY <1>2, OneLine
<1>4. b = D \o u
  OBVIOUS
<1> HIDE DEF D, u
<1>5. /\ b \in Seq(Lines) /\ Len(b) = n + 1 /\ b[n + 1] = o
      /\ \A i \in 1 .. n : b[i] = Ln("data", r + 1, i)
  <2>1. /\ b \in Seq(Lines) /\ Len(b) = Len(D) + Len(u)
        /\ \A i \in 1 .. Len(D) : b[i] = D[i]
        /\ \A i \in 1 .. Len(u) : b[Len(D) + i] = u[i]
    BY <1>1, <1>3, <1>4, Joined
  <2> QED BY <1>1, <1>3, <2>1
<1>6. /\ c \in Seq(Lines) /\ Len(c) = p + n + 1
      /\ \A i \in 1 .. p : c[i] = a[i]
      /\ \A i \in 1 .. n + 1 : c[p + i] = b[i]
  <2>1. /\ c \in Seq(Lines) /\ Len(c) = p + Len(b)
        /\ \A i \in 1 .. p : c[i] = a[i]
        /\ \A i \in 1 .. Len(b) : c[p + i] = b[i]
    BY <1>5, Joined
  <2> HIDE DEF c, p
  <2>2. p + Len(b) = p + n + 1 /\ Len(b) = n + 1
    BY <1>n, <1>5
  <2> QED BY <2>1, <2>2
<1>7. /\ \A i \in 1 .. p - 1 : Follows(a[i], a[i + 1])
      /\ a[p] = Outcome(r)
  BY DEF Chained
<1> HIDE DEF c, p
<1>8. c[p + n + 1] = o
  <2>1. n + 1 \in 1 .. n + 1 /\ p + (n + 1) = p + n + 1
    BY <1>n
  <2> QED BY <1>5, <1>6, <2>1
<1>9. ASSUME NEW i \in 1 .. p + n PROVE Follows(c[i], c[i + 1])
  <2>1. CASE i < p
    <3>1. i \in 1 .. p - 1 /\ i \in 1 .. p /\ i + 1 \in 1 .. p
      BY <1>n, <2>1
    <3> QED BY <1>6, <1>7, <3>1
  <2>2. CASE i = p
    <3>1. c[i] = Outcome(r) /\ c[i + 1] = b[1]
      BY <1>n, <1>6, <1>7, <2>2
    <3>2. CASE n = 0
      <4>1. b[1] = Outcome(r + 1)
        BY <1>5, <3>2
      <4> QED BY <3>1, <4>1 DEF Follows, Outcome, Ln
    <3>3. CASE n # 0
      <4>1. b[1] = Ln("data", r + 1, 1)
        BY <1>n, <1>5, <3>3
      <4> QED BY <3>1, <4>1 DEF Follows, Outcome, Ln
    <3> QED BY <3>2, <3>3
  <2>3. CASE i > p
    <3> DEFINE k == i - p
    <3>1. k \in 1 .. n /\ k + 1 \in 1 .. n + 1 /\ k \in 1 .. n + 1 /\ p + k = i
          /\ p + (k + 1) = i + 1 /\ k \in Nat
      BY <1>n, <2>3
    <3> HIDE DEF k
    <3>2. c[i] = b[k] /\ c[i + 1] = b[k + 1]
      BY <1>6, <3>1
    <3>3. b[k] = Ln("data", r + 1, k)
      BY <1>5, <3>1
    <3>d. /\ Ln("data", r + 1, k).kind = "data" /\ Ln("data", r + 1, k).reply = r + 1
          /\ Ln("data", r + 1, k).at = k
      BY DEF Ln
    <3>4. CASE k = n
      <4>1. b[k + 1] = Outcome(r + 1)
        BY <1>5, <3>4
      <4>2. c[i].kind = "data" /\ c[i].reply = r + 1
        BY <3>d, <3>2, <3>3
      <4>3. c[i + 1] = Outcome(c[i].reply)
        BY <3>2, <4>1, <4>2
      <4> QED BY <4>2, <4>3 DEF Follows
    <3>5. CASE k # n
      <4>1. k + 1 \in 1 .. n
        BY <1>n, <3>1, <3>5
      <4>2. b[k + 1] = Ln("data", r + 1, k + 1)
        BY <1>5, <4>1
      <4>3. c[i].kind = "data" /\ c[i].reply = r + 1 /\ c[i].at = k
        BY <3>d, <3>2, <3>3
      <4>4. c[i + 1] = Ln("data", c[i].reply, c[i].at + 1)
        BY <3>2, <4>2, <4>3
      <4> QED BY <4>3, <4>4 DEF Follows
    <3> QED BY <3>4, <3>5
  <2> QED BY <1>n, <2>1, <2>2, <2>3
<1>10. Len(c) - 1 = p + n
  BY <1>n, <1>6
<1>11. Chained(c, r + 1)
  BY <1>6, <1>8, <1>9, <1>10 DEF Chained
<1> QED BY <1>5, <1>11 DEF c

LEMMA NextReplyKeepsInv ==
  ASSUME RepliesInv, NEW n \in 0 .. MaxData, NextReply(n)
  PROVE  RepliesInv'
<1> DEFINE R == ReplyLines(replies + 1, n)
           rest == wire \o unsent
           f == <<Outcome(0)>>
           s == ToShow(wire)
           b == [i \in 1 .. n |-> Ln("data", replies + 1, i)] \o <<Outcome(replies + 1)>>
<1>1. /\ listed /\ unsent = << >> /\ replies < MaxReplies /\ replies' = replies + 1
      /\ unsent' = R /\ debugs' = debugs /\ wire' = wire /\ listed' = listed
      /\ commandlist' = commandlist /\ vindata' = vindata /\ shown' = shown
  BY DEF NextReply
<1>2. replies \in 0 .. MaxReplies - 1 /\ replies + 1 \in 1 .. MaxReplies
  BY <1>1, RepliesFacts, RepliesAssumption
<1>3. R \in Seq(Lines) /\ ToShow(R) = b /\ \E e : InData(e, R, FALSE)
  BY <1>2, ReplyWhole
<1>4. rest = wire
  BY <1>1, RepliesFacts, ConcatEmptySeq
<1>5. f \in Seq(Lines) /\ Len(f) = 1 /\ s \in Seq(Lines)
  BY FirstOutcome, RepliesFacts, ToShowIn
<1>6. PICK d : InData(d, wire, vindata)
  BY <1>1, <1>4 DEF RepliesInv
<1>7. PICK e : InData(e, R, FALSE)
  BY <1>3
<1> HIDE DEF R
<1>8. \E data \in [0 .. Len(wire \o R) -> BOOLEAN] : InData(data, wire \o R, vindata)
  BY <1>3, <1>6, <1>7, RepliesFacts, InDataMore
<1> DEFINE a == (f \o shown) \o s
<1>9. a \in Seq(Lines) /\ Len(a) > 0
  <2> HIDE DEF f, s
  <2>1. f \o shown \in Seq(Lines) /\ Len(f \o shown) = 1 + Len(shown) /\ Len(shown) \in Nat
    <3>1. f \in Seq(Lines) /\ shown \in Seq(Lines) /\ Len(f) = 1
      BY <1>5, RepliesFacts
    <3>2. f \o shown \in Seq(Lines) /\ Len(f \o shown) = Len(f) + Len(shown) /\ Len(shown) \in Nat
      BY <3>1, Joined
    <3> QED BY <3>1, <3>2
  <2> DEFINE y == f \o shown
  <2> HIDE DEF y
  <2>2. y \o s \in Seq(Lines) /\ Len(y \o s) = Len(y) + Len(s) /\ Len(s) \in Nat
    BY <1>5, <2>1, Joined DEF y
  <2>3. a = y \o s
    BY DEF y
  <2> HIDE DEF a
  <2> QED BY <2>1, <2>2, <2>3 DEF y
<1>10. Chained(a, replies)
  BY <1>4 DEF RepliesInv
<1>11. b \in Seq(Lines) /\ Chained(a \o b, replies + 1)
  <2> HIDE DEF a
  <2> QED BY <1>2, <1>9, <1>10, ReplyFollows
<1> HIDE DEF b
<1>12. a \o b = (f \o shown) \o ToShow(wire \o R)
  <2> DEFINE y == f \o shown
  <2>1. y \in Seq(Lines)
    BY <1>5, RepliesFacts, Joined
  <2>2. ToShow(wire \o R) = s \o b
    BY <1>3, RepliesFacts, ToShowConcat
  <2> HIDE DEF y, s
  <2>3. (y \o s) \o b = y \o (s \o b)
    BY <1>5, <1>11, <2>1, ConcatAssociative, SMTT(30)
  <2> QED BY <2>2, <2>3 DEF y
<1>13. Chained(<<Outcome(0)>> \o shown' \o ToShow(wire' \o unsent'), replies')
  BY <1>1, <1>11, <1>12
<1>14. RepliesTypeOK'
  <2>1. replies' \in 0 .. MaxReplies
    BY <1>1, <1>2
  <2> QED BY <1>1, <1>3, <2>1, RepliesFacts DEF RepliesTypeOK
<1> QED BY <1>1, <1>8, <1>13, <1>14 DEF RepliesInv

\* What is left of the lines is an end of them, its first perhaps torn.
LEMMA DataEndsCut ==
  ASSUME NEW o \in Seq(Lines), DataEnds(o), NEW q \in 0 .. Len(o), NEW c \in Seq(Lines),
         Len(c) = Len(o) - q,
         \A i \in 1 .. Len(c) : c[i] = o[q + i] \/ (i = 1 /\ c[i].reply = 0 /\ c[i].kind = "torn")
  PROVE  DataEnds(c)
<1> DEFINE n == Len(o)
<1>1. n \in Nat /\ Len(c) = n - q /\ q \in 0 .. n
  BY LenProperties
<1>2. \A i \in 1 .. n :
        /\ o[i].reply = 0
        /\ o[i].kind = "0000" => \E j \in i + 1 .. n : o[j].kind = "dot"
  BY DEF DataEnds
<1> HIDE DEF n
<1>3. ASSUME NEW i \in 1 .. n - q
      PROVE  /\ c[i].reply = 0
             /\ c[i].kind = "0000" => \E j \in i + 1 .. n - q : c[j].kind = "dot"
  <2>1. q + i \in 1 .. n
    BY <1>1
  <2>2. CASE c[i] = o[q + i]
    <3>1. ASSUME c[i].kind = "0000"
          PROVE  \E j \in i + 1 .. n - q : c[j].kind = "dot"
      <4>1. PICK j \in q + i + 1 .. n : o[j].kind = "dot"
        BY <1>2, <2>1, <2>2, <3>1
      <4> DEFINE k == j - q
      <4>2. k \in i + 1 .. n - q /\ k \in 1 .. n - q /\ k # 1 /\ q + k = j
        BY <1>1
      <4> HIDE DEF k
      <4>3. c[k] = o[j]
        BY <1>1, <4>2
      <4> QED BY <4>1, <4>2, <4>3
    <3> QED BY <1>2, <2>1, <2>2, <3>1
  <2>3. CASE c[i].reply = 0 /\ c[i].kind = "torn"
    BY <2>3
  <2> QED BY <1>1, <2>2, <2>3
<1> QED BY <1>1, <1>3 DEF DataEnds

LEMMA CreateKeepsInv == RepliesInv /\ CreateCommandList => RepliesInv'
<1> SUFFICES ASSUME RepliesInv, CreateCommandList PROVE RepliesInv'
  OBVIOUS
<1> DEFINE dot == SelectInSeq(wire, LAMBDA l : l.kind = "dot")
           last == IF dot = 0 THEN Len(wire) ELSE dot
           read == SubSeq(wire, 1, IF dot = 0 THEN last ELSE dot - 1)
           torn == [Head(unsent) EXCEPT !.kind = "torn"]
           rest == wire \o unsent
<1>1. /\ ~listed /\ listed' = TRUE /\ replies' = replies /\ debugs' = debugs
      /\ vindata' = vindata /\ shown' = shown
  BY DEF CreateCommandList
<1>2. PICK upto \in last .. Len(wire), tear \in BOOLEAN :
        /\ tear => dot = 0 /\ unsent # << >>
        /\ commandlist' = Words(read)
        /\ wire' = SubSeq(wire, upto + 1, Len(wire)) \o (IF tear THEN <<torn>> ELSE << >>)
        /\ unsent' = IF tear THEN Tail(unsent) ELSE unsent
  BY DEF CreateCommandList
<1>3. /\ dot \in 0 .. Len(wire) /\ Len(wire) \in Nat /\ Len(unsent) \in Nat
      /\ \A i \in 1 .. Len(wire) : wire[i] \in Lines
  BY RepliesFacts, FirstDot, Places
<1> HIDE DEF dot
<1>4. read \in Seq(Lines)
  <2> DEFINE before == IF dot = 0 THEN last ELSE dot - 1
  <2>1. before \in 0 .. Len(wire)
    BY <1>3
  <2>2. \A i \in 1 .. before : wire[i] \in Lines
    BY <1>3, <2>1
  <2> HIDE DEF before
  <2>3. SubSeq(wire, 1, before) \in Seq(Lines)
    BY <2>1, <2>2, SubSeqProperties
  <2> QED BY <2>3 DEF before
<1>5. commandlist' \in Seq(Lines)
  BY <1>2, <1>4, WordsIn
<1>6. upto \in 0 .. Len(wire) /\ (tear => upto = Len(wire))
  BY <1>2, <1>3
<1> DEFINE cut == SubSeq(wire, upto + 1, Len(wire))
<1>7. /\ cut \in Seq(Lines) /\ Len(cut) = Len(wire) - upto
      /\ \A i \in 1 .. Len(wire) - upto : cut[i] = wire[upto + i]
  <2>1. \A i \in upto + 1 .. Len(wire) : wire[i] \in Lines
    BY <1>3, <1>6
  <2>2. /\ cut \in Seq(Lines)
        /\ Len(cut) = IF upto + 1 <= Len(wire) THEN Len(wire) - (upto + 1) + 1 ELSE 0
        /\ \A i \in 1 .. Len(wire) - (upto + 1) + 1 : cut[i] = wire[(upto + 1) + i - 1]
    BY <1>3, <1>6, <2>1, SubSeqProperties
  <2> HIDE DEF cut
  <2> QED BY <1>3, <1>6, <2>2, SMTT(30)
<1>8. /\ rest \in Seq(Lines) /\ Len(rest) = Len(wire) + Len(unsent)
      /\ \A i \in 1 .. Len(wire) : rest[i] = wire[i]
      /\ \A i \in 1 .. Len(unsent) : rest[Len(wire) + i] = unsent[i]
  BY RepliesFacts, Joined
<1>d. vindata = FALSE /\ replies = 0 /\ shown = << >> /\ DataEnds(rest)
  BY <1>1 DEF RepliesInv
<1> HIDE DEF last, read, cut, rest
<1> DEFINE new == wire' \o unsent'
<1>9. /\ wire' \in Seq(Lines) /\ unsent' \in Seq(Lines) /\ new \in Seq(Lines)
      /\ Len(new) = Len(rest) - upto
      /\ \A i \in 1 .. Len(new) :
           new[i] = rest[upto + i] \/ (i = 1 /\ new[i].reply = 0 /\ new[i].kind = "torn")
  <2>1. CASE ~tear
    <3>1. wire' = cut /\ unsent' = unsent
      BY <1>2, <1>7, <2>1, ConcatEmptySeq DEF cut
    <3>2. /\ new \in Seq(Lines) /\ Len(new) = Len(cut) + Len(unsent)
          /\ \A i \in 1 .. Len(cut) : new[i] = cut[i]
          /\ \A i \in 1 .. Len(unsent) : new[Len(cut) + i] = unsent[i]
      BY <1>7, <3>1, RepliesFacts, Joined, ZenonT(60)
    <3> HIDE DEF new
    <3>3. Len(new) = Len(rest) - upto
      BY <1>3, <1>6, <1>7, <1>8, <3>2
    <3>4. ASSUME NEW i \in 1 .. Len(new) PROVE new[i] = rest[upto + i]
      <4>1. CASE i <= Len(cut)
        <5>1. i \in 1 .. Len(cut) /\ i \in 1 .. Len(wire) - upto /\ upto + i \in 1 .. Len(wire)
          BY <1>3, <1>6, <1>7, <4>1
        <5> QED BY <1>7, <1>8, <3>2, <5>1
      <4>2. CASE i > Len(cut)
        <5> DEFINE k == i - Len(cut)
        <5>0. /\ i \in Nat /\ i <= Len(cut) + Len(unsent) /\ Len(cut) \in Nat
              /\ Len(unsent) \in Nat /\ Len(cut) = Len(wire) - upto
              /\ Len(wire) \in Nat /\ upto \in Nat
          <6>1. upto \in Nat /\ Len(cut) \in Nat
            BY <1>3, <1>6, <1>7
          <6>2. i \in Nat /\ i <= Len(cut) + Len(unsent)
            BY <1>3, <3>2, <6>1
          <6> QED BY <1>3, <1>7, <6>1, <6>2
        <5>1. k \in 1 .. Len(unsent) /\ Len(cut) + k = i /\ Len(wire) + k = upto + i
          BY <5>0, <4>2
        <5> HIDE DEF k
        <5>2. new[Len(cut) + k] = unsent[k] /\ rest[Len(wire) + k] = unsent[k]
          BY <1>8, <3>2, <5>1
        <5> QED BY <5>1, <5>2
      <4> QED BY <1>3, <1>6, <1>7, <4>1, <4>2
    <3> QED BY <1>7, <3>1, <3>2, <3>3, <3>4, RepliesFacts
  <2>2. CASE tear
    <3>1. unsent # << >> /\ upto = Len(wire)
      BY <1>2, <1>6, <2>2
    <3>2. cut = << >>
      BY <1>3, <1>7, <3>1, EmptySeq
    <3>3. /\ Head(unsent) \in Lines /\ Tail(unsent) \in Seq(Lines) /\ Head(unsent) = unsent[1]
          /\ Len(unsent) \in Nat \ {0} /\ Len(Tail(unsent)) = Len(unsent) - 1
          /\ \A i \in 1 .. Len(unsent) - 1 : Tail(unsent)[i] = unsent[i + 1]
      BY <3>1, HeadBefore, RepliesFacts
    <3> DEFINE t == Tail(unsent)
               h == Head(unsent)
    <3>t. /\ t \in Seq(Lines) /\ Len(t) = Len(unsent) - 1 /\ Len(unsent) \in Nat \ {0}
          /\ \A i \in 1 .. Len(unsent) - 1 : t[i] = unsent[i + 1]
      BY <3>3
    <3>h. h \in Lines /\ h = unsent[1]
      BY <3>3
    <3>4. h.reply = 0
      <4>1. Len(wire) + 1 \in 1 .. Len(rest) /\ 1 \in 1 .. Len(unsent)
        BY <1>3, <1>8, <3>t
      <4>2. rest[Len(wire) + 1] = h
        BY <1>8, <3>h, <4>1
      <4>3. rest[Len(wire) + 1].reply = 0
        BY <1>d, <4>1 DEF DataEnds
      <4> QED BY <4>2, <4>3
    <3>5. torn = [h EXCEPT !.kind = "torn"]
      OBVIOUS
    <3>6. torn \in Lines /\ torn.kind = "torn" /\ torn.reply = 0
      <4> HIDE DEF h, torn
      <4> QED BY <3>h, <3>4, <3>5 DEF Lines, LineKinds
    <3> HIDE DEF torn, h
    <3>7. <<torn>> \in Seq(Lines) /\ Len(<<torn>>) = 1 /\ <<torn>>[1] = torn
      BY <3>6, OneLine
    <3> DEFINE u == <<torn>>
    <3>8. wire' = u /\ unsent' = t
      <4>1. wire' = cut \o u /\ unsent' = t
        BY <1>2, <2>2 DEF cut
      <4>2. << >> \o u = u
        BY <3>7, ConcatEmptySeq
      <4> QED BY <3>2, <4>1, <4>2
    <3>u. u \in Seq(Lines) /\ Len(u) = 1 /\ u[1] = torn
      BY <3>7
    <3> HIDE DEF u, t
    <3>9. /\ new \in Seq(Lines) /\ Len(new) = Len(u) + Len(t)
          /\ \A i \in 1 .. Len(u) : new[i] = u[i]
          /\ \A i \in 1 .. Len(t) : new[Len(u) + i] = t[i]
      BY <3>u, <3>t, <3>8, Joined
    <3> HIDE DEF new
    <3>10. Len(new) = Len(rest) - upto /\ Len(new) = Len(unsent)
      BY <1>3, <1>8, <3>1, <3>t, <3>u, <3>9
    <3>11. ASSUME NEW i \in 1 .. Len(new)
           PROVE  new[i] = rest[upto + i] \/ (i = 1 /\ new[i].reply = 0 /\ new[i].kind = "torn")
      <4>1. CASE i = 1
        <5>1. new[1] = torn
          BY <3>u, <3>9
        <5> QED BY <3>6, <4>1, <5>1
      <4>2. CASE i # 1
        <5> DEFINE k == i - 1
        <5>1. k \in 1 .. Len(t) /\ k \in 1 .. Len(unsent) - 1 /\ Len(u) + k = i /\ k + 1 = i
              /\ i \in 1 .. Len(unsent) /\ k \in Nat
          BY <3>t, <3>u, <3>10, <4>2
        <5> HIDE DEF k
        <5>2. new[Len(u) + k] = t[k] /\ t[k] = unsent[k + 1]
          BY <3>t, <3>9, <5>1
        <5>3. rest[Len(wire) + i] = unsent[i]
          BY <1>8, <5>1
        <5> QED BY <3>1, <5>1, <5>2, <5>3
      <4> QED BY <4>1, <4>2
    <3> QED BY <3>u, <3>t, <3>8, <3>9, <3>10, <3>11
  <2> QED BY <1>2, <2>1, <2>2
<1> HIDE DEF new
<1>10. DataEnds(new)
  <2>1. upto \in 0 .. Len(rest)
    BY <1>3, <1>6, <1>8
  <2> QED BY <1>8, <1>9, <1>d, <2>1, DataEndsCut
<1>11. \E data \in [0 .. Len(new) -> BOOLEAN] : InData(data, new, FALSE)
  BY <1>9, <1>10, DataEndsWell
<1>12. ToShow(new) = << >> /\ ToShow(rest) = << >>
  BY <1>8, <1>9, <1>10, <1>d, NothingOfReplies
<1>13. Chained(<<Outcome(0)>> \o shown' \o ToShow(new), replies')
  <2>1. Chained(<<Outcome(0)>> \o shown \o ToShow(rest), replies)
    BY DEF RepliesInv, rest
  <2> QED BY <1>1, <1>12, <2>1
<1>14. RepliesTypeOK'
  BY <1>1, <1>5, <1>9, RepliesFacts DEF RepliesTypeOK
<1>15. vindata' = FALSE
  BY <1>1, <1>d
<1>16. listed'
  BY <1>1
<1> QED BY <1>11, <1>13, <1>14, <1>15, <1>16 DEF RepliesInv, new

LEMMA RepliesStepKeepsInv == RepliesInv /\ [RepliesNext]_repliesVars => RepliesInv'
<1> SUFFICES ASSUME RepliesInv, [RepliesNext]_repliesVars PROVE RepliesInv'
  OBVIOUS
<1>1. CASE LineArrives
  BY <1>1, LineArrivesKeepsInv
<1>2. CASE DebugArrives
  BY <1>2, DebugArrivesKeepsInv
<1>3. CASE CreateCommandList
  BY <1>3, CreateKeepsInv
<1>4. CASE MgmtToTerm
  BY <1>4, MgmtToTermKeepsInv
<1>5. ASSUME NEW n \in 0 .. MaxData, NextReply(n) PROVE RepliesInv'
  BY <1>5, NextReplyKeepsInv
<1>6. CASE UNCHANGED repliesVars
  BY <1>6 DEF repliesVars, RepliesInv, RepliesTypeOK
<1> QED BY <1>1, <1>2, <1>3, <1>4, <1>5, <1>6 DEF RepliesNext

\* In data at the beginning, and not at the end: there is a "." to come.
LEMMA InvShowsReplies == RepliesInv => RepliesShown
<1> SUFFICES ASSUME RepliesInv PROVE RepliesShown
  OBVIOUS
<1> DEFINE rest == wire \o unsent
<1>1. rest \in Seq(Lines) /\ Len(rest) \in Nat /\ DOMAIN rest = 1 .. Len(rest)
  BY RepliesFacts, LenProperties
<1>2. ASSUME vindata PROVE \E i \in DOMAIN rest : rest[i].kind = "dot"
  <2>1. SUFFICES ASSUME \A i \in 1 .. Len(rest) : rest[i].kind # "dot" PROVE FALSE
    BY <1>1
  <2>2. PICK d : InData(d, rest, vindata)
    BY <1>2 DEF RepliesInv
  <2> HIDE DEF rest
  <2>3. /\ d[0] = TRUE /\ d[Len(rest)] = FALSE
        /\ \A i \in 1 .. Len(rest) :
             d[i] = IF d[i - 1] THEN rest[i].kind # "dot" ELSE rest[i].kind = "0000"
    BY <1>2, <2>2, RepliesFacts DEF InData
  <2> DEFINE G == {i \in 0 .. Len(rest) : d[i] = TRUE}
  <2>4. 0 \in G
    BY <1>1, <2>3
  <2>5. ASSUME NEW i \in 1 .. Len(rest), i - 1 \in G PROVE i \in G
    <3>1. d[i - 1] = TRUE /\ i \in 0 .. Len(rest)
      BY <1>1, <2>5
    <3>2. rest[i].kind # "dot" /\ d[i] = IF d[i - 1] THEN rest[i].kind # "dot" ELSE rest[i].kind = "0000"
      BY <2>1, <2>3
    <3>3. d[i] = TRUE
      BY <3>1, <3>2
    <3> QED BY <3>1, <3>3
  <2> HIDE DEF G
  <2>6. \A i \in 0 .. Len(rest) : i \in G
    BY <1>1, <2>4, <2>5, UpTo
  <2>7. d[Len(rest)] = TRUE
    BY <1>1, <2>6 DEF G
  <2> QED BY <2>3, <2>7
<1>3. Chained(<<Outcome(0)>> \o shown \o ToShow(rest), replies)
  BY DEF RepliesInv
<1> QED BY <1>2, <1>3 DEF RepliesShown, Chained

(***************************************************************************)
(* For any number of replies with any number of lines and debug messages   *)
(* in between, and wherever the list of commands stops reading in the      *)
(* reply to help, the replies that follow are shown whole, in order and    *)
(* once.                                                                   *)
(***************************************************************************)
THEOREM RepliesAreShown == RepliesSpec => []RepliesShown
<1>1. RepliesInit => RepliesInv
  BY RepliesStart
<1>2. RepliesInv /\ [RepliesNext]_repliesVars => RepliesInv'
  BY RepliesStepKeepsInv
<1>3. RepliesInv => RepliesShown
  BY InvShowsReplies
<1> QED BY <1>1, <1>2, <1>3, PTL DEF RepliesSpec

-----------------------------------------------------------------------------
(***************************************************************************)
(*                   Parameters in a network's name                        *)
(*                                                                         *)
(* A text passes when the automaton, from any status outside of quotes,    *)
(* reads it to such a status again, meets no delimiter on the way and      *)
(* copies what was meant.  Texts that pass pass one behind the other, so   *)
(* an element passes because its tag, its quotes and its value do; the     *)
(* scan then finds the delimiter behind it, and only there.                *)
(***************************************************************************)
Texts == Seq(TextChars)
Unquoted == {"CHAR", "PERC", "PER2"}
Within == Unquoted \cup {"QUOTE", "DOUBLEQ", "ESC"}

\* The status behind each character of a text that has no delimiter outside of
\* quotes, and what is copied, from the status f[0] on.
Reads(f, g, s, d) ==
  /\ f \in [0 .. Len(s) -> Within] /\ g \in [0 .. Len(s) -> Texts] /\ g[0] = << >>
  /\ \A i \in 1 .. Len(s) :
       /\ f[i] = nextstate(f[i - 1], winvde_token(s[i], d))
       /\ g[i] = IF copied(f[i - 1], winvde_token(s[i], d)) THEN Append(g[i - 1], s[i])
                 ELSE g[i - 1]

ReadsFrom(c, s, u, d, T) ==
  \E f, g : Reads(f, g, s, d) /\ f[0] = c /\ f[Len(s)] \in T /\ g[Len(s)] = u

\* From any status of S on the text s is read as u, with a status of T behind.
Passes(s, u, d, S, T) == s \in Texts /\ u \in Texts /\ \A c \in S : ReadsFrom(c, s, u, d, T)

LEMMA TextsJoined ==
  ASSUME NEW a \in Texts, NEW b \in Texts
  PROVE  /\ a \o b \in Texts /\ Len(a) \in Nat /\ Len(b) \in Nat
         /\ Len(a \o b) = Len(a) + Len(b)
         /\ \A i \in 1 .. Len(a) : (a \o b)[i] = a[i]
         /\ \A i \in 1 .. Len(b) : (a \o b)[Len(a) + i] = b[i]
<1> USE DEF Texts
<1> DEFINE c == a \o b
           p == Len(a)
           n == Len(b)
<1>1. p \in Nat /\ n \in Nat
  BY LenProperties
<1>2. /\ c \in Texts /\ Len(c) = p + n
      /\ \A i \in 1 .. p + n : c[i] = IF i <= p THEN a[i] ELSE b[i - p]
  BY ConcatProperties
<1> HIDE DEF c, p, n
<1>3. \A i \in 1 .. p : c[i] = a[i]
  BY <1>1, <1>2
<1>4. \A i \in 1 .. n : c[p + i] = b[i]
  <2> TAKE i \in 1 .. n
  <2>1. p + i \in 1 .. p + n /\ ~(p + i <= p) /\ (p + i) - p = i
    BY <1>1
  <2> QED BY <1>2, <2>1
<1> QED BY <1>1, <1>2, <1>3, <1>4 DEF c, p, n

LEMMA TextAppended ==
  ASSUME NEW a \in Texts, NEW b \in Texts, NEW c \in TextChars
  PROVE  Append(b, c) \in Texts /\ a \o Append(b, c) = Append(a \o b, c)
BY AppendProperties DEF Texts

LEMMA TextsGrouped ==
  ASSUME NEW a \in Texts, NEW b \in Texts, NEW c \in Texts
  PROVE  (a \o b) \o c = a \o (b \o c)
BY ConcatAssociative DEF Texts

LEMMA NoText ==
  /\ << >> \in Texts /\ Len(<< >>) = 0
  /\ \A a \in Texts : a \o << >> = a /\ << >> \o a = a
BY EmptySeq, ConcatEmptySeq DEF Texts

LEMMA OneText ==
  ASSUME NEW c \in TextChars
  PROVE  <<c>> \in Texts /\ Len(<<c>>) = 1 /\ <<c>>[1] = c
BY DEF Texts

\* One text behind the other.
LEMMA PassesJoined ==
  ASSUME NEW a, NEW u, NEW b, NEW v, NEW d, NEW S, NEW T, NEW W,
         Passes(a, u, d, S, T), Passes(b, v, d, T, W)
  PROVE  Passes(a \o b, u \o v, d, S, W)
<1> DEFINE s == a \o b
           p == Len(a)
           n == Len(b)
<1>1. a \in Texts /\ b \in Texts /\ u \in Texts /\ v \in Texts
  BY DEF Passes
<1>2. /\ p \in Nat /\ n \in Nat /\ s \in Texts /\ Len(s) = p + n
      /\ \A i \in 1 .. p : s[i] = a[i]
      /\ \A i \in 1 .. n : s[p + i] = b[i]
  BY <1>1, TextsJoined
<1> HIDE DEF s
<1>3. u \o v \in Texts
  BY <1>1, TextsJoined
<1>4. ASSUME NEW c \in S PROVE ReadsFrom(c, s, u \o v, d, W)
  <2>1. PICK fa, ga : Reads(fa, ga, a, d) /\ fa[0] = c /\ fa[p] \in T /\ ga[p] = u
    BY <1>4 DEF Passes, ReadsFrom
  <2>2. PICK fb, gb : Reads(fb, gb, b, d) /\ fb[0] = fa[p] /\ fb[n] \in W /\ gb[n] = v
    BY <2>1 DEF Passes, ReadsFrom
  <2>3. /\ fa \in [0 .. p -> Within] /\ ga \in [0 .. p -> Texts] /\ ga[0] = << >>
        /\ \A i \in 1 .. p :
             /\ fa[i] = nextstate(fa[i - 1], winvde_token(a[i], d))
             /\ ga[i] = IF copied(fa[i - 1], winvde_token(a[i], d)) THEN Append(ga[i - 1], a[i])
                        ELSE ga[i - 1]
    BY <2>1 DEF Reads
  <2>4. /\ fb \in [0 .. n -> Within] /\ gb \in [0 .. n -> Texts] /\ gb[0] = << >>
        /\ \A i \in 1 .. n :
             /\ fb[i] = nextstate(fb[i - 1], winvde_token(b[i], d))
             /\ gb[i] = IF copied(fb[i - 1], winvde_token(b[i], d)) THEN Append(gb[i - 1], b[i])
                        ELSE gb[i - 1]
    BY <2>2 DEF Reads
  <2> DEFINE f == [i \in 0 .. p + n |-> IF i <= p THEN fa[i] ELSE fb[i - p]]
             g == [i \in 0 .. p + n |-> IF i <= p THEN ga[i] ELSE u \o gb[i - p]]
  <2> HIDE DEF p, n
  <2>5. ASSUME NEW i \in 0 .. p + n
        PROVE  /\ f[i] \in Within /\ g[i] \in Texts
               /\ i <= p => f[i] = fa[i] /\ g[i] = ga[i]
    <3>1. CASE i <= p
      BY <1>2, <2>3, <3>1
    <3>2. CASE ~(i <= p)
      <4>1. i - p \in 0 .. n
        BY <1>2, <3>2
      <4>2. fb[i - p] \in Within /\ gb[i - p] \in Texts
        BY <2>4, <4>1
      <4>3. u \o gb[i - p] \in Texts
        BY <1>1, <4>2, TextsJoined
      <4> QED BY <3>2, <4>2, <4>3
    <3> QED BY <3>1, <3>2
  <2>6. ASSUME NEW i \in 0 .. n PROVE f[p + i] = fb[i] /\ g[p + i] = u \o gb[i]
    <3>1. CASE i = 0
      <4>1. p + i = p /\ p \in 0 .. p + n
        BY <1>2, <3>1
      <4>2. u \o gb[0] = u
        BY <1>1, <2>4, NoText
      <4> QED BY <2>1, <2>2, <2>5, <3>1, <4>1, <4>2 DEF p, n
    <3>2. CASE i # 0
      <4>1. p + i \in 0 .. p + n /\ ~(p + i <= p) /\ (p + i) - p = i
        BY <1>2, <3>2
      <4> QED BY <4>1
    <3> QED BY <3>1, <3>2
  <2>7. f \in [0 .. p + n -> Within] /\ g \in [0 .. p + n -> Texts]
    <3>1. \A i \in 0 .. p + n : f[i] \in Within /\ g[i] \in Texts
      BY <2>5
    <3>2. f = [i \in 0 .. p + n |-> f[i]] /\ g = [i \in 0 .. p + n |-> g[i]]
      OBVIOUS
    <3> HIDE DEF f, g
    <3> QED BY <3>1, <3>2
  <2> HIDE DEF f, g
  <2>8. ASSUME NEW i \in 1 .. p + n
        PROVE  /\ f[i] = nextstate(f[i - 1], winvde_token(s[i], d))
               /\ g[i] = IF copied(f[i - 1], winvde_token(s[i], d)) THEN Append(g[i - 1], s[i])
                         ELSE g[i - 1]
    <3>1. CASE i <= p
      <4>1. i \in 1 .. p /\ i \in 0 .. p + n /\ i - 1 \in 0 .. p + n /\ i - 1 <= p
        BY <1>2, <3>1
      <4> QED BY <1>2, <2>3, <2>5, <3>1, <4>1
    <3>2. CASE ~(i <= p)
      <4> DEFINE k == i - p
      <4>1. k \in 1 .. n /\ k \in 0 .. n /\ k - 1 \in 0 .. n /\ p + k = i /\ p + (k - 1) = i - 1
        BY <1>2, <3>2
      <4> HIDE DEF k
      <4>2. f[i] = fb[k] /\ f[i - 1] = fb[k - 1] /\ g[i] = u \o gb[k] /\ g[i - 1] = u \o gb[k - 1]
        BY <2>6, <4>1
      <4>3. s[i] = b[k] /\ b[k] \in TextChars
        <5>1. n = Len(b)
          BY DEF n
        <5> QED BY <1>1, <1>2, <4>1, <5>1, ElementOfSeq DEF Texts
      <4>4. gb[k - 1] \in Texts
        BY <2>4, <4>1
      <4>5. u \o Append(gb[k - 1], b[k]) = Append(u \o gb[k - 1], b[k])
        BY <1>1, <4>3, <4>4, TextAppended, ZenonT(60)
      <4> QED BY <2>4, <4>1, <4>2, <4>3, <4>5
    <3> QED BY <3>1, <3>2
  <2>9. f[0] = c /\ g[0] = << >> /\ f[p + n] \in W /\ g[p + n] = u \o v
    <3>1. 0 \in 0 .. p + n /\ 0 <= p /\ n \in 0 .. n
      BY <1>2
    <3>2. fa[0] = c /\ fb[n] \in W /\ gb[n] = v
      BY <2>1, <2>2 DEF n
    <3> QED BY <2>3, <2>5, <2>6, <3>1, <3>2
  <2>10. Len(s) = p + n
    BY <1>2
  <2>11. Reads(f, g, s, d)
    BY <2>7, <2>8, <2>9, <2>10 DEF Reads
  <2> QED BY <2>9, <2>10, <2>11 DEF ReadsFrom
<1> QED BY <1>2, <1>3, <1>4 DEF Passes, s

LEMMA PassesNothing ==
  ASSUME NEW e, e = << >>, NEW d, NEW S, S \subseteq Within
  PROVE  Passes(e, e, d, S, S)
<1>1. e \in Texts /\ Len(e) = 0
  BY NoText
<1>2. ASSUME NEW c \in S PROVE ReadsFrom(c, e, e, d, S)
  <2> DEFINE f == [i \in 0 .. 0 |-> c]
             g == [i \in 0 .. 0 |-> e]
  <2>1. f \in [0 .. 0 -> Within] /\ g \in [0 .. 0 -> Texts] /\ f[0] = c /\ g[0] = e
    BY <1>1, <1>2
  <2> HIDE DEF f, g
  <2>2. Reads(f, g, e, d)
    BY <1>1, <2>1 DEF Reads
  <2> QED BY <1>1, <1>2, <2>1, <2>2 DEF ReadsFrom
<1> QED BY <1>1, <1>2 DEF Passes

LEMMA PassesOne ==
  ASSUME NEW c \in TextChars, NEW v, NEW d, NEW S, NEW T, S \subseteq Within, T \subseteq Within,
         v \in {<< >>, <<c>>},
         \A x \in S : /\ nextstate(x, winvde_token(c, d)) \in T
                     /\ v = IF copied(x, winvde_token(c, d)) THEN <<c>> ELSE << >>
  PROVE  Passes(<<c>>, v, d, S, T)
<1> DEFINE s == <<c>>
           e == << >>
           this == winvde_token(c, d)
<1>1. e \in Texts /\ s \in Texts /\ Len(s) = 1 /\ s[1] = c /\ Append(e, c) = s
  BY NoText, OneText
<1>2. v \in {e, s}
  OBVIOUS
<1> HIDE DEF s, e
<1>3. ASSUME NEW x \in S PROVE ReadsFrom(x, s, v, d, T)
  <2> DEFINE f == [i \in 0 .. 1 |-> IF i = 0 THEN x ELSE nextstate(x, this)]
             g == [i \in 0 .. 1 |-> IF i = 0 THEN e ELSE v]
  <2>1. x \in Within /\ nextstate(x, this) \in T /\ v = IF copied(x, this) THEN s ELSE e
    BY <1>3 DEF s, e
  <2> HIDE DEF this
  <2>2. /\ f \in [0 .. 1 -> Within] /\ g \in [0 .. 1 -> Texts]
        /\ f[0] = x /\ f[1] = nextstate(x, this) /\ g[0] = e /\ g[1] = v
    BY <1>1, <1>2, <2>1
  <2> HIDE DEF f, g
  <2>3. \A i \in 1 .. 1 :
          /\ f[i] = nextstate(f[i - 1], winvde_token(s[i], d))
          /\ g[i] = IF copied(f[i - 1], winvde_token(s[i], d)) THEN Append(g[i - 1], s[i]) ELSE g[i - 1]
    <3>1. \A i \in 1 .. 1 : i = 1 /\ i - 1 = 0
      OBVIOUS
    <3>2. winvde_token(s[1], d) = this
      BY <1>1 DEF this
    <3> QED BY <1>1, <2>1, <2>2, <3>1, <3>2
  <2>4. Reads(f, g, s, d)
    BY <1>1, <2>2, <2>3 DEF Reads, e
  <2> QED BY <1>1, <2>1, <2>2, <2>4 DEF ReadsFrom
<1>4. v \in Texts
  BY <1>1, <1>2
<1> QED BY <1>1, <1>3, <1>4 DEF Passes, s

\* The texts of a list, one behind the other, by the number of the first ones.
IsFlat(f, texts) ==
  /\ f \in [0 .. Len(texts) -> Texts] /\ f[0] = << >>
  /\ \A i \in 1 .. Len(texts) : f[i] = f[i - 1] \o texts[i]

LEMMA FlatByText ==
  ASSUME NEW texts \in Seq(Texts)
  PROVE  \E f : IsFlat(f, texts) /\ Flat(texts) = f[Len(texts)]
<1> DEFINE n == Len(texts)
           step == [p \in (1 .. n) \X Texts |-> p[2] \o texts[p[1]]]
           IsFlattened(h) == h = [i \in 1 .. n |-> IF i = 1 THEN texts[i] ELSE h[i - 1] \o texts[i]]
           H == CHOOSE h : IsFlattened(h)
<1>1. n \in Nat /\ \A i \in 1 .. n : texts[i] \in Texts
  BY Places
<1>2. Flat(texts) = IF n = 0 THEN texts ELSE H[n]
  BY DEF Flat, FlattenSeq
<1>3. n = 0 => texts = << >>
  BY EmptySeq
<1> HIDE DEF n
<1>4. << >> \in Texts
  BY NoText
<1>5. \A i \in 1 .. n : \A t \in Texts : t \o texts[i] \in Texts /\ step[<<i, t>>] = t \o texts[i]
  BY <1>1, TextsJoined
<1>6. step \in [(1 .. n) \X Texts -> Texts]
  BY <1>5
<1> HIDE DEF step
<1>7. PICK f \in [0 .. n -> Texts] :
        f = [i \in 0 .. n |-> IF i = 0 THEN << >> ELSE step[<<i, f[i - 1]>>]]
  <2>1. HasRounds(n, Texts, << >>, step)
    BY <1>1, <1>4, <1>6, RoundsExist
  <2> QED BY <2>1 DEF HasRounds
<1>8. f[0] = << >> /\ \A i \in 1 .. n : f[i] = f[i - 1] \o texts[i]
  <2>1. f[0] = << >>
    BY <1>1, <1>7
  <2>2. ASSUME NEW i \in 1 .. n PROVE f[i] = f[i - 1] \o texts[i]
    <3>1. i \in 0 .. n /\ i # 0 /\ i - 1 \in 0 .. n
      BY <1>1
    <3>2. f[i] = step[<<i, f[i - 1]>>] /\ f[i - 1] \in Texts
      BY <1>7, <3>1
    <3> QED BY <1>5, <3>2
  <2> QED BY <2>1, <2>2
<1>9. IsFlat(f, texts)
  BY <1>8 DEF IsFlat, n
<1>10. ASSUME n # 0 PROVE H[n] = f[n]
  <2> DEFINE g == [i \in 1 .. n |-> f[i]]
             Same == {i \in 0 .. n : i = 0 \/ H[i] = f[i]}
  <2>1. \A i \in 1 .. n : f[i] = IF i = 1 THEN texts[i] ELSE g[i - 1] \o texts[i]
    <3> TAKE i \in 1 .. n
    <3>1. CASE i = 1
      <4>1. i - 1 = 0 /\ texts[i] \in Texts
        BY <1>1, <3>1
      <4>2. << >> \o texts[i] = texts[i]
        BY <4>1, NoText
      <4> QED BY <1>8, <3>1, <4>1, <4>2
    <3>2. CASE i # 1
      <4>1. i - 1 \in 1 .. n
        BY <1>1, <3>2
      <4>2. g[i - 1] = f[i - 1]
        BY <4>1
      <4> QED BY <1>8, <3>2, <4>2
    <3> QED BY <3>1, <3>2
  <2>2. g = [i \in 1 .. n |-> IF i = 1 THEN texts[i] ELSE g[i - 1] \o texts[i]]
    <3>1. \A i \in 1 .. n : g[i] = f[i]
      OBVIOUS
    <3>2. g = [i \in 1 .. n |-> g[i]]
      OBVIOUS
    <3> HIDE DEF g
    <3> QED BY <2>1, <3>1, <3>2, ZenonT(60)
  <2>3. IsFlattened(H)
    <3>1. IsFlattened(g)
      BY <2>2
    <3> HIDE DEF IsFlattened
    <3> QED BY <3>1
  <2>4. \A i \in 1 .. n : H[i] = IF i = 1 THEN texts[i] ELSE H[i - 1] \o texts[i]
    BY <2>3
  <2> HIDE DEF H, IsFlattened
  <2>5. 0 \in Same
    BY <1>1
  <2>6. \A i \in 1 .. n : i - 1 \in Same => i \in Same
    <3> SUFFICES ASSUME NEW i \in 1 .. n, i - 1 \in Same PROVE H[i] = f[i]
      BY <1>1
    <3>1. CASE i = 1
      BY <2>1, <2>4, <3>1
    <3>2. CASE i # 1
      <4>1. i - 1 # 0
        BY <1>1, <3>2
      <4> QED BY <1>8, <2>4, <3>2, <4>1, ZenonT(60)
    <3> QED BY <3>1, <3>2
  <2> HIDE DEF Same
  <2>7. \A i \in 0 .. n : i \in Same
    BY <1>1, <2>5, <2>6, UpTo
  <2> QED BY <1>1, <1>10, <2>7 DEF Same
<1>11. Flat(texts) = f[n]
  BY <1>2, <1>3, <1>8, <1>10
<1> QED BY <1>9, <1>11 DEF n

LEMMA FirstOnes ==
  ASSUME NEW v \in Texts
  PROVE  /\ SubSeq(v, 1, 0) = << >> /\ SubSeq(v, 1, Len(v)) = v /\ Len(v) \in Nat
         /\ \A i \in 1 .. Len(v) :
              v[i] \in TextChars /\ SubSeq(v, 1, i) = SubSeq(v, 1, i - 1) \o <<v[i]>>
<1> DEFINE n == Len(v)
<1>1. v \in Seq(TextChars) /\ n \in Nat /\ \A i \in 1 .. n : v[i] \in TextChars
  BY LenProperties, ElementOfSeq DEF Texts
<1>2. SubSeq(v, 1, 0) = << >>
  BY SubSeqEmpty
<1>3. SubSeq(v, 1, n) = v
  <2> DEFINE t == SubSeq(v, 1, n)
  <2>1. /\ t \in Seq(TextChars) /\ Len(t) = IF 1 <= n THEN n - 1 + 1 ELSE 0
        /\ \A i \in 1 .. n - 1 + 1 : t[i] = v[1 + i - 1]
    <3> HIDE DEF n
    <3>1. 1 \in Int /\ n \in Int
      BY <1>1
    <3> QED BY <1>1, <3>1, SubSeqProperties
  <2> HIDE DEF t
  <2>2. Len(t) = n /\ \A i \in 1 .. n : t[i] = v[i]
    <3> HIDE DEF n
    <3> QED BY <1>1, <2>1
  <2>3. t = v
    BY <1>1, <2>1, <2>2, SeqEqual
  <2> QED BY <2>3 DEF t
<1>4. ASSUME NEW i \in 1 .. n PROVE SubSeq(v, 1, i) = SubSeq(v, 1, i - 1) \o <<v[i]>>
  <2> DEFINE t == SubSeq(v, 1, i)
             r == SubSeq(v, 1, i - 1)
             c == v[i]
  <2> HIDE DEF n
  <2>1. /\ t \in Seq(TextChars) /\ Len(t) = IF 1 <= i THEN i - 1 + 1 ELSE 0
        /\ \A k \in 1 .. i - 1 + 1 : t[k] = v[1 + k - 1]
    <3>1. 1 \in Int /\ i \in Int /\ \A k \in 1 .. i : v[k] \in TextChars
      BY <1>1
    <3> QED BY <3>1, SubSeqProperties
  <2>2. /\ r \in Seq(TextChars) /\ Len(r) = IF 1 <= i - 1 THEN (i - 1) - 1 + 1 ELSE 0
        /\ \A k \in 1 .. (i - 1) - 1 + 1 : r[k] = v[1 + k - 1]
    <3>1. 1 \in Int /\ i - 1 \in Int /\ \A k \in 1 .. i - 1 : v[k] \in TextChars
      BY <1>1
    <3> HIDE DEF r
    <3> QED BY <3>1, SubSeqProperties DEF r
  <2>3. c \in TextChars /\ i \in Nat /\ i >= 1
    BY <1>1
  <2> HIDE DEF t, r, c
  <2>4. Len(t) = i /\ Len(r) = i - 1 /\ (\A k \in 1 .. i : t[k] = v[k]) /\ \A k \in 1 .. i - 1 : r[k] = v[k]
    BY <2>1, <2>2, <2>3
  <2>5. Append(r, c) \in Seq(TextChars) /\ Len(Append(r, c)) = Len(r) + 1
        /\ (\A k \in 1 .. Len(r) : Append(r, c)[k] = r[k]) /\ Append(r, c)[Len(r) + 1] = c
    BY <2>2, <2>3, AppendProperties
  <2> DEFINE q == Append(r, c)
  <2>6. q = r \o <<c>>
    BY <2>2, <2>3, AppendIsConcat
  <2> HIDE DEF q
  <2>7. Len(q) = i /\ \A k \in 1 .. i : t[k] = q[k]
    <3>1. Len(q) = i /\ (\A k \in 1 .. i - 1 : q[k] = r[k]) /\ q[i] = c
      BY <2>3, <2>4, <2>5 DEF q
    <3>2. c = v[i]
      BY DEF c
    <3>3. \A k \in 1 .. i : k = i \/ k \in 1 .. i - 1
      BY <2>3
    <3> QED BY <2>3, <2>4, <3>1, <3>2, <3>3
  <2>8. t = q
    <3>1. q \in Seq(TextChars)
      BY <2>5 DEF q
    <3> QED BY <2>1, <2>4, <2>7, <3>1, SeqEqual
  <2> QED BY <2>6, <2>8 DEF t, r, c
<1> QED BY <1>1, <1>2, <1>3, <1>4

LEMMA PassesFlat ==
  ASSUME NEW w \in Seq(Texts), NEW v \in Texts, Len(v) = Len(w), NEW d,
         NEW S, S \subseteq Within, \A i \in 1 .. Len(w) : Passes(w[i], <<v[i]>>, d, S, S)
  PROVE  Passes(Flat(w), v, d, S, S)
<1> DEFINE n == Len(w)
<1>1. PICK f : IsFlat(f, w) /\ Flat(w) = f[n]
  BY FlatByText
<1>2. n \in Nat /\ f[0] = << >> /\ \A i \in 1 .. n : f[i] = f[i - 1] \o w[i]
  BY <1>1, Places DEF IsFlat
<1>3. /\ SubSeq(v, 1, 0) = << >> /\ SubSeq(v, 1, n) = v
      /\ \A i \in 1 .. n : SubSeq(v, 1, i) = SubSeq(v, 1, i - 1) \o <<v[i]>>
  BY FirstOnes
<1> DEFINE So == {i \in 0 .. n : Passes(f[i], SubSeq(v, 1, i), d, S, S)}
<1>4. 0 \in So
  <2>1. Passes(f[0], SubSeq(v, 1, 0), d, S, S)
    <3> DEFINE t == SubSeq(v, 1, 0)
    <3>1. t = << >>
      BY <1>3
    <3> HIDE DEF t
    <3>2. Passes(t, t, d, S, S) /\ f[0] = t
      BY <1>2, <3>1, PassesNothing
    <3> QED BY <3>2 DEF t
  <2>2. 0 \in 0 .. n
    BY <1>2
  <2> QED BY <2>1, <2>2
<1>5. \A i \in 1 .. n : i - 1 \in So => i \in So
  <2> SUFFICES ASSUME NEW i \in 1 .. n, Passes(f[i - 1], SubSeq(v, 1, i - 1), d, S, S)
               PROVE  Passes(f[i], SubSeq(v, 1, i), d, S, S)
    BY <1>2
  <2>1. Passes(w[i], <<v[i]>>, d, S, S)
    OBVIOUS
  <2>2. Passes(f[i - 1] \o w[i], SubSeq(v, 1, i - 1) \o <<v[i]>>, d, S, S)
    BY <2>1, PassesJoined
  <2> QED BY <1>2, <1>3, <2>2
<1> HIDE DEF So, n
<1>6. \A i \in 0 .. n : i \in So
  BY <1>2, <1>4, <1>5, UpTo
<1>7. n \in 0 .. n
  BY <1>2
<1> QED BY <1>1, <1>3, <1>6, <1>7 DEF So

\* As above, whatever is copied.
LEMMA PassesFlatly ==
  ASSUME NEW w \in Seq(Texts), NEW d, NEW S, S \subseteq Within,
         \A i \in 1 .. Len(w) : \E u : Passes(w[i], u, d, S, S)
  PROVE  \E u : Passes(Flat(w), u, d, S, S)
<1> DEFINE n == Len(w)
<1>1. PICK f : IsFlat(f, w) /\ Flat(w) = f[n]
  BY FlatByText
<1>2. n \in Nat /\ f[0] = << >> /\ \A i \in 1 .. n : f[i] = f[i - 1] \o w[i]
  BY <1>1, Places DEF IsFlat
<1> DEFINE So == {i \in 0 .. n : \E u : Passes(f[i], u, d, S, S)}
<1>4. 0 \in So
  BY <1>2, PassesNothing
<1>5. \A i \in 1 .. n : i - 1 \in So => i \in So
  <2> TAKE i \in 1 .. n
  <2> HAVE i - 1 \in So
  <2>0. PICK u : Passes(f[i - 1], u, d, S, S)
    OBVIOUS
  <2>1. PICK t : Passes(w[i], t, d, S, S)
    OBVIOUS
  <2>2. Passes(f[i - 1] \o w[i], u \o t, d, S, S)
    BY <2>0, <2>1, PassesJoined
  <2>3. \E t1 : Passes(f[i], t1, d, S, S)
    BY <1>2, <2>2
  <2>4. i \in 0 .. n
    BY <1>2
  <2> QED BY <2>3, <2>4
<1> HIDE DEF So, n
<1>6. \A i \in 0 .. n : i \in So
  BY <1>2, <1>4, <1>5, UpTo
<1>7. n \in 0 .. n
  BY <1>2
<1> QED BY <1>1, <1>6, <1>7 DEF So

\* A text whose characters are read as they stand is read as it stands.
LEMMA PassesAsItStands ==
  ASSUME NEW v \in Texts, NEW d, NEW S, S \subseteq Within,
         \A i \in 1 .. Len(v) : Passes(<<v[i]>>, <<v[i]>>, d, S, S)
  PROVE  Passes(v, v, d, S, S)
<1> DEFINE n == Len(v)
<1>1. /\ SubSeq(v, 1, 0) = << >> /\ SubSeq(v, 1, n) = v /\ n \in Nat
      /\ \A i \in 1 .. n : SubSeq(v, 1, i) = SubSeq(v, 1, i - 1) \o <<v[i]>>
  BY FirstOnes
<1> DEFINE So == {i \in 0 .. n : Passes(SubSeq(v, 1, i), SubSeq(v, 1, i), d, S, S)}
<1>2. 0 \in So
  <2>1. Passes(SubSeq(v, 1, 0), SubSeq(v, 1, 0), d, S, S)
    <3> DEFINE t == SubSeq(v, 1, 0)
    <3>1. t = << >>
      BY <1>1
    <3> HIDE DEF t
    <3>2. Passes(t, t, d, S, S)
      BY <3>1, PassesNothing
    <3> QED BY <3>2 DEF t
  <2>2. 0 \in 0 .. n
    BY <1>1
  <2> QED BY <2>1, <2>2
<1>3. \A i \in 1 .. n : i - 1 \in So => i \in So
  <2> SUFFICES ASSUME NEW i \in 1 .. n, Passes(SubSeq(v, 1, i - 1), SubSeq(v, 1, i - 1), d, S, S)
               PROVE  Passes(SubSeq(v, 1, i), SubSeq(v, 1, i), d, S, S)
    BY <1>1
  <2>1. Passes(<<v[i]>>, <<v[i]>>, d, S, S)
    OBVIOUS
  <2>2. Passes(SubSeq(v, 1, i - 1) \o <<v[i]>>, SubSeq(v, 1, i - 1) \o <<v[i]>>, d, S, S)
    BY <2>1, PassesJoined
  <2> QED BY <1>1, <2>2
<1> HIDE DEF So, n
<1>4. \A i \in 0 .. n : i \in So
  BY <1>1, <1>2, <1>3, UpTo
<1>5. n \in 0 .. n
  BY <1>1
<1> QED BY <1>1, <1>4, <1>5 DEF So

-----------------------------------------------------------------------------
\* The characters, from each status on.
LEMMA CharPasses ==
  ASSUME NEW d \in {"/", "]", "["}, NEW c \in TextChars \ {"'", "\"", "\\"}, c # d
  PROVE  Passes(<<c>>, <<c>>, d, Unquoted, Unquoted)
<1> DEFINE v == <<c>>
           e == << >>
           this == winvde_token(c, d)
<1>1. this = IF c = "%" THEN "PERC" ELSE "CHAR"
  BY DEF winvde_token
<1>2. \A x \in Unquoted : nextstate(x, this) \in Unquoted /\ copied(x, this)
  <2> HIDE DEF this
  <2> QED BY <1>1 DEF Unquoted, nextstate, copied
<1>3. v \in {e, v} /\ Unquoted \subseteq Within
  BY DEF Within
<1> HIDE DEF e
<1>4. \A x \in Unquoted : nextstate(x, this) \in Unquoted /\ v = IF copied(x, this) THEN v ELSE e
  BY <1>2
<1> QED BY <1>3, <1>4, PassesOne DEF e

LEMMA QuoteBegins ==
  ASSUME NEW d \in {"/", "]"}, NEW q \in {"'", "\"", "\\"},
         NEW st, st = (CASE q = "'" -> "QUOTE" [] q = "\"" -> "DOUBLEQ" [] q = "\\" -> "ESC")
  PROVE  Passes(<<q>>, << >>, d, Unquoted, {st})
<1>1. winvde_token(q, d) = st /\ st \in {"QUOTE", "DOUBLEQ", "ESC"}
  BY DEF winvde_token
<1>2. \A x \in Unquoted : nextstate(x, st) = st /\ ~copied(x, st)
  BY <1>1 DEF Unquoted, nextstate, copied
<1>3. Unquoted \subseteq Within /\ {st} \subseteq Within /\ q \in TextChars
  BY <1>1, ParametersAssumption DEF Within
<1> QED BY <1>1, <1>2, <1>3, PassesOne

LEMMA TokenOfQuote ==
  ASSUME NEW c, NEW d
  PROVE  (winvde_token(c, d) = "QUOTE" => c = "'") /\ (winvde_token(c, d) = "DOUBLEQ" => c = "\"")
<1>1. CASE c = "'"
  BY <1>1 DEF winvde_token
<1>2. CASE c = "\""
  BY <1>2 DEF winvde_token
<1>3. CASE c = "\\"
  BY <1>3 DEF winvde_token
<1>4. CASE c = "%"
  BY <1>4 DEF winvde_token
<1>5. CASE c \notin {"'", "\"", "\\", "%"}
  <2>1. winvde_token(c, d) = IF c = d THEN "DELIM" ELSE "CHAR"
    BY <1>5 DEF winvde_token
  <2> QED BY <2>1
<1> QED BY <1>1, <1>2, <1>3, <1>4, <1>5

LEMMA QuotedPasses ==
  ASSUME NEW d \in {"/", "]"}, NEW q \in {"'", "\""}, NEW c \in TextChars, c # q,
         NEW st, st = IF q = "'" THEN "QUOTE" ELSE "DOUBLEQ"
  PROVE  Passes(<<c>>, <<c>>, d, {st}, {st})
<1> DEFINE this == winvde_token(c, d)
<1>1. this # st
  BY TokenOfQuote
<1> HIDE DEF this
<1>2. nextstate(st, this) = st /\ copied(st, this)
  BY <1>1 DEF nextstate, copied
<1>3. {st} \subseteq Within
  BY DEF Within
<1> QED BY <1>2, <1>3, PassesOne DEF this

LEMMA QuoteEnds ==
  ASSUME NEW d \in {"/", "]"}, NEW q \in {"'", "\""},
         NEW st, st = IF q = "'" THEN "QUOTE" ELSE "DOUBLEQ"
  PROVE  Passes(<<q>>, << >>, d, {st}, Unquoted)
<1>1. winvde_token(q, d) = st
  BY DEF winvde_token
<1>2. nextstate(st, st) = "CHAR" /\ ~copied(st, st)
  BY DEF nextstate, copied
<1>3. {st} \subseteq Within /\ Unquoted \subseteq Within /\ "CHAR" \in Unquoted /\ q \in TextChars
  BY ParametersAssumption DEF Within, Unquoted
<1> QED BY <1>1, <1>2, <1>3, PassesOne

LEMMA EscapedPasses ==
  ASSUME NEW d \in {"/", "]"}, NEW c \in TextChars
  PROVE  Passes(<<c>>, <<c>>, d, {"ESC"}, Unquoted)
<1>1. \A this : nextstate("ESC", this) = "CHAR" /\ copied("ESC", this)
  BY DEF nextstate, copied
<1>2. {"ESC"} \subseteq Within /\ Unquoted \subseteq Within /\ "CHAR" \in Unquoted
  BY DEF Within, Unquoted
<1> QED BY <1>1, <1>2, PassesOne

-----------------------------------------------------------------------------
\* An element is read as its tag, the "=" and the value that is meant.
Meant(a) == a.tag \o ((IF a.quote = "none" THEN << >> ELSE <<"=">>) \o a.value)

LEMMA AskableFacts ==
  ASSUME NEW a \in Askable
  PROVE  /\ a.tag \in Texts /\ a.value \in Texts
         /\ a.quote \in {"'", "\"", "\\", "none"}
         /\ \A i \in 1 .. Len(a.tag) :
              a.tag[i] \in TextChars \ {"'", "\"", "\\", "/", "=", "]"}
         /\ a.quote \in {"'", "\""} => \A i \in 1 .. Len(a.value) : a.value[i] # a.quote
         /\ a.quote = "none" => a.value = << >>
         /\ a.tag = EmptyTag => a.quote = "none"
<1>1. /\ a.tag \in ToSet(Tags) \cup OtherTags /\ a.value \in Values \cup {<< >>}
      /\ a.quote \in {"'", "\"", "\\", "none"}
      /\ a.quote \in {"'", "\""} => a.quote \notin ToSet(a.value)
      /\ a.quote = "none" => a.value = << >>
      /\ a.tag = EmptyTag => a.quote = "none"
  BY DEF Askable
<1>2. ToSet(Tags) \subseteq Texts
  BY ParametersAssumption, Places DEF Texts
<1>3. a.tag \in Texts /\ a.value \in Texts
  BY <1>1, <1>2, ParametersAssumption, NoText DEF Texts
<1>4. ToSet(a.tag) \cap {"'", "\"", "\\", "/", "=", "]"} = {}
  BY <1>1, ParametersAssumption
<1>5. \A i \in 1 .. Len(a.tag) : a.tag[i] \in TextChars /\ a.tag[i] \in ToSet(a.tag)
  BY <1>3, Places DEF Texts
<1>6. \A i \in 1 .. Len(a.value) : a.value[i] \in ToSet(a.value)
  BY <1>3, Places DEF Texts
<1> QED BY <1>1, <1>3, <1>4, <1>5, <1>6

LEMMA TagPasses ==
  ASSUME NEW d \in {"/", "]"}, NEW a \in Askable
  PROVE  Passes(a.tag, a.tag, d, Unquoted, Unquoted)
<1> DEFINE v == a.tag
<1>1. v \in Texts /\ \A i \in 1 .. Len(v) : v[i] \in TextChars \ {"'", "\"", "\\", "/", "=", "]"}
  BY AskableFacts
<1> HIDE DEF v
<1>2. \A i \in 1 .. Len(v) : Passes(<<v[i]>>, <<v[i]>>, d, Unquoted, Unquoted)
  BY <1>1, CharPasses
<1>3. Passes(v, v, d, Unquoted, Unquoted)
  BY <1>1, <1>2, PassesAsItStands DEF Within
<1> QED BY <1>3 DEF v

LEMMA QuotePasses ==
  ASSUME NEW d \in {"/", "]"}, NEW q \in {"'", "\""}, NEW v \in Texts,
         \A i \in 1 .. Len(v) : v[i] # q
  PROVE  Passes(<<q>> \o v \o <<q>>, v, d, Unquoted, Unquoted)
<1> DEFINE st == IF q = "'" THEN "QUOTE" ELSE "DOUBLEQ"
           e == << >>
<1>1. Passes(<<q>>, e, d, Unquoted, {st})
  <2>1. st = CASE q = "'" -> "QUOTE" [] q = "\"" -> "DOUBLEQ" [] q = "\\" -> "ESC"
    OBVIOUS
  <2> QED BY <2>1, QuoteBegins
<1>2. Passes(v, v, d, {st}, {st})
  <2>1. \A i \in 1 .. Len(v) : v[i] \in TextChars
    BY FirstOnes
  <2>2. \A i \in 1 .. Len(v) : Passes(<<v[i]>>, <<v[i]>>, d, {st}, {st})
    BY <2>1, QuotedPasses
  <2>3. {st} \subseteq Within
    BY DEF Within
  <2> HIDE DEF st
  <2> QED BY <2>2, <2>3, PassesAsItStands
<1>3. Passes(<<q>>, e, d, {st}, Unquoted)
  BY QuoteEnds
<1>4. e \in Texts /\ e \o v = v /\ v \o e = v
  BY NoText
<1> DEFINE o == <<q>>
<1> HIDE DEF st, e, o
<1>5. Passes(o \o v, e \o v, d, Unquoted, {st})
  BY <1>1, <1>2, PassesJoined DEF o
<1>6. Passes((o \o v) \o o, v \o e, d, Unquoted, Unquoted)
  BY <1>3, <1>4, <1>5, PassesJoined DEF o
<1>7. Passes((o \o v) \o o, v, d, Unquoted, Unquoted)
  BY <1>4, <1>6
<1> QED BY <1>7 DEF o

LEMMA TwoText ==
  ASSUME NEW b \in TextChars, NEW c \in TextChars
  PROVE  <<b, c>> = <<b>> \o <<c>>
<1> DEFINE s == <<b, c>>
           x == <<b>>
           y == <<c>>
           t == x \o y
<1>1. s \in Texts /\ Len(s) = 2 /\ s[1] = b /\ s[2] = c
  BY DEF Texts
<1>2. x \in Texts /\ y \in Texts /\ Len(x) = 1 /\ Len(y) = 1 /\ x[1] = b /\ y[1] = c
  BY OneText
<1> HIDE DEF x, y, s
<1>3. /\ t \in Texts /\ Len(t) = Len(x) + Len(y)
      /\ \A i \in 1 .. Len(x) : t[i] = x[i]
      /\ \A i \in 1 .. Len(y) : t[Len(x) + i] = y[i]
  BY <1>2, TextsJoined
<1> HIDE DEF t
<1>4. Len(t) = 2 /\ t[1] = b /\ t[1 + 1] = c
  BY <1>2, <1>3
<1>5. s = t
  <2>1. \A i \in 1 .. 2 : i = 1 \/ i = 2
    OBVIOUS
  <2>2. t[2] = c
    BY <1>4
  <2>3. \A i \in 1 .. Len(s) : s[i] = t[i]
    BY <1>1, <1>4, <2>1, <2>2
  <2> QED BY <1>1, <1>3, <1>4, <2>3, SeqEqual DEF Texts
<1> QED BY <1>5 DEF s, t, x, y

LEMMA EscapePasses ==
  ASSUME NEW d \in {"/", "]"}, NEW v \in Texts
  PROVE  Passes(Written(v, "\\"), v, d, Unquoted, Unquoted)
<1> DEFINE w == [i \in DOMAIN v |-> IF v[i] \in Special THEN <<"\\", v[i]>> ELSE <<v[i]>>]
           n == Len(v)
<1>1. Written(v, "\\") = Flat(w)
  BY DEF Written
<1>2. n \in Nat /\ DOMAIN v = 1 .. n /\ \A i \in 1 .. n : v[i] \in TextChars
  BY LenProperties, FirstOnes DEF Texts
<1>3. "\\" \in TextChars
  BY ParametersAssumption
<1>4. \A i \in 1 .. n : w[i] = IF v[i] \in Special THEN <<"\\", v[i]>> ELSE <<v[i]>>
  BY <1>2
<1>5. w \in Seq(Texts) /\ Len(w) = n
  <2>1. \A i \in 1 .. n : w[i] \in Texts
    BY <1>2, <1>3, <1>4 DEF Texts
  <2>2. w = [i \in 1 .. n |-> w[i]]
    BY <1>2
  <2> HIDE DEF w, n
  <2> QED BY <1>2, <2>1, <2>2
<1> HIDE DEF w
<1>6. ASSUME NEW i \in 1 .. n PROVE Passes(w[i], <<v[i]>>, d, Unquoted, Unquoted)
  <2> DEFINE c == v[i]
             e == << >>
             b == <<"\\">>
             t == <<c>>
  <2>1. c \in TextChars /\ t \in Texts
    BY <1>2, OneText
  <2>2. CASE c \in Special
    <3>1. Passes(b, e, d, Unquoted, {"ESC"})
      BY QuoteBegins
    <3>2. Passes(t, t, d, {"ESC"}, Unquoted)
      BY <2>1, EscapedPasses
    <3>3. w[i] = b \o t
      BY <1>3, <1>4, <2>1, <2>2, TwoText
    <3>4. e \o t = t
      BY <2>1, NoText
    <3> HIDE DEF b, e, t
    <3>5. Passes(b \o t, e \o t, d, Unquoted, Unquoted)
      BY <3>1, <3>2, PassesJoined
    <3>6. Passes(w[i], t, d, Unquoted, Unquoted)
      BY <3>3, <3>4, <3>5
    <3> QED BY <3>6 DEF t
  <2>3. CASE c \notin Special
    <3>1. c # d /\ c \notin {"'", "\"", "\\"}
      BY <2>3 DEF Special
    <3>2. Passes(t, t, d, Unquoted, Unquoted)
      BY <2>1, <3>1, CharPasses
    <3> QED BY <1>4, <2>3, <3>2
  <2> QED BY <2>2, <2>3
<1>7. Passes(Flat(w), v, d, Unquoted, Unquoted)
  BY <1>5, <1>6, PassesFlat DEF Within
<1> QED BY <1>1, <1>7

LEMMA ElementPasses ==
  ASSUME NEW d \in {"/", "]"}, NEW a \in Askable
  PROVE  Passes(Element(a), Meant(a), d, Unquoted, Unquoted)
<1> DEFINE q == a.quote
           v == a.value
           g == a.tag
           e == IF q = "none" THEN << >> ELSE <<"=">>
           w == Written(v, q)
<1>1. /\ g \in Texts /\ v \in Texts /\ q \in {"'", "\"", "\\", "none"}
      /\ q \in {"'", "\""} => \A i \in 1 .. Len(v) : v[i] # q
      /\ q = "none" => v = << >>
  BY AskableFacts
<1>2. Passes(g, g, d, Unquoted, Unquoted)
  BY TagPasses
<1>3. Element(a) = (g \o e) \o w /\ Meant(a) = g \o (e \o v)
  BY DEF Element, Meant
<1> HIDE DEF g, v, q
<1>4. Passes(e, e, d, Unquoted, Unquoted)
  <2>1. CASE q = "none"
    BY <2>1, PassesNothing DEF Within
  <2>2. CASE q # "none"
    <3>1. "=" \in TextChars \ {"'", "\"", "\\"} /\ "=" # d
      BY ParametersAssumption
    <3> QED BY <2>2, <3>1, CharPasses
  <2> QED BY <2>1, <2>2
<1>5. Passes(w, v, d, Unquoted, Unquoted)
  <2>1. CASE q \in {"'", "\""}
    <3>1. w = <<q>> \o v \o <<q>>
      BY <2>1 DEF Written
    <3> QED BY <1>1, <2>1, <3>1, QuotePasses
  <2>2. CASE q = "\\"
    BY <1>1, <2>2, EscapePasses
  <2>3. CASE q = "none"
    <3>1. w = << >>
      BY <2>3 DEF Written
    <3> HIDE DEF w
    <3>2. v = w
      BY <1>1, <2>3, <3>1
    <3> QED BY <3>1, <3>2, PassesNothing DEF Within
  <2> QED BY <1>1, <2>1, <2>2, <2>3
<1> HIDE DEF e, w
<1>6. Passes(g \o e, g \o e, d, Unquoted, Unquoted)
  BY <1>2, <1>4, PassesJoined
<1>7. Passes((g \o e) \o w, (g \o e) \o v, d, Unquoted, Unquoted)
  BY <1>5, <1>6, PassesJoined
<1>8. (g \o e) \o v = g \o (e \o v)
  <2>1. e \in Texts
    BY <1>4 DEF Passes
  <2> QED BY <1>1, <2>1, TextsGrouped
<1> QED BY <1>3, <1>7, <1>8

-----------------------------------------------------------------------------
(* The scan of a text.                                                     *)
Statuses == Within \cup {"DELIM"}
Scanned == [status : Statuses, to : Texts, delims : SUBSET Nat]

ScanStep(last, i, c, d) ==
  LET this == winvde_token(c, d)
      next == nextstate(last.status, this)
  IN [status |-> next,
      to |-> IF last.delims = {} /\ copied(last.status, this) THEN Append(last.to, c) ELSE last.to,
      delims |-> IF next = "DELIM" THEN last.delims \cup {i} ELSE last.delims]

ScanStart == [status |-> "CHAR", to |-> << >>, delims |-> {}]

IsScan(s, text, d) ==
  /\ s \in [0 .. Len(text) -> Scanned] /\ s[0] = ScanStart
  /\ \A i \in 1 .. Len(text) : s[i] = ScanStep(s[i - 1], i, text[i], d)

LEMMA ScanStepIn ==
  ASSUME NEW last \in Scanned, NEW i \in Nat, NEW c \in TextChars, NEW d
  PROVE  ScanStep(last, i, c, d) \in Scanned
<1> DEFINE this == winvde_token(c, d)
           next == nextstate(last.status, this)
<1>1. this \in {"QUOTE", "DOUBLEQ", "ESC", "PERC", "DELIM", "CHAR"}
  <2>1. CASE c = "'"
    BY <2>1 DEF winvde_token
  <2>2. CASE c = "\""
    BY <2>2 DEF winvde_token
  <2>3. CASE c = "\\"
    BY <2>3 DEF winvde_token
  <2>4. CASE c = "%"
    BY <2>4 DEF winvde_token
  <2>5. CASE c \notin {"'", "\"", "\\", "%"}
    <3>1. this = IF c = d THEN "DELIM" ELSE "CHAR"
      BY <2>5 DEF winvde_token
    <3> QED BY <3>1
  <2> QED BY <2>1, <2>2, <2>3, <2>4, <2>5
<1> HIDE DEF this
<1>2. /\ last.status \in Statuses /\ last.to \in Texts /\ last.delims \in SUBSET Nat
  BY DEF Scanned
<1>3. next \in Statuses
  BY <1>1, <1>2 DEF nextstate, Statuses, Within, Unquoted
<1>4. Append(last.to, c) \in Texts
  BY <1>2, AppendProperties DEF Texts
<1>5. last.delims \cup {i} \in SUBSET Nat
  BY <1>2
<1> HIDE DEF next
<1>6. ScanStep(last, i, c, d) =
        [status |-> next,
         to |-> IF last.delims = {} /\ copied(last.status, this) THEN Append(last.to, c) ELSE last.to,
         delims |-> IF next = "DELIM" THEN last.delims \cup {i} ELSE last.delims]
  BY DEF ScanStep, next, this
<1> QED BY <1>2, <1>3, <1>4, <1>5, <1>6 DEF Scanned

LEMMA ScanByChar ==
  ASSUME NEW text \in Texts, NEW d
  PROVE  \E s : IsScan(s, text, d) /\ Scan(text, d) = s[Len(text)]
<1> DEFINE n == Len(text)
           step == [p \in (1 .. n) \X Scanned |-> ScanStep(p[2], p[1], text[p[1]], d)]
           IsScanned(h) == h = [i \in 0 .. n |-> IF i = 0 THEN ScanStart ELSE ScanStep(h[i - 1], i, text[i], d)]
           H == CHOOSE h : IsScanned(h)
<1>1. n \in Nat /\ \A i \in 1 .. n : text[i] \in TextChars
  BY FirstOnes
<1>2. Scan(text, d) = H[n]
  BY DEF Scan, ScanStep, ScanStart
<1> HIDE DEF n
<1>3. \A i \in 1 .. n : i \in Nat
  BY <1>1
<1>4. \A i \in 1 .. n : \A x \in Scanned :
        ScanStep(x, i, text[i], d) \in Scanned /\ step[<<i, x>>] = ScanStep(x, i, text[i], d)
  BY <1>1, <1>3, ScanStepIn
<1>5. step \in [(1 .. n) \X Scanned -> Scanned]
  BY <1>4
<1> HIDE DEF step
<1>6. ScanStart \in Scanned
  BY NoText DEF ScanStart, Scanned, Statuses, Within, Unquoted
<1>7. PICK f \in [0 .. n -> Scanned] :
        f = [i \in 0 .. n |-> IF i = 0 THEN ScanStart ELSE step[<<i, f[i - 1]>>]]
  <2>1. HasRounds(n, Scanned, ScanStart, step)
    BY <1>1, <1>5, <1>6, RoundsExist
  <2> QED BY <2>1 DEF HasRounds
<1>8. f = [i \in 0 .. n |-> IF i = 0 THEN ScanStart ELSE ScanStep(f[i - 1], i, text[i], d)]
  <2> SUFFICES ASSUME NEW i \in 0 .. n
               PROVE  f[i] = IF i = 0 THEN ScanStart ELSE ScanStep(f[i - 1], i, text[i], d)
    OBVIOUS
  <2>1. f[i] = IF i = 0 THEN ScanStart ELSE step[<<i, f[i - 1]>>]
    BY <1>7
  <2>2. i # 0 => i \in 1 .. n /\ i - 1 \in 0 .. n
    BY <1>1
  <2>3. i # 0 => f[i - 1] \in Scanned
    BY <2>2
  <2> QED BY <1>4, <2>1, <2>2, <2>3
<1>9. IsScanned(H)
  <2>1. IsScanned(f)
    BY <1>8
  <2> HIDE DEF IsScanned
  <2> QED BY <2>1
<1>10. H[0] = ScanStart /\ \A i \in 1 .. n : H[i] = ScanStep(H[i - 1], i, text[i], d)
  <2>1. \A i \in 0 .. n : H[i] = IF i = 0 THEN ScanStart ELSE ScanStep(H[i - 1], i, text[i], d)
    BY <1>9
  <2>2. 0 \in 0 .. n /\ \A i \in 1 .. n : i \in 0 .. n /\ i # 0
    BY <1>1
  <2> HIDE DEF H
  <2> QED BY <2>1, <2>2
<1>11. H = [i \in 0 .. n |-> H[i]]
  BY <1>9
<1> HIDE DEF H, IsScanned
<1> DEFINE So == {i \in 0 .. n : H[i] \in Scanned}
<1>12. 0 \in So
  BY <1>1, <1>6, <1>10
<1>13. \A i \in 1 .. n : i - 1 \in So => i \in So
  <2> TAKE i \in 1 .. n
  <2> HAVE i - 1 \in So
  <2>1. H[i] \in Scanned
    BY <1>4, <1>10
  <2> QED BY <1>1, <2>1
<1> HIDE DEF So
<1>14. \A i \in 0 .. n : i \in So
  BY <1>1, <1>12, <1>13, UpTo
<1>15. H \in [0 .. n -> Scanned]
  BY <1>11, <1>14 DEF So
<1>16. IsScan(H, text, d)
  BY <1>10, <1>15 DEF IsScan, n
<1> QED BY <1>2, <1>16 DEF n

\* s scans a text up to its end; behind its first p characters u is copied and
\* no delimiter is found.
ScansTo(s, t, d, p, u) ==
  /\ IsScan(s, t, d) /\ Scan(t, d) = s[Len(t)]
  /\ s[p].status \in Unquoted /\ s[p].to = u /\ s[p].delims = {}

\* As far as the text is one that is read whole.
LEMMA ScanPasses ==
  ASSUME NEW e, NEW u, NEW d, Passes(e, u, d, Unquoted, Unquoted), NEW r \in Texts
  PROVE  \E s : ScansTo(s, e \o r, d, Len(e), u)
<1> DEFINE t == e \o r
           p == Len(e)
           n == Len(t)
<1>1. e \in Texts
  BY DEF Passes
<1>2. t \in Texts /\ p \in Nat /\ n = p + Len(r) /\ Len(r) \in Nat /\ \A i \in 1 .. p : t[i] = e[i]
  BY <1>1, TextsJoined
<1> HIDE DEF t, n
<1>3. PICK s : IsScan(s, t, d) /\ Scan(t, d) = s[Len(t)]
  BY <1>2, ScanByChar
<1>4. /\ s[0] = ScanStart
      /\ \A i \in 1 .. n : s[i] = ScanStep(s[i - 1], i, t[i], d)
  BY <1>3 DEF IsScan, n
<1>5. PICK f, g : Reads(f, g, e, d) /\ f[0] = "CHAR" /\ f[p] \in Unquoted /\ g[p] = u
  <2>1. ReadsFrom("CHAR", e, u, d, Unquoted)
    BY DEF Passes, Unquoted
  <2> QED BY <2>1 DEF ReadsFrom
<1>6. /\ f \in [0 .. p -> Within] /\ g[0] = << >>
      /\ \A i \in 1 .. p :
           /\ f[i] = nextstate(f[i - 1], winvde_token(e[i], d))
           /\ g[i] = IF copied(f[i - 1], winvde_token(e[i], d)) THEN Append(g[i - 1], e[i]) ELSE g[i - 1]
  BY <1>5 DEF Reads
<1> HIDE DEF p
<1> DEFINE So == {i \in 0 .. p : s[i].status = f[i] /\ s[i].to = g[i] /\ s[i].delims = {}}
<1>7. 0 \in So
  BY <1>2, <1>4, <1>5, <1>6 DEF ScanStart
<1>8. \A i \in 1 .. p : i - 1 \in So => i \in So
  <2> TAKE i \in 1 .. p
  <2> HAVE i - 1 \in So
  <2> DEFINE this == winvde_token(e[i], d)
             next == nextstate(f[i - 1], this)
             last == s[i - 1]
  <2>1. i \in 1 .. n /\ i \in 0 .. p
    BY <1>2
  <2>2. s[i] = ScanStep(last, i, e[i], d)
    BY <1>2, <1>4, <2>1
  <2>3. next = f[i] /\ f[i] # "DELIM"
    BY <1>6, <2>1 DEF Within, Unquoted
  <2>4. last.status = f[i - 1] /\ last.to = g[i - 1] /\ last.delims = {}
    OBVIOUS
  <2>5. g[i] = IF copied(f[i - 1], this) THEN Append(g[i - 1], e[i]) ELSE g[i - 1]
    BY <1>6
  <2> HIDE DEF last
  <2>6. s[i].status = f[i] /\ s[i].to = g[i] /\ s[i].delims = {}
    BY <2>2, <2>3, <2>4, <2>5 DEF ScanStep
  <2> QED BY <2>1, <2>6
<1> HIDE DEF So
<1>9. \A i \in 0 .. p : i \in So
  BY <1>2, <1>7, <1>8, UpTo
<1>10. p \in So
  BY <1>2, <1>9
<1>11. s[p].status \in Unquoted /\ s[p].to = u /\ s[p].delims = {}
  BY <1>5, <1>10 DEF So, p
<1> QED BY <1>3, <1>11 DEF t, p, ScansTo

LEMMA TextNotNull == \A t \in Texts : t # NULL
<1> SUFFICES ASSUME NEW t \in Texts, t = NULL
             PROVE  FALSE
  OBVIOUS
<1>1. Len(t) = 1 /\ t[1] = "NULL"
  BY DEF NULL
<1>2. t[1] \in TextChars
  BY <1>1, FirstOnes
<1> QED BY <1>1, <1>2, ParametersAssumption

\* The last element of a text.
LEMMA LastCut ==
  ASSUME NEW e, NEW u, NEW d, Passes(e, u, d, Unquoted, Unquoted)
  PROVE  strtokq_r(e, d) = [token |-> u, rest |-> NULL]
<1>1. e \in Texts /\ << >> \in Texts /\ e \o << >> = e
  BY NoText DEF Passes
<1>2. Scan(e, d).to = u /\ Scan(e, d).delims = {}
  <2>1. \A r \in Texts : e \o r = e => Scan(e, d).to = u /\ Scan(e, d).delims = {}
    <3> SUFFICES ASSUME NEW r \in Texts, e \o r = e
                 PROVE  Scan(e, d).to = u /\ Scan(e, d).delims = {}
      OBVIOUS
    <3>1. PICK s : ScansTo(s, e \o r, d, Len(e), u)
      BY ScanPasses
    <3> QED BY <3>1 DEF ScansTo
  <2> QED BY <1>1, <2>1
<1>3. e # NULL
  BY <1>1, TextNotNull
<1> QED BY <1>2, <1>3 DEF strtokq_r

\* A delimiter, outside of quotes, is taken for one.
LEMMA DelimToken ==
  ASSUME NEW d \in {"/", "[", "]"}, NEW c \in Unquoted
  PROVE  nextstate(c, winvde_token(d, d)) = "DELIM" /\ ~copied(c, winvde_token(d, d))
<1>1. winvde_token(d, d) = "DELIM"
  BY DEF winvde_token
<1> QED BY <1>1 DEF nextstate, copied, Unquoted

\* What is behind the first p + 1 characters.
Parted(e, d, r) == e \o (<<d>> \o r)

LEMMA TextBehind ==
  ASSUME NEW e \in Texts, NEW d \in TextChars, NEW r \in Texts
  PROVE  /\ Parted(e, d, r) \in Texts /\ Len(Parted(e, d, r)) = Len(e) + 1 + Len(r)
         /\ Parted(e, d, r)[Len(e) + 1] = d
         /\ SubSeq(Parted(e, d, r), Len(e) + 1 + 1, Len(Parted(e, d, r))) = r
         /\ SubSeq(Parted(e, d, r), 1, Len(e)) = e
<1> DEFINE b == <<d>> \o r
           t == e \o b
           p == Len(e)
           n == Len(r)
           z == SubSeq(t, p + 1 + 1, p + 1 + n)
           a == SubSeq(t, 1, p)
<1>1. p \in Nat /\ n \in Nat
  BY TextsJoined
<1>2. b \in Texts /\ Len(b) = 1 + n /\ b[1] = d /\ \A i \in 1 .. n : b[1 + i] = r[i]
  BY OneText, TextsJoined, <1>1
<1> HIDE DEF b
<1>3. t \in Texts /\ Len(t) = p + (1 + n) /\ \A i \in 1 .. 1 + n : t[p + i] = b[i]
  <2>1. t \in Texts /\ Len(t) = p + Len(b) /\ \A i \in 1 .. Len(b) : t[p + i] = b[i]
    BY <1>2, TextsJoined
  <2> HIDE DEF t, p, n
  <2> QED BY <1>2, <2>1
<1>3a. \A i \in 1 .. p : t[i] = e[i]
  BY <1>2, TextsJoined
<1> HIDE DEF t, p, n
<1>4. Len(t) = p + 1 + n /\ t[p + 1] = d
  <2>1. 1 \in 1 .. 1 + n
    BY <1>1
  <2> QED BY <1>1, <1>2, <1>3, <2>1
<1>5. z = r
  <2>1. z \in Texts /\ Len(z) = n /\ \A i \in 1 .. n : z[i] = t[p + 1 + i]
    <3> DEFINE lo == p + 1 + 1
               hi == p + 1 + n
    <3>1. lo \in 1 .. Len(t) + 1 /\ hi \in lo - 1 .. Len(t) /\ hi - lo + 1 = n
      BY <1>1, <1>4
    <3>2. \A i \in 1 .. n : lo + i - 1 = p + 1 + i
      BY <1>1
    <3> HIDE DEF lo, hi
    <3>3. /\ SubSeq(t, lo, hi) \in Texts
          /\ Len(SubSeq(t, lo, hi)) = IF lo <= hi THEN hi - lo + 1 ELSE 0
          /\ \A i \in 1 .. hi - lo + 1 : SubSeq(t, lo, hi)[i] = t[lo + i - 1]
      <4>1. lo \in Int /\ hi \in Int
        BY <1>1 DEF lo, hi
      <4>2. \A i \in lo .. hi : t[i] \in TextChars
        <5>1. \A i \in lo .. hi : i \in 1 .. Len(t)
          BY <1>1, <1>4, <3>1, <4>1
        <5> QED BY <1>3, <5>1, FirstOnes
      <4> QED BY <4>1, <4>2, SubSeqProperties DEF Texts
    <3>4. hi \in Int /\ lo \in Int
      BY <1>1 DEF hi, lo
    <3>5. (IF lo <= hi THEN hi - lo + 1 ELSE 0) = n
      BY <1>1, <3>1, <3>4
    <3>6. SubSeq(t, lo, hi) = z
      BY DEF lo, hi
    <3> HIDE DEF z
    <3> QED BY <3>1, <3>2, <3>3, <3>5, <3>6
  <2> HIDE DEF z
  <2>2. \A i \in 1 .. n : z[i] = r[i]
    <3> TAKE i \in 1 .. n
    <3>1. 1 + i \in 1 .. 1 + n /\ p + (1 + i) = p + 1 + i
      BY <1>1
    <3> QED BY <1>2, <1>3, <2>1, <3>1
  <2> QED BY <2>1, <2>2, SeqEqual DEF Texts, n
<1>6. a = e
  <2>1. a \in Texts /\ Len(a) = p /\ \A i \in 1 .. p : a[i] = t[i]
    <3>1. \A i \in 1 .. p : t[i] \in TextChars
      <4>1. \A i \in 1 .. p : i \in 1 .. Len(t)
        BY <1>1, <1>4
      <4> QED BY <1>3, <4>1, FirstOnes
    <3>2. /\ SubSeq(t, 1, p) \in Texts
          /\ Len(SubSeq(t, 1, p)) = IF 1 <= p THEN p - 1 + 1 ELSE 0
          /\ \A i \in 1 .. p - 1 + 1 : SubSeq(t, 1, p)[i] = t[1 + i - 1]
      BY <1>1, <3>1, SubSeqProperties DEF Texts
    <3>3. (IF 1 <= p THEN p - 1 + 1 ELSE 0) = p /\ p - 1 + 1 = p /\ \A i \in 1 .. p : 1 + i - 1 = i
      BY <1>1
    <3> QED BY <3>2, <3>3
  <2> HIDE DEF a
  <2> QED BY <1>3a, <2>1, SeqEqual DEF Texts, p
<1>7. t = Parted(e, d, r)
  BY DEF t, b, Parted
<1> QED BY <1>3, <1>4, <1>5, <1>6, <1>7 DEF p, n

\* A delimiter behind a text that is read whole is the first one.
LEMMA DelimFound ==
  ASSUME NEW s, NEW d \in {"/", "[", "]"}, NEW e \in Texts, NEW u, NEW r \in Texts,
         ScansTo(s, Parted(e, d, r), d, Len(e), u)
  PROVE  s[Len(e) + 1] = [status |-> "DELIM", to |-> u, delims |-> {Len(e) + 1}]
<1> DEFINE t == Parted(e, d, r)
           p == Len(e)
<1>0. d \in TextChars
  BY ParametersAssumption
<1>1. p \in Nat /\ Len(t) = p + 1 + Len(r) /\ Len(r) \in Nat /\ t[p + 1] = d
  BY <1>0, TextBehind, FirstOnes
<1>2. /\ \A i \in 1 .. Len(t) : s[i] = ScanStep(s[i - 1], i, t[i], d)
      /\ s[p].status \in Unquoted /\ s[p].to = u /\ s[p].delims = {}
  BY DEF ScansTo, IsScan
<1> HIDE DEF t, p
<1>3. p + 1 \in 1 .. Len(t) /\ p + 1 - 1 = p
  BY <1>1
<1>4. s[p + 1] = ScanStep(s[p], p + 1, d, d)
  BY <1>1, <1>2, <1>3
<1>5. nextstate(s[p].status, winvde_token(d, d)) = "DELIM" /\ ~copied(s[p].status, winvde_token(d, d))
  BY <1>2, DelimToken
<1>6. s[p + 1] = [status |-> "DELIM", to |-> u, delims |-> {p + 1}]
  BY <1>2, <1>4, <1>5 DEF ScanStep
<1> QED BY <1>6 DEF p

\* The first element of a text of several.
LEMMA FirstCut ==
  ASSUME NEW e, NEW u, NEW d \in {"/", "["}, Passes(e, u, d, Unquoted, Unquoted), NEW r \in Texts
  PROVE  strtokq_r(Parted(e, d, r), d) = [token |-> u, rest |-> r]
<1> DEFINE b == <<d>> \o r
           t == Parted(e, d, r)
           p == Len(e)
           n == Len(t)
<1>0. e \in Texts /\ d \in TextChars /\ b \in Texts
  BY ParametersAssumption, OneText, TextsJoined DEF Passes
<1>1. /\ p \in Nat /\ n = p + 1 + Len(r) /\ Len(r) \in Nat /\ t \in Texts
      /\ SubSeq(t, p + 1 + 1, n) = r
  <2>1. p \in Nat /\ Len(r) \in Nat
    BY <1>0, FirstOnes
  <2>2. t \in Texts /\ Len(t) = p + 1 + Len(r)
    BY <1>0, TextBehind
  <2>3. SubSeq(t, p + 1 + 1, n) = r
    BY <1>0, TextBehind
  <2> QED BY <2>1, <2>2, <2>3
<1>2. PICK s : ScansTo(s, t, d, p, u)
  BY <1>0, ScanPasses DEF Parted
<1>3. s[p + 1] = [status |-> "DELIM", to |-> u, delims |-> {p + 1}]
  BY <1>0, <1>2, DelimFound
<1>4. /\ Scan(t, d) = s[n]
      /\ \A i \in 1 .. n : s[i] = ScanStep(s[i - 1], i, t[i], d)
  BY <1>2 DEF ScansTo, IsScan
<1> HIDE DEF t, p, n
<1> DEFINE So == {i \in 0 .. n : i <= p \/ /\ s[i].to = u /\ p + 1 \in s[i].delims
                                           /\ s[i].delims \subseteq p + 1 .. i}
<1>5. 0 \in So
  BY <1>1
<1>6. \A i \in 1 .. n : i - 1 \in So => i \in So
  <2> TAKE i \in 1 .. n
  <2> HAVE i - 1 \in So
  <2>1. CASE i <= p
    BY <1>1, <2>1
  <2>2. CASE i = p + 1
    <3>1. s[i].to = u /\ s[i].delims = {p + 1}
      BY <1>3, <2>2
    <3>2. p + 1 \in p + 1 .. i /\ i \in 0 .. n
      BY <1>1, <2>2
    <3> QED BY <3>1, <3>2
  <2>3. CASE i > p + 1
    <3> DEFINE last == s[i - 1]
    <3>1. ~(i - 1 <= p) /\ i \in 0 .. n /\ i \in p + 1 .. i
      BY <1>1, <2>3
    <3>2. last.to = u /\ p + 1 \in last.delims /\ last.delims \subseteq p + 1 .. i - 1
      BY <3>1
    <3>3. s[i] = ScanStep(last, i, t[i], d)
      BY <1>4
    <3> HIDE DEF last
    <3>4. s[i].to = u /\ s[i].delims \in {last.delims, last.delims \cup {i}}
      BY <3>2, <3>3 DEF ScanStep
    <3>5. p + 1 .. i - 1 \subseteq p + 1 .. i
      BY <1>1
    <3>6. p + 1 \in s[i].delims /\ s[i].delims \subseteq p + 1 .. i
      BY <3>1, <3>2, <3>4, <3>5
    <3> QED BY <3>1, <3>4, <3>6
  <2> QED BY <1>1, <2>1, <2>2, <2>3
<1> HIDE DEF So
<1>7. \A i \in 0 .. n : i \in So
  <2>1. n \in Nat
    BY <1>1
  <2> QED BY <2>1, <1>5, <1>6, UpTo
<1>8. n \in So /\ ~(n <= p)
  BY <1>1, <1>7
<1> DEFINE D == Scan(t, d).delims
<1>9. Scan(t, d).to = u /\ p + 1 \in D /\ D \subseteq p + 1 .. n
  BY <1>4, <1>8 DEF So
<1> HIDE DEF D
<1>10. Min(D) = p + 1
  <2>1. \A k \in D : p + 1 <= k /\ k \in Nat
    BY <1>1, <1>9
  <2>2. D \subseteq 1 .. n /\ n \in Nat
    BY <1>1, <1>9
  <2>3. Min(D) \in D /\ Min(D) <= p + 1
    BY <1>9, <2>2, LeastPlace
  <2> QED BY <1>1, <2>1, <2>3
<1>11. t # NULL
  BY <1>1, TextNotNull
<1>12. strtokq_r(t, d) = [token |-> u, rest |-> r]
  <2>1. Scan(t, d).delims = D /\ D # {}
    BY <1>9 DEF D
  <2>2. Len(t) = n
    BY DEF n
  <2> QED BY <1>1, <1>9, <1>10, <1>11, <2>1, <2>2 DEF strtokq_r
<1> QED BY <1>12 DEF t

\* What is before the closing bracket, a name behind it.
LEMMA BracketCut ==
  ASSUME NEW e, NEW u, Passes(e, u, "]", Unquoted, Unquoted)
  PROVE  strtokq_rev_r(e \o <<"]", "n">>, "]") = e
<1> DEFINE d == "]"
           m == <<"n">>
           b == <<d>> \o m
           t == Parted(e, d, m)
           p == Len(e)
<1>0. e \in Texts /\ d \in TextChars /\ d \in {"/", "[", "]"} /\ m \in Texts /\ b \in Texts /\ Len(m) = 1 /\ m[1] = "n"
  BY ParametersAssumption, OneText, TextsJoined DEF Passes
<1>1. <<"]", "n">> = b
  BY DEF b
<1> HIDE DEF m
<1>2. /\ p \in Nat /\ Len(t) = p + 1 + 1 /\ t \in Texts /\ SubSeq(t, 1, p) = e
  <2> HIDE DEF d
  <2>1. p \in Nat
    BY <1>0, FirstOnes
  <2>2. t \in Texts /\ Len(t) = p + 1 + Len(m) /\ SubSeq(t, 1, p) = e
    BY <1>0, TextBehind, ZenonT(60)
  <2> QED BY <1>0, <2>1, <2>2
<1>3. t[p + 1 + 1] = "n"
  <2>1. Len(b) = 1 + 1 /\ b[1 + 1] = m[1]
    <3>1. Len(<<d>>) = 1 /\ <<d>> \in Texts
      BY <1>0, OneText
    <3>2. 1 \in 1 .. Len(m)
      BY <1>0
    <3> HIDE DEF d
    <3> DEFINE c == <<d>>
    <3>3. c \in Texts /\ Len(c) = 1 /\ b = c \o m
      BY <3>1
    <3> HIDE DEF c, b
    <3>4. Len(c \o m) = Len(c) + Len(m) /\ (c \o m)[Len(c) + 1] = m[1]
      BY <1>0, <3>2, <3>3, TextsJoined, ZenonT(60)
    <3> QED BY <1>0, <3>3, <3>4
  <2>2. 1 + 1 \in 1 .. Len(b)
    BY <2>1
  <2> HIDE DEF b
  <2>3. t[p + (1 + 1)] = b[1 + 1]
    <3> DEFINE y == e \o b
    <3>1. \A i \in 1 .. Len(b) : y[p + i] = b[i]
      BY <1>0, TextsJoined
    <3>2. y = t
      BY DEF Parted, b
    <3> HIDE DEF y, t, p
    <3> QED BY <2>2, <3>1, <3>2
  <2>4. p + (1 + 1) = p + 1 + 1
    BY <1>2
  <2> QED BY <1>0, <2>1, <2>3, <2>4
<1>4. PICK s : ScansTo(s, t, d, p, u)
  BY <1>0, ScanPasses DEF Parted
<1>5. s[p + 1] = [status |-> "DELIM", to |-> u, delims |-> {p + 1}]
  BY <1>0, <1>4, DelimFound
<1>6. /\ Scan(t, d) = s[p + 1 + 1]
      /\ s[p + 1 + 1] = ScanStep(s[p + 1], p + 1 + 1, t[p + 1 + 1], d)
  <2>1. p + 1 + 1 \in 1 .. Len(t) /\ p + 1 + 1 - 1 = p + 1
    BY <1>2
  <2> HIDE DEF t, d, p
  <2> QED BY <1>2, <1>4, <2>1 DEF ScansTo, IsScan
<1> HIDE DEF t, p
<1>7. nextstate("DELIM", winvde_token("n", "]")) = "CHAR"
  BY DEF nextstate, winvde_token
<1>8. Scan(t, d).delims = {p + 1}
  BY <1>3, <1>5, <1>6, <1>7 DEF ScanStep
<1>9. Max({p + 1}) = p + 1
  BY <1>2 DEF Max
<1>10. t # NULL /\ p + 1 - 1 = p
  BY <1>2, TextNotNull
<1>11. strtokq_rev_r(t, d) = e
  <2>0. Max({p + 1}) - 1 = p
    <3> DEFINE m1 == Max({p + 1})
    <3>1. m1 = p + 1 /\ p \in Nat
      BY <1>2, <1>9
    <3> HIDE DEF m1
    <3>2. m1 - 1 = p
      BY <3>1
    <3> QED BY <3>2 DEF m1
  <2>1. SubSeq(t, 1, Max({p + 1}) - 1) = e
    BY <1>2, <2>0
  <2> QED BY <1>8, <1>10, <2>1 DEF strtokq_rev_r
<1>12. t = e \o b
  BY DEF t, b, Parted
<1> HIDE DEF t, b
<1> QED BY <1>1, <1>11, <1>12

\* The texts behind each of a list of texts.
FromTheEnd(f, w) ==
  /\ f \in [0 .. Len(w) -> Texts] /\ f[Len(w)] = << >>
  /\ \A i \in 1 .. Len(w) : f[i - 1] = w[i] \o f[i]

LEMMA FlatFromTheEnd ==
  ASSUME NEW w \in Seq(Texts)
  PROVE  \E f : FromTheEnd(f, w) /\ Flat(w) = f[0]
<1> DEFINE n == Len(w)
           step == [p \in (1 .. n) \X Texts |-> w[n - p[1] + 1] \o p[2]]
<1>1. n \in Nat /\ \A i \in 1 .. n : w[i] \in Texts
  BY Places
<1> HIDE DEF n
<1>2. \A i \in 1 .. n : n - i \in 0 .. n /\ n - i + 1 \in 1 .. n /\ n - (n - i + 1) = i - 1
  BY <1>1
<1>3. \A i \in 1 .. n : \A t \in Texts :
        w[n - i + 1] \o t \in Texts /\ step[<<i, t>>] = w[n - i + 1] \o t
  BY <1>1, <1>2, TextsJoined
<1>4. step \in [(1 .. n) \X Texts -> Texts]
  BY <1>3
<1> HIDE DEF step
<1> DEFINE e == << >>
<1>5. e \in Texts
  BY NoText
<1> HIDE DEF e
<1>6. PICK h \in [0 .. n -> Texts] :
        h = [i \in 0 .. n |-> IF i = 0 THEN e ELSE step[<<i, h[i - 1]>>]]
  <2>1. HasRounds(n, Texts, e, step)
    BY <1>1, <1>4, <1>5, RoundsExist
  <2> QED BY <2>1 DEF HasRounds
<1>7. h[0] = e /\ \A i \in 1 .. n : h[i] = w[n - i + 1] \o h[i - 1]
  <2>1. h[0] = e
    BY <1>1, <1>6
  <2>2. \A i \in 1 .. n : h[i] = step[<<i, h[i - 1]>>] /\ h[i - 1] \in Texts
    BY <1>1, <1>6
  <2> QED BY <1>3, <2>1, <2>2
<1> DEFINE f == [i \in 0 .. n |-> h[n - i]]
<1>8. f \in [0 .. n -> Texts] /\ f[n] = e /\ \A i \in 1 .. n : f[i - 1] = w[i] \o f[i]
  <2>1. f \in [0 .. n -> Texts]
    <3>1. \A i \in 0 .. n : n - i \in 0 .. n
      BY <1>1
    <3> QED BY <1>6, <3>1
  <2>2. f[n] = e
    BY <1>1, <1>7
  <2>3. ASSUME NEW i \in 1 .. n
        PROVE  f[i - 1] = w[i] \o f[i]
    <3> DEFINE j == n - i + 1
    <3>1. j \in 1 .. n /\ n - j + 1 = i /\ j - 1 = n - i /\ n - (i - 1) = j
          /\ i \in 0 .. n /\ i - 1 \in 0 .. n
      BY <1>1
    <3> HIDE DEF j
    <3>2. f[i - 1] = h[j] /\ f[i] = h[j - 1]
      BY <3>1
    <3> QED BY <1>7, <3>1, <3>2
  <2> QED BY <2>1, <2>2, <2>3
<1> HIDE DEF f
<1>9. PICK g : IsFlat(g, w) /\ Flat(w) = g[n]
  BY FlatByText DEF n
<1>10. g \in [0 .. n -> Texts] /\ g[0] = << >> /\ \A i \in 1 .. n : g[i] = g[i - 1] \o w[i]
  BY <1>9 DEF IsFlat, n
<1> DEFINE So == {i \in 0 .. n : g[i] \o f[i] = f[0]}
<1>11. 0 \in So
  <2>1. 0 \in 0 .. n /\ f[0] \in Texts
    BY <1>1, <1>8
  <2>2. g[0] \o f[0] = f[0]
    BY <1>10, <2>1, NoText
  <2> QED BY <2>1, <2>2
<1>12. \A i \in 1 .. n : i - 1 \in So => i \in So
  <2> TAKE i \in 1 .. n
  <2> HAVE i - 1 \in So
  <2>1. i \in 0 .. n /\ i - 1 \in 0 .. n
    BY <1>1
  <2>2. g[i - 1] \in Texts /\ w[i] \in Texts /\ f[i] \in Texts
    BY <1>1, <1>8, <1>10, <2>1
  <2>3. (g[i - 1] \o w[i]) \o f[i] = g[i - 1] \o (w[i] \o f[i])
    BY <2>2, TextsGrouped
  <2>4. g[i] = g[i - 1] \o w[i] /\ f[i - 1] = w[i] \o f[i]
    BY <1>8, <1>10
  <2> QED BY <2>1, <2>3, <2>4
<1> HIDE DEF So
<1>13. \A i \in 0 .. n : i \in So
  BY <1>1, <1>11, <1>12, UpTo
<1>14. Flat(w) = f[0]
  <2>1. n \in So /\ n \in 0 .. n
    BY <1>1, <1>13
  <2>2. g[n] \in Texts /\ f[n] = << >> /\ g[n] \o f[n] = f[0]
    BY <1>8, <1>10, <2>1 DEF So, e
  <2>3. g[n] \o << >> = g[n]
    BY <2>2, NoText
  <2> QED BY <1>9, <2>2, <2>3
<1>15. FromTheEnd(f, w)
  BY <1>8 DEF FromTheEnd, n, e
<1> QED BY <1>14, <1>15

-----------------------------------------------------------------------------
\* What stands behind each element, and the text from one element on.
IsBehind(r, list) ==
  /\ r \in [0 .. Len(list) -> Texts] /\ r[Len(list)] = << >>
  /\ \A k \in 1 .. Len(list) - 1 : r[k] = <<"/">> \o (Element(list[k + 1]) \o r[k + 1])

FromElement(list, r, k) == Element(list[k + 1]) \o r[k + 1]

LEMMA ElementIn == \A a \in Askable : Element(a) \in Texts /\ Meant(a) \in Texts
BY ElementPasses DEF Passes

\* The next element, and what is left then.
LEMMA NextCut ==
  ASSUME NEW list \in Seq(Askable), NEW r, IsBehind(r, list), NEW k \in 0 .. Len(list) - 1
  PROVE  strtokq_r(FromElement(list, r, k), "/") =
           [token |-> Meant(list[k + 1]),
            rest |-> IF k + 1 = Len(list) THEN NULL ELSE FromElement(list, r, k + 1)]
<1> DEFINE n == Len(list)
           a == list[k + 1]
           d == "/"
<1>1. n \in Nat /\ \A i \in 1 .. n : list[i] \in Askable
  BY Places
<1>2. /\ r \in [0 .. n -> Texts] /\ r[n] = << >>
      /\ \A j \in 1 .. n - 1 : r[j] = <<"/">> \o (Element(list[j + 1]) \o r[j + 1])
  BY DEF IsBehind
<1>3. k + 1 \in 1 .. n /\ (k + 1 # n => k + 1 \in 1 .. n - 1 /\ k + 1 + 1 \in 1 .. n /\ k + 1 + 1 \in 0 .. n)
  BY <1>1
<1>4. Passes(Element(a), Meant(a), d, Unquoted, Unquoted)
  BY <1>1, <1>3, ElementPasses
<1>5. FromElement(list, r, k) = Element(a) \o r[k + 1] /\ Element(a) \in Texts
  BY <1>1, <1>3, ElementIn DEF FromElement
<1> HIDE DEF n, a
<1>6. CASE k + 1 = n
  <2>1. FromElement(list, r, k) = Element(a)
    BY <1>2, <1>5, <1>6, NoText
  <2> QED BY <1>4, <1>6, <2>1, LastCut DEF a, n
<1>7. CASE k + 1 # n
  <2> DEFINE t == FromElement(list, r, k + 1)
  <2>1. t = Element(list[k + 1 + 1]) \o r[k + 1 + 1]
    BY DEF FromElement
  <2>2. r[k + 1] = <<d>> \o t
    BY <1>2, <1>3, <1>7, <2>1
  <2>3. t \in Texts
    <3>1. list[k + 1 + 1] \in Askable /\ r[k + 1 + 1] \in Texts
      BY <1>1, <1>2, <1>3, <1>7
    <3>2. Element(list[k + 1 + 1]) \in Texts
      BY <3>1, ElementIn
    <3> HIDE DEF t
    <3> QED BY <2>1, <3>1, <3>2, TextsJoined
  <2> HIDE DEF t
  <2>4. FromElement(list, r, k) = Parted(Element(a), d, t)
    BY <1>5, <2>2 DEF Parted
  <2>5. strtokq_r(FromElement(list, r, k), d) = [token |-> Meant(a), rest |-> t]
    BY <1>4, <2>3, <2>4, FirstCut
  <2> QED BY <1>7, <2>5 DEF a, t, n
<1> QED BY <1>6, <1>7

\* The name of a network is read as it stands.
LEMMA NamePasses ==
  ASSUME NEW d \in {"/", "["}
  PROVE  Passes(<<"n">>, <<"n">>, d, Unquoted, Unquoted)
<1>1. "n" \in TextChars \ {"'", "\"", "\\"} /\ "n" # d
  BY ParametersAssumption
<1> QED BY <1>1, CharPasses

LEMMA ElementsBehindName ==
  ASSUME NEW list \in Seq(Askable)
  PROVE  \E r : /\ IsBehind(r, list)
                /\ strtokq_r(<<"n">> \o Flat([i \in DOMAIN list |-> <<"/">> \o Element(list[i])]),
                             "/").rest
                     = IF Len(list) = 0 THEN NULL ELSE FromElement(list, r, 0)
<1> DEFINE n == Len(list)
           s == <<"/">>
           w == [i \in DOMAIN list |-> s \o Element(list[i])]
           m == <<"n">>
<1>1. n \in Nat /\ DOMAIN list = 1 .. n /\ \A i \in 1 .. n : list[i] \in Askable
  BY Places
<1>2. s \in Texts /\ m \in Texts /\ "/" \in TextChars
  BY ParametersAssumption, OneText
<1> HIDE DEF s, m
<1>3. w \in Seq(Texts) /\ Len(w) = n /\ \A i \in 1 .. n : w[i] = s \o Element(list[i])
  <2>1. \A i \in 1 .. n : s \o Element(list[i]) \in Texts
    BY <1>1, <1>2, ElementIn, TextsJoined
  <2> HIDE DEF n
  <2>2. w \in [1 .. n -> Texts] /\ \A i \in 1 .. n : w[i] = s \o Element(list[i])
    BY <1>1, <2>1
  <2> HIDE DEF w
  <2> QED BY <1>1, <2>2, SeqDef
<1> HIDE DEF w
<1>4. PICK r : FromTheEnd(r, w) /\ Flat(w) = r[0]
  BY <1>3, FlatFromTheEnd
<1>5. /\ r \in [0 .. n -> Texts] /\ r[n] = << >>
      /\ \A i \in 1 .. n : r[i - 1] = (s \o Element(list[i])) \o r[i]
  BY <1>3, <1>4 DEF FromTheEnd
<1> HIDE DEF n
<1>6. \A i \in 1 .. n : r[i - 1] = s \o (Element(list[i]) \o r[i]) /\ Element(list[i]) \o r[i] \in Texts
  <2> TAKE i \in 1 .. n
  <2>1. Element(list[i]) \in Texts /\ r[i] \in Texts
    <3>1. i \in 0 .. n
      BY <1>1
    <3> QED BY <1>1, <1>5, <3>1, ElementIn
  <2>2. (s \o Element(list[i])) \o r[i] = s \o (Element(list[i]) \o r[i])
    BY <1>2, <2>1, TextsGrouped
  <2> QED BY <1>5, <2>1, <2>2, TextsJoined
<1>7. IsBehind(r, list)
  <2>1. \A k \in 1 .. n - 1 : r[k] = s \o (Element(list[k + 1]) \o r[k + 1])
    <3> TAKE k \in 1 .. n - 1
    <3> DEFINE j == k + 1
    <3>1. j \in 1 .. n /\ j - 1 = k
      BY <1>1
    <3> HIDE DEF j
    <3>2. r[j - 1] = s \o (Element(list[j]) \o r[j])
      BY <1>6, <3>1
    <3>3. r[k] = s \o (Element(list[j]) \o r[j])
      BY <3>1, <3>2
    <3> QED BY <3>3 DEF j
  <2> QED BY <1>5, <2>1 DEF IsBehind, n, s
<1> DEFINE t == m \o Flat(w)
<1>8. strtokq_r(t, "/").rest = IF n = 0 THEN NULL ELSE FromElement(list, r, 0)
  <2>0. Passes(m, m, "/", Unquoted, Unquoted)
    BY NamePasses DEF m
  <2>1. CASE n = 0
    <3>1. t = m
      BY <1>2, <1>4, <1>5, <2>1, NoText
    <3> HIDE DEF t
    <3>2. strtokq_r(t, "/") = [token |-> m, rest |-> NULL]
      BY <2>0, <3>1, LastCut
    <3> QED BY <2>1, <3>2
  <2>2. CASE n # 0
    <3> DEFINE o == FromElement(list, r, 0)
    <3>1. o = Element(list[0 + 1]) \o r[0 + 1]
      BY DEF FromElement
    <3> HIDE DEF o
    <3>2. 1 \in 1 .. n /\ 1 - 1 = 0 /\ 0 + 1 = 1
      BY <1>1, <2>2
    <3>3. r[0] = s \o o /\ o \in Texts
      BY <1>6, <3>1, <3>2
    <3>4. t = Parted(m, "/", o)
      BY <1>4, <3>3 DEF Parted, s
    <3> HIDE DEF t
    <3>5. strtokq_r(t, "/") = [token |-> m, rest |-> o]
      BY <2>0, <3>3, <3>4, FirstCut
    <3> QED BY <2>2, <3>5 DEF o
  <2> QED BY <2>1, <2>2
<1> QED BY <1>7, <1>8 DEF t, m, w, s, n

\* A text in brackets.
LEMMA ElementsInBrackets ==
  ASSUME NEW list \in Seq(Askable)
  PROVE  \E r : /\ IsBehind(r, list)
                /\ LET inside == Flat([i \in DOMAIN list |->
                                        (IF i = 1 THEN << >> ELSE <<"/">>) \o Element(list[i])])
                   IN strtokq_rev_r(
                        strtokq_r(<<"n", "[">> \o inside \o <<"]", "n">>, "[").rest, "]")
                        = IF Len(list) = 0 THEN << >> ELSE FromElement(list, r, 0)
<1> DEFINE n == Len(list)
           s(i) == IF i = 1 THEN << >> ELSE <<"/">>
           w == [i \in DOMAIN list |-> s(i) \o Element(list[i])]
           inside == Flat(w)
<1>1. n \in Nat /\ DOMAIN list = 1 .. n /\ \A i \in 1 .. n : list[i] \in Askable
  BY Places
<1>2. /\ \A i \in 1 .. n : s(i) \in Texts
      /\ \A i \in 1 .. n : Passes(s(i), s(i), "]", Unquoted, Unquoted)
  <2>1. "/" \in TextChars \ {"'", "\"", "\\"} /\ "/" # "]"
    BY ParametersAssumption
  <2>2. Passes(<<"/">>, <<"/">>, "]", Unquoted, Unquoted)
    BY <2>1, CharPasses
  <2>3. Passes(<< >>, << >>, "]", Unquoted, Unquoted)
    BY PassesNothing DEF Within
  <2>4. \A i \in 1 .. n : Passes(s(i), s(i), "]", Unquoted, Unquoted)
    <3> TAKE i \in 1 .. n
    <3>1. CASE i = 1
      BY <2>3, <3>1
    <3>2. CASE i # 1
      BY <2>2, <3>2
    <3> QED BY <3>1, <3>2
  <2> HIDE DEF s, n
  <2> QED BY <2>4 DEF Passes
<1>3. s(1) = << >> /\ \A i \in 1 .. n : i # 1 => s(i) = <<"/">>
  OBVIOUS
<1> HIDE DEF s
<1>4. w \in Seq(Texts) /\ Len(w) = n /\ \A i \in 1 .. n : w[i] = s(i) \o Element(list[i])
  <2>1. \A i \in 1 .. n : s(i) \o Element(list[i]) \in Texts
    BY <1>1, <1>2, ElementIn, TextsJoined
  <2> HIDE DEF n
  <2>2. w \in [1 .. n -> Texts] /\ \A i \in 1 .. n : w[i] = s(i) \o Element(list[i])
    BY <1>1, <2>1
  <2> HIDE DEF w
  <2> QED BY <1>1, <2>2, SeqDef
<1> HIDE DEF w
<1>5. PICK f : FromTheEnd(f, w) /\ Flat(w) = f[0]
  BY <1>4, FlatFromTheEnd
<1>6. /\ f \in [0 .. n -> Texts] /\ f[n] = << >>
      /\ \A i \in 1 .. n : f[i - 1] = (s(i) \o Element(list[i])) \o f[i]
  BY <1>4, <1>5 DEF FromTheEnd
<1>7. \E u : Passes(inside, u, "]", Unquoted, Unquoted)
  <2>1. ASSUME NEW i \in 1 .. n
        PROVE  \E u : Passes(w[i], u, "]", Unquoted, Unquoted)
    <3>1. Passes(s(i), s(i), "]", Unquoted, Unquoted)
      BY <1>2
    <3>2. Passes(Element(list[i]), Meant(list[i]), "]", Unquoted, Unquoted)
      BY <1>1, ElementPasses
    <3>3. Passes(s(i) \o Element(list[i]), s(i) \o Meant(list[i]), "]", Unquoted, Unquoted)
      BY <3>1, <3>2, PassesJoined
    <3> QED BY <1>4, <3>3
  <2>2. Unquoted \subseteq Within
    BY DEF Within
  <2> HIDE DEF n
  <2> QED BY <1>4, <2>1, <2>2, PassesFlatly
<1> HIDE DEF n, inside
<1>8. \A i \in 1 .. n : /\ Element(list[i]) \in Texts /\ f[i] \in Texts
                        /\ f[i - 1] = s(i) \o (Element(list[i]) \o f[i])
  <2> TAKE i \in 1 .. n
  <2>1. Element(list[i]) \in Texts /\ f[i] \in Texts
    <3>1. i \in 0 .. n
      BY <1>1
    <3> QED BY <1>1, <1>6, <3>1, ElementIn
  <2>2. (s(i) \o Element(list[i])) \o f[i] = s(i) \o (Element(list[i]) \o f[i])
    BY <1>2, <2>1, TextsGrouped
  <2> QED BY <1>6, <2>1, <2>2
<1>9. IsBehind(f, list)
  <2>1. ASSUME NEW k \in 1 .. n - 1
        PROVE  f[k] = <<"/">> \o (Element(list[k + 1]) \o f[k + 1])
    <3> DEFINE j == k + 1
    <3>1. j \in 1 .. n /\ j - 1 = k /\ j # 1
      BY <1>1
    <3> HIDE DEF j
    <3>2. f[j - 1] = s(j) \o (Element(list[j]) \o f[j]) /\ s(j) = <<"/">>
      BY <1>3, <1>8, <3>1
    <3>3. f[k] = <<"/">> \o (Element(list[j]) \o f[j])
      BY <3>1, <3>2
    <3> QED BY <3>3 DEF j
  <2> QED BY <1>6, <2>1 DEF IsBehind, n
<1>10. inside = IF n = 0 THEN << >> ELSE FromElement(list, f, 0)
  <2>1. CASE n = 0
    BY <1>5, <1>6, <2>1 DEF inside
  <2>2. CASE n # 0
    <3>1. 1 \in 1 .. n /\ 1 - 1 = 0 /\ 0 + 1 = 1
      BY <1>1, <2>2
    <3> DEFINE o == Element(list[1]) \o f[1]
               e == s(1)
    <3>2. o \in Texts /\ f[1 - 1] = e \o o /\ e = << >>
      BY <1>3, <1>8, <3>1, TextsJoined
    <3> HIDE DEF o, e
    <3>3. e \o o = o
      BY <3>2, NoText
    <3>4. inside = o
      BY <1>5, <3>1, <3>2, <3>3 DEF inside
    <3>5. FromElement(list, f, 0) = o
      BY <3>1 DEF FromElement, o
    <3> QED BY <2>2, <3>4, <3>5
  <2> QED BY <2>1, <2>2
<1> DEFINE b == <<"]", "n">>
           t == inside \o b
           m == <<"n">>
           o == <<"[">>
           c == <<"n", "[">>
<1>11. inside \in Texts
  BY <1>7 DEF Passes
<1>12. b \in Texts /\ m \in Texts /\ o \in Texts /\ c = m \o o
  <2>1. {"]", "n", "["} \subseteq TextChars
    BY ParametersAssumption
  <2>2. b \in Texts
    BY <2>1 DEF Texts
  <2>3. m \in Texts /\ o \in Texts
    BY <2>1 DEF Texts
  <2>4. c = m \o o
    OBVIOUS
  <2> QED BY <2>2, <2>3, <2>4
<1> HIDE DEF b, m, o, c
<1>13. (c \o inside) \o b = Parted(m, "[", t) /\ t \in Texts
  <2>1. c \in Texts /\ t \in Texts
    BY <1>11, <1>12, TextsJoined
  <2>2. (c \o inside) \o b = c \o t
    <3> HIDE DEF t
    <3>1. t = inside \o b
      BY DEF t
    <3>2. c \in Texts /\ inside \in Texts /\ b \in Texts
      BY <1>11, <1>12, <2>1
    <3>3. (c \o inside) \o b = c \o (inside \o b)
      BY <3>2, TextsGrouped
    <3> QED BY <3>1, <3>3
  <2> HIDE DEF t
  <2>3. (m \o o) \o t = m \o (o \o t)
    BY <1>12, <2>1, TextsGrouped, SMTT(30)
  <2> QED BY <1>12, <2>1, <2>2, <2>3 DEF Parted, o
<1>14. strtokq_r((c \o inside) \o b, "[") = [token |-> m, rest |-> t]
  <2>1. Passes(m, m, "[", Unquoted, Unquoted)
    BY NamePasses DEF m
  <2> HIDE DEF t
  <2>2. strtokq_r(Parted(m, "[", t), "[") = [token |-> m, rest |-> t]
    BY <1>13, <2>1, FirstCut
  <2> QED BY <1>13, <2>2
<1>15. strtokq_rev_r(t, "]") = inside
  BY <1>7, BracketCut DEF b
<1>16. strtokq_rev_r(strtokq_r((c \o inside) \o b, "[").rest, "]") = inside
  <2> HIDE DEF t
  <2> QED BY <1>14, <1>15
<1> DEFINE z == strtokq_rev_r(strtokq_r((c \o inside) \o b, "[").rest, "]")
<1>17. z = IF n = 0 THEN << >> ELSE FromElement(list, f, 0)
  BY <1>10, <1>16
<1> HIDE DEF z
<1>18. IsBehind(f, list) /\ z = IF Len(list) = 0 THEN << >> ELSE FromElement(list, f, 0)
  BY <1>9, <1>17 DEF n
<1> QED BY <1>18 DEF z, c, inside, w, s, b

-----------------------------------------------------------------------------
\* Where the first "=" of an element is.
LEMMA ElementRead ==
  ASSUME NEW a \in Askable
  PROVE  LET elem == Meant(a)
             eq == SelectInSeq(elem, LAMBDA c : c = "=")
         IN /\ elem # NULL
            /\ (eq = 0 <=> a.quote = "none")
            /\ (IF eq = 0 THEN elem ELSE SubSeq(elem, 1, eq - 1)) = a.tag
            /\ (IF eq = 0 THEN << >> ELSE SubSeq(elem, eq + 1, Len(elem))) = a.value
<1> DEFINE m == Meant(a)
           g == a.tag
           v == a.value
           p == Len(g)
           n == Len(m)
           I == {i \in 1 .. n : m[i] = "="}
           eq == SelectInSeq(m, LAMBDA c : c = "=")
<1>1. /\ g \in Texts /\ v \in Texts /\ \A i \in 1 .. p : g[i] # "="
      /\ a.quote = "none" => v = << >>
  BY AskableFacts
<1>2. eq = IF I # {} THEN Min(I) ELSE 0
  BY DEF SelectInSeq
<1>3. m \in Texts /\ m # NULL /\ n \in Nat /\ p \in Nat
  <2>1. m \in Texts
    BY ElementIn
  <2> HIDE DEF m, g
  <2> QED BY <1>1, <2>1, TextNotNull, FirstOnes
<1>4. CASE a.quote = "none"
  <2>1. m = g
    <3> DEFINE e == << >>
    <3>1. m = g \o (e \o v) /\ v = e /\ e \in Texts
      BY <1>1, <1>4, NoText DEF Meant
    <3> HIDE DEF e, m, g, v
    <3>2. e \o v = e /\ g \o e = g
      BY <1>1, <3>1, NoText DEF e
    <3> QED BY <3>1, <3>2
  <2> HIDE DEF m, g, eq
  <2>2. I = {}
    BY <1>1, <2>1
  <2>3. eq = 0
    BY <1>2, <2>2
  <2>4. v = << >>
    BY <1>1, <1>4
  <2> HIDE DEF v
  <2>5. /\ m # NULL /\ (eq = 0 <=> a.quote = "none")
        /\ (IF eq = 0 THEN m ELSE SubSeq(m, 1, eq - 1)) = g
        /\ (IF eq = 0 THEN << >> ELSE SubSeq(m, eq + 1, Len(m))) = v
    BY <1>3, <1>4, <2>1, <2>3, <2>4
  <2> QED BY <2>5 DEF m, g, v, eq
<1>5. CASE a.quote # "none"
  <2>1. m = Parted(g, "=", v)
    BY <1>5 DEF Meant, Parted
  <2>2. "=" \in TextChars
    BY ParametersAssumption
  <2> HIDE DEF m, g, v, eq
  <2>3. /\ n = p + 1 + Len(v) /\ m[p + 1] = "=" /\ SubSeq(m, p + 1 + 1, n) = v
        /\ SubSeq(m, 1, p) = g /\ Len(v) \in Nat
    <3>1. Len(v) \in Nat
      BY <1>1, FirstOnes
    <3>2. Len(m) = Len(g) + 1 + Len(v) /\ m[Len(g) + 1] = "="
      BY <1>1, <2>1, <2>2, TextBehind
    <3>3. SubSeq(m, Len(g) + 1 + 1, Len(m)) = v /\ SubSeq(m, 1, Len(g)) = g
      <4> DEFINE t == Parted(g, "=", v)
      <4>1. SubSeq(t, Len(g) + 1 + 1, Len(t)) = v /\ SubSeq(t, 1, Len(g)) = g
        BY <1>1, <2>2, TextBehind
      <4> HIDE DEF t
      <4>2. m = t
        BY <2>1 DEF t
      <4> QED BY <4>1, <4>2
    <3> QED BY <3>1, <3>2, <3>3
  <2>4. \A i \in 1 .. p : m[i] = g[i]
    <3> DEFINE o == <<"=">> \o v
    <3>1. o \in Texts
      BY <1>1, <2>2, OneText, TextsJoined
    <3>2. m = g \o o
      BY <2>1 DEF Parted
    <3> HIDE DEF o
    <3> QED BY <1>1, <3>1, <3>2, TextsJoined
  <2> HIDE DEF n, p
  <2>5. p + 1 \in I /\ \A i \in I : p + 1 <= i
    <3>1. p + 1 \in 1 .. n
      BY <1>3, <2>3
    <3>2. \A i \in 1 .. n : ~(p + 1 <= i) => i \in 1 .. p
      BY <1>3
    <3> QED BY <1>1, <2>3, <2>4, <3>1, <3>2
  <2>6. I \subseteq 1 .. n
    OBVIOUS
  <2> HIDE DEF I
  <2>7. Min(I) \in I /\ Min(I) <= p + 1 /\ Min(I) \in Nat
    <3>1. I # {} /\ p + 1 \in I
      BY <2>5
    <3>2. Min(I) \in I /\ Min(I) <= p + 1
      BY <1>3, <2>6, <3>1, LeastPlace
    <3>3. Min(I) \in 1 .. n
      BY <2>6, <3>2
    <3>4. Min(I) \in Nat
      BY <1>3, <3>3
    <3> QED BY <3>2, <3>4
  <2>8. eq = p + 1
    BY <1>2, <1>3, <2>5, <2>7
  <2>9. eq # 0 /\ eq - 1 = p /\ SubSeq(m, eq + 1, Len(m)) = v
    BY <1>3, <2>3, <2>8 DEF n
  <2>10. /\ m # NULL /\ (eq = 0 <=> a.quote = "none")
         /\ (IF eq = 0 THEN m ELSE SubSeq(m, 1, eq - 1)) = g
         /\ (IF eq = 0 THEN << >> ELSE SubSeq(m, eq + 1, Len(m))) = v
    BY <1>3, <1>5, <2>3, <2>9
  <2> QED BY <2>10 DEF m, g, v, eq
<1> QED BY <1>4, <1>5

-----------------------------------------------------------------------------
(* The invariant: k elements are read.                                     *)

\* What is left to read.
Left(k) ==
  \E r : /\ IsBehind(r, requested)
         /\ IF k = Len(requested) THEN saveptr = NULL \/ (k = 0 /\ saveptr = << >>)
            ELSE saveptr = FromElement(requested, r, k)

\* The values the first k elements give.
GivenUpTo(k) ==
  /\ \A j \in Unknown : j <= k => NameAllowed(j)
  /\ \A i \in DOMAIN Tags :
       \/ values[i] = Unset /\ \A j \in GivenTo(i) : ~(j <= k)
       \/ \E last \in GivenTo(i) :
            /\ last <= k /\ \A j \in GivenTo(i) : j <= k => j <= last
            /\ values[i] = ArrivesAs(requested[last])

ParamInv ==
  /\ requested \in Seq(Askable) /\ ParamTypeOK
  /\ values = [i \in DOMAIN Tags |-> values[i]]
  /\ parsing = "idle" => values = [i \in DOMAIN Tags |-> Unset] /\ inPath = FALSE
  /\ parsing = "running" => \E k \in 0 .. Len(requested) : Left(k) /\ GivenUpTo(k)
  /\ parsing = "done" => GivenUpTo(Len(requested))
  /\ parsing = "failed" => \E k \in Unknown : ~NameAllowed(k)

LEMMA AskingsIn ==
  ASSUME NEW list \in Askings
  PROVE  list \in Seq(Askable)
<1>1. MaxElements \in Nat
  BY ParametersAssumption
<1>2. PICK m \in 0 .. MaxElements : list \in [1 .. m -> Askable]
  BY <1>1 DEF Askings, BoundedSeq, SeqOf
<1> QED BY <1>1, <1>2, SeqDef

LEMMA TagForIn ==
  ASSUME NEW tag
  PROVE  TagFor(tag) \in 0 .. Len(Tags) /\ DOMAIN Tags = 1 .. Len(Tags) /\ Len(Tags) \in Nat
<1>1. DOMAIN Tags = 1 .. Len(Tags) /\ Len(Tags) \in Nat
  BY ParametersAssumption, Places
<1> DEFINE I == {i \in 1 .. Len(Tags) : IsPrefix(tag, Tags[i])}
<1>2. TagFor(tag) = IF I # {} THEN Min(I) ELSE 0
  BY DEF TagFor, SelectInSeq
<1>3. I \subseteq 1 .. Len(Tags)
  OBVIOUS
<1> HIDE DEF I
<1> QED BY <1>1, <1>2, <1>3, LeastPlace

LEMMA ParamStarts == ParamInit => ParamInv
<1> SUFFICES ASSUME ParamInit
             PROVE  ParamInv
  OBVIOUS
<1>1. << >> \in Seq(Askable)
  BY EmptySeq
<1> QED BY <1>1 DEF ParamInit, ParamInv, ParamTypeOK

\* Nothing is given yet.
LEMMA NothingGiven ==
  ASSUME requested' \in Seq(Askable), values' = [i \in DOMAIN Tags |-> Unset]
  PROVE  GivenUpTo(0)'
<1>1. DOMAIN requested' = 1 .. Len(requested') /\ Len(requested') \in Nat
  BY Places
<1>2. \A i : \A j \in GivenFor(i)' : ~(j <= 0)
  BY <1>1 DEF GivenFor
<1>3. \A i : \A j \in GivenTo(i)' : ~(j <= 0)
  BY <1>2 DEF GivenTo, Unknown
<1>4. \A j \in Unknown' : ~(j <= 0)
  BY <1>2 DEF Unknown
<1> QED BY <1>3, <1>4 DEF GivenUpTo

LEMMA ParametersKeepsInv ==
  ASSUME ParamInv, NEW list \in Askings, Parameters(list)
  PROVE  ParamInv'
<1>1. /\ parsing = "idle" /\ parsing' = "running" /\ requested' = list
      /\ saveptr' = strtokq_r(<<"n">> \o Flat([i \in DOMAIN list |-> <<"/">> \o Element(list[i])]),
                              "/").rest
      /\ inPath' = inPath /\ values' = values
  BY DEF Parameters
<1>2. list \in Seq(Askable) /\ Len(list) \in Nat
  BY AskingsIn, Places
<1>3. values' = [i \in DOMAIN Tags |-> Unset] /\ inPath' \in BOOLEAN
  BY <1>1 DEF ParamInv, ParamTypeOK
<1>4. PICK r : /\ IsBehind(r, list)
               /\ saveptr' = IF Len(list) = 0 THEN NULL ELSE FromElement(list, r, 0)
  BY <1>1, <1>2, ElementsBehindName
<1>5. Left(0)'
  BY <1>1, <1>4 DEF Left
<1>6. GivenUpTo(0)'
  BY <1>1, <1>2, <1>3, NothingGiven
<1>7. 0 \in 0 .. Len(requested')
  BY <1>1, <1>2
<1>8. ParamTypeOK' /\ values' = [i \in DOMAIN Tags |-> values'[i]]
  BY <1>1, <1>3 DEF ParamTypeOK
<1> QED BY <1>1, <1>2, <1>5, <1>6, <1>7, <1>8 DEF ParamInv

LEMMA PathKeepsInv ==
  ASSUME ParamInv, NEW list \in Askings, PathParameters(list)
  PROVE  ParamInv'
<1>1. /\ parsing = "idle" /\ parsing' = "running" /\ requested' = list /\ inPath' = TRUE
      /\ LET inside == Flat([i \in DOMAIN list |->
                              (IF i = 1 THEN << >> ELSE <<"/">>) \o Element(list[i])])
         IN saveptr' = strtokq_rev_r(
                         strtokq_r(<<"n", "[">> \o inside \o <<"]", "n">>, "[").rest, "]")
      /\ values' = values
  BY DEF PathParameters
<1>2. list \in Seq(Askable) /\ Len(list) \in Nat
  BY AskingsIn, Places
<1>3. values' = [i \in DOMAIN Tags |-> Unset] /\ inPath' \in BOOLEAN
  BY <1>1 DEF ParamInv, ParamTypeOK
<1>4. PICK r : /\ IsBehind(r, list)
               /\ saveptr' = IF Len(list) = 0 THEN << >> ELSE FromElement(list, r, 0)
  BY <1>1, <1>2, ElementsInBrackets
<1>5. Left(0)'
  BY <1>1, <1>4 DEF Left
<1>6. GivenUpTo(0)'
  BY <1>1, <1>2, <1>3, NothingGiven
<1>7. 0 \in 0 .. Len(requested')
  BY <1>1, <1>2
<1>8. ParamTypeOK' /\ values' = [i \in DOMAIN Tags |-> values'[i]]
  BY <1>1, <1>3 DEF ParamTypeOK
<1> QED BY <1>1, <1>2, <1>5, <1>6, <1>7, <1>8 DEF ParamInv

\* One more element, and what the loop makes of it.
LEMMA OneElementMore ==
  ASSUME requested \in Seq(Askable), NEW k \in 0 .. Len(requested) - 1, GivenUpTo(k),
         requested' = requested, inPath' = inPath, DOMAIN values = DOMAIN Tags,
         NEW a, a = requested[k + 1],
         \/ a.tag = << >> /\ values' = values
         \/ /\ a.tag # << >> /\ TagFor(a.tag) # 0
            /\ values' = [values EXCEPT ![TagFor(a.tag)] = a.value]
         \/ /\ a.tag # << >> /\ TagFor(a.tag) = 0 /\ NameAllowed(k + 1)
            /\ values' = [values EXCEPT ![1] = a.tag]
  PROVE  GivenUpTo(k + 1)'
<1> DEFINE n == Len(requested)
           t == TagFor(a.tag)
           one == k + 1
<1>1. n \in Nat /\ DOMAIN requested = 1 .. n /\ one \in 1 .. n /\ k \in Nat
  BY Places
<1>2. /\ \A i : GivenFor(i)' = GivenFor(i) /\ GivenTo(i)' = GivenTo(i)
      /\ Unknown' = Unknown /\ \A j : NameAllowed(j)' = NameAllowed(j)
  BY DEF GivenFor, GivenTo, Unknown, NameAllowed
<1>3. \A i : one \in GivenFor(i) <=> a.tag # << >> /\ t = i
  BY <1>1 DEF GivenFor, EmptyTag
<1>4. \A j : j \in Unknown => j \in 1 .. n
  BY <1>1 DEF Unknown, GivenFor
<1>5. \A i : \A j \in GivenTo(i) : j \in 1 .. n
  BY <1>1 DEF GivenTo, Unknown, GivenFor
<1>6. \A j \in 1 .. n : j <= one <=> j <= k \/ j = one
  BY <1>1
<1>7. one \in Unknown => NameAllowed(one)
  <2>1. one \in Unknown => a.tag # << >> /\ t = 0
    BY <1>3 DEF Unknown
  <2> QED BY <2>1
<1>8. \A j \in Unknown : j <= one => NameAllowed(j)
  BY <1>4, <1>6, <1>7 DEF GivenUpTo
<1>9. t \in 0 .. Len(Tags) /\ DOMAIN Tags = 1 .. Len(Tags) /\ Len(Tags) \in Nat
  BY TagForIn
<1> HIDE DEF n, t, one
<1> DEFINE At(i, m) == \/ values[i] = Unset /\ \A j \in GivenTo(i) : ~(j <= m)
                       \/ \E last \in GivenTo(i) :
                            /\ last <= m /\ \A j \in GivenTo(i) : j <= m => j <= last
                            /\ values[i] = ArrivesAs(requested[last])
<1>10. \A i \in DOMAIN Tags : At(i, k)
  BY DEF GivenUpTo
<1>11. ASSUME NEW i \in DOMAIN Tags
       PROVE  \/ values'[i] = Unset /\ \A j \in GivenTo(i) : ~(j <= one)
              \/ \E last \in GivenTo(i) :
                   /\ last <= one /\ \A j \in GivenTo(i) : j <= one => j <= last
                   /\ values'[i] = ArrivesAs(requested[last])
  <2>1. CASE one \notin GivenTo(i)
    <3>1. values'[i] = values[i]
      <4>1. CASE a.tag = << >>
        BY <4>1
      <4>2. CASE a.tag # << >> /\ t # 0
        <5>1. i # t
          BY <1>3, <2>1, <4>2 DEF GivenTo
        <5> QED BY <4>2, <5>1 DEF t
      <4>3. CASE a.tag # << >> /\ t = 0
        <5>1. i # 1
          BY <1>3, <2>1, <4>3 DEF GivenTo, Unknown
        <5> QED BY <4>3, <5>1 DEF t
      <4> QED BY <4>1, <4>2, <4>3
    <3>2. \A j \in GivenTo(i) : j <= one <=> j <= k
      BY <1>5, <1>6, <2>1
    <3>3. At(i, k)
      BY <1>10
    <3> QED BY <3>1, <3>2, <3>3
  <2>2. CASE one \in GivenTo(i)
    <3>1. \A j \in GivenTo(i) : j <= one => j <= one
      OBVIOUS
    <3>2. one <= one
      BY <1>1
    <3>3. a.tag # << >> /\ (t = i \/ (t = 0 /\ i = 1))
      BY <1>3, <2>2 DEF GivenTo, Unknown
    <3>4. i # 0
      BY <1>9
    <3>5. values'[i] = ArrivesAs(a)
      <4>1. CASE t = i
        <5>1. values' = [values EXCEPT ![t] = a.value]
          BY <3>3, <3>4, <4>1 DEF t
        <5> QED BY <3>4, <4>1, <5>1 DEF ArrivesAs, t
      <4>2. CASE t = 0 /\ i = 1
        <5>1. values' = [values EXCEPT ![1] = a.tag]
          BY <3>3, <4>2 DEF t
        <5> QED BY <4>2, <5>1 DEF ArrivesAs, t
      <4> QED BY <3>3, <4>1, <4>2
    <3>6. a = requested[one]
      BY DEF one
    <3> QED BY <2>2, <3>1, <3>2, <3>5, <3>6
  <2> QED BY <2>1, <2>2
<1> QED BY <1>2, <1>8, <1>11 DEF GivenUpTo, one

LEMMA ParseKeepsInv ==
  ASSUME ParamInv, ParseElement
  PROVE  ParamInv'
<1> DEFINE n == Len(requested)
<1>1. /\ requested \in Seq(Askable) /\ n \in Nat /\ parsing = "running"
      /\ requested' = requested /\ inPath' = inPath /\ inPath \in BOOLEAN
      /\ DOMAIN values = DOMAIN Tags /\ values = [i \in DOMAIN Tags |-> values[i]]
  BY Places DEF ParamInv, ParamTypeOK, ParseElement
<1>2. PICK k \in 0 .. n : Left(k) /\ GivenUpTo(k)
  BY <1>1 DEF ParamInv
<1>3. PICK r : /\ IsBehind(r, requested)
               /\ IF k = n THEN saveptr = NULL \/ (k = 0 /\ saveptr = << >>)
                  ELSE saveptr = FromElement(requested, r, k)
  BY <1>2 DEF Left
<1>4. /\ \A i : GivenFor(i)' = GivenFor(i) /\ GivenTo(i)' = GivenTo(i)
      /\ Unknown' = Unknown /\ \A j : NameAllowed(j)' = NameAllowed(j)
  BY <1>1 DEF GivenFor, GivenTo, Unknown, NameAllowed
<1> DEFINE next == strtokq_r(saveptr, "/")
           elem == next.token
           eq == SelectInSeq(elem, LAMBDA c : c = "=")
           tag == IF eq = 0 THEN elem ELSE SubSeq(elem, 1, eq - 1)
           value == IF eq = 0 THEN << >> ELSE SubSeq(elem, eq + 1, Len(elem))
           byName == inPath /\ eq = 0 /\ Tags # << >> /\ Tags[1] = EmptyTag
<1>5. IF elem = NULL
      THEN parsing' = "done" /\ saveptr' = saveptr /\ values' = values
      ELSE /\ saveptr' = next.rest
           /\ CASE tag = << >> -> values' = values /\ parsing' = parsing
                [] tag # << >> /\ TagFor(tag) # 0 ->
                     values' = [values EXCEPT ![TagFor(tag)] = value] /\ parsing' = parsing
                [] tag # << >> /\ TagFor(tag) = 0 /\ byName ->
                     values' = [values EXCEPT ![1] = elem] /\ parsing' = parsing
                [] OTHER -> parsing' = "failed" /\ values' = values
  BY DEF ParseElement
<1>6. CASE saveptr = NULL
  <2>1. elem = NULL
    BY <1>6 DEF strtokq_r
  <2>2. k = n
    <3> SUFFICES ASSUME k # n
                 PROVE  FALSE
      OBVIOUS
    <3>1. k \in 0 .. n - 1 /\ k + 1 \in 1 .. n /\ k + 1 \in 0 .. n
      BY <1>1
    <3>2. requested[k + 1] \in Askable /\ r[k + 1] \in Texts
      BY <1>1, <1>3, <3>1, Places DEF IsBehind
    <3>3. FromElement(requested, r, k) \in Texts
      BY <3>2, ElementIn, TextsJoined DEF FromElement
    <3> QED BY <1>3, <1>6, <3>3, TextNotNull
  <2>3. parsing' = "done" /\ values' = values
    BY <1>5, <2>1
  <2>4. GivenUpTo(n)'
    BY <1>2, <1>4, <2>2, <2>3, <1>1 DEF GivenUpTo
  <2> QED BY <1>1, <2>3, <2>4 DEF ParamInv, ParamTypeOK
<1>7. CASE saveptr # NULL /\ k = n
  <2>1. saveptr = << >> /\ k = 0
    BY <1>3, <1>7
  <2>2. next = [token |-> << >>, rest |-> NULL]
    <3>1. Passes(<< >>, << >>, "/", Unquoted, Unquoted)
      BY PassesNothing DEF Within
    <3> QED BY <2>1, <3>1, LastCut
  <2>3. elem = << >> /\ elem # NULL
    BY <2>2, NoText, TextNotNull
  <2>4. eq = 0
    BY <2>3 DEF SelectInSeq
  <2>5. saveptr' = NULL /\ values' = values /\ parsing' = "running"
    <3>1. tag = << >>
      BY <2>3, <2>4
    <3> HIDE DEF tag, elem, value, byName, eq
    <3> QED BY <1>1, <1>5, <2>2, <2>3, <3>1
  <2>6. Left(k)'
    BY <1>1, <1>3, <1>7, <2>5 DEF Left
  <2>7. GivenUpTo(k)'
    BY <1>2, <1>4, <2>5, <1>1 DEF GivenUpTo
  <2> QED BY <1>1, <2>5, <2>6, <2>7 DEF ParamInv, ParamTypeOK
<1>8. CASE k # n
  <2> DEFINE a == requested[k + 1]
  <2>1. k \in 0 .. n - 1 /\ k + 1 \in 1 .. n /\ k + 1 \in 0 .. n
    BY <1>1, <1>8
  <2>2. a \in Askable
    BY <1>1, <2>1, Places
  <2>3. next = [token |-> Meant(a),
                rest |-> IF k + 1 = n THEN NULL ELSE FromElement(requested, r, k + 1)]
    BY <1>1, <1>3, <1>8, <2>1, NextCut
  <2>4. /\ elem = Meant(a) /\ elem # NULL /\ tag = a.tag /\ value = a.value
        /\ (eq = 0 <=> a.quote = "none")
    <3>1. elem = Meant(a)
      BY <2>3
    <3> HIDE DEF next, elem, a
    <3> QED BY <2>2, <3>1, ElementRead
  <2>5. byName <=> NameAllowed(k + 1)
    BY <2>4 DEF NameAllowed
  <2>6. saveptr' = IF k + 1 = n THEN NULL ELSE FromElement(requested, r, k + 1)
    <3> HIDE DEF elem, tag, value, byName
    <3> QED BY <1>5, <2>3, <2>4
  <2>7. eq = 0 => elem = a.tag
    BY <2>4
  <2> HIDE DEF elem, tag, value, eq, next
  <2>8. CASE parsing' = "running"
    <3>1. \/ a.tag = << >> /\ values' = values
          \/ /\ a.tag # << >> /\ TagFor(a.tag) # 0
             /\ values' = [values EXCEPT ![TagFor(a.tag)] = a.value]
          \/ /\ a.tag # << >> /\ TagFor(a.tag) = 0 /\ NameAllowed(k + 1)
             /\ values' = [values EXCEPT ![1] = a.tag]
      BY <1>5, <2>4, <2>5, <2>7, <2>8
    <3>2. GivenUpTo(k + 1)'
      BY <1>1, <1>2, <2>1, <3>1, OneElementMore
    <3>3. Left(k + 1)'
      BY <1>1, <1>3, <2>6 DEF Left
    <3>4. ParamTypeOK' /\ values' = [i \in DOMAIN Tags |-> values'[i]]
      BY <1>1, <2>8, <3>1 DEF ParamTypeOK
    <3> QED BY <1>1, <2>1, <2>8, <3>2, <3>3, <3>4 DEF ParamInv
  <2>9. CASE parsing' # "running"
    <3>1. parsing' = "failed" /\ values' = values /\ a.tag # << >> /\ TagFor(a.tag) = 0 /\ ~NameAllowed(k + 1)
      BY <1>1, <1>5, <2>4, <2>5, <2>9
    <3>2. k + 1 \in Unknown
      <4>1. k + 1 \in DOMAIN requested
        BY <1>1, <2>1, Places
      <4> QED BY <3>1, <4>1 DEF Unknown, GivenFor, EmptyTag
    <3>3. \E j \in Unknown' : ~NameAllowed(j)'
      BY <1>4, <3>1, <3>2
    <3> QED BY <1>1, <3>1, <3>3 DEF ParamInv, ParamTypeOK
  <2> QED BY <2>8, <2>9
<1> QED BY <1>6, <1>7, <1>8

LEMMA ParamStepKeepsInv == ParamInv /\ [ParamNext]_paramVars => ParamInv'
<1> SUFFICES ASSUME ParamInv, [ParamNext]_paramVars
             PROVE  ParamInv'
  OBVIOUS
<1>1. ASSUME NEW list \in Askings, Parameters(list)
      PROVE  ParamInv'
  BY <1>1, ParametersKeepsInv
<1>2. ASSUME NEW list \in Askings, PathParameters(list)
      PROVE  ParamInv'
  BY <1>2, PathKeepsInv
<1>3. CASE ParseElement
  BY <1>3, ParseKeepsInv
<1>4. CASE UNCHANGED paramVars
  BY <1>4 DEF paramVars, ParamInv, ParamTypeOK, Left, GivenUpTo, GivenTo, GivenFor, Unknown,
              NameAllowed
<1> QED BY <1>1, <1>2, <1>3, <1>4 DEF ParamNext

LEMMA InvIsAsAsked == ParamInv => ParametersAsAsked
<1> SUFFICES ASSUME ParamInv
             PROVE  ParametersAsAsked
  OBVIOUS
<1>1. CASE parsing = "done"
  <2>1. GivenUpTo(Len(requested)) /\ requested \in Seq(Askable)
    BY <1>1 DEF ParamInv
  <2>2. \A i : \A j \in GivenFor(i) : j <= Len(requested)
    BY <2>1, Places DEF GivenFor
  <2>3. (\A j \in Unknown : j <= Len(requested)) /\ \A i : \A j \in GivenTo(i) : j <= Len(requested)
    BY <2>2 DEF GivenTo, Unknown
  <2>4. \A k \in Unknown : NameAllowed(k)
    BY <2>1, <2>3 DEF GivenUpTo
  <2>5. ASSUME NEW i \in DOMAIN Tags
        PROVE  IF GivenTo(i) = {} THEN values[i] = Unset
               ELSE \E last \in GivenTo(i) :
                      (\A j \in GivenTo(i) : j <= last) /\ values[i] = ArrivesAs(requested[last])
    <3>1. \/ values[i] = Unset /\ \A j \in GivenTo(i) : ~(j <= Len(requested))
          \/ \E last \in GivenTo(i) :
               /\ last <= Len(requested)
               /\ \A j \in GivenTo(i) : j <= Len(requested) => j <= last
               /\ values[i] = ArrivesAs(requested[last])
      BY <2>1 DEF GivenUpTo
    <3> QED BY <2>3, <3>1
  <2> QED BY <1>1, <2>4, <2>5 DEF ParametersAsAsked
<1>2. CASE parsing # "done"
  BY <1>2 DEF ParamInv, ParametersAsAsked
<1> QED BY <1>1, <1>2

(***************************************************************************)
(* Whatever tags, values and characters there are and however many         *)
(* elements a network's name has, quoted, escaped or as they stand, behind *)
(* the name or in brackets: each parameter ends up with the last value     *)
(* given for it and no other, and parsing fails only for a tag that is not *)
(* in the table.                                                           *)
(***************************************************************************)
THEOREM ParametersArrive == ParamSpec => []ParametersAsAsked
<1>1. ParamSpec => []ParamInv
  BY ParamStarts, ParamStepKeepsInv, PTL DEF ParamSpec
<1> QED BY <1>1, InvIsAsAsked, PTL
=============================================================================
