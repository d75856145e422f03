------------------------------- MODULE Parameters -------------------------------
(***************************************************************************)
(* parseparameters.c: a network name that ends in /tag=value/tag=value, or *)
(* in [tag=value/tag=value], is taken apart by an automaton that knows     *)
(* quotes, double quotes and escapes.  A text is a sequence of characters, *)
(* which are strings of length one.                                        *)
(***************************************************************************)
EXTENDS Integers, Sequences, SequencesExt

CONSTANTS
  Tags,        \* parameters[i].tag in order; the first of a path may be empty
  OtherTags,   \* tags that are in no table
  Values,      \* bound: the values written
  TextChars,   \* the characters that are written
  MaxElements  \* bound: how many elements

\* A tag is a plain name; "NULL" is no character, it stands for no text.
ASSUME ParametersAssumption ==
  /\ Tags \in Seq(Seq(TextChars))
  /\ OtherTags \subseteq Seq(TextChars) /\ Values \subseteq Seq(TextChars)
  /\ {"'", "\"", "\\", "/", "=", "[", "]", "n"} \subseteq TextChars /\ "NULL" \notin TextChars
  /\ \A t \in ToSet(Tags) \cup OtherTags :
       ToSet(t) \cap {"'", "\"", "\\", "/", "=", "]"} = {}
  /\ MaxElements \in Nat

VARIABLES
  requested,       \* what was written: a sequence of [tag, value, quote]
  inPath,      \* it was written in brackets
  saveptr,     \* the text behind the last element, NULL at the end
  values,      \* *parameters[i].value
  parsing      \* "idle", "running", "done" or "failed"

paramVars == <<requested, inPath, saveptr, values, parsing>>

NULL == <<"NULL">>      \* no text: its one character has four letters
Unset == NULL
EmptyTag == << >>

-----------------------------------------------------------------------------
(* The automaton.  END, behind the last character, ends the loops.         *)

winvde_token(c, delim) ==
  CASE c = "'" -> "QUOTE" [] c = "\"" -> "DOUBLEQ" [] c = "\\" -> "ESC" [] c = "%" -> "PERC"
    [] OTHER -> IF c = delim THEN "DELIM" ELSE "CHAR"

nextstate(status, this) ==
  CASE status = "QUOTE" -> IF this = "QUOTE" THEN "CHAR" ELSE "QUOTE"
    [] status = "DOUBLEQ" -> IF this = "DOUBLEQ" THEN "CHAR" ELSE "DOUBLEQ"
    [] status = "ESC" -> "CHAR"
    [] OTHER -> IF status = "PERC" /\ this = "CHAR" THEN "PER2" ELSE this

\* A bug: within double quotes an escape is not copied.
copiedNoEscape(status, this) ==
  CASE status = "QUOTE" -> this # "QUOTE"
    [] status = "DOUBLEQ" -> this \notin {"DOUBLEQ", "ESC"}
    [] status = "ESC" -> TRUE
    [] OTHER -> this \in {"CHAR", "PERC"}

\* The table action[][]: is the character copied?  (No entry is CPER, so
\* %xx is copied as it stands.)
copied(status, this) ==
  CASE status = "QUOTE" -> this # "QUOTE"
    [] status = "DOUBLEQ" -> this # "DOUBLEQ"
    [] status = "ESC" -> TRUE
    [] OTHER -> this \in {"CHAR", "PERC"}

\* The status behind the text, what is copied of it before the first delimiter
\* outside of quotes, and where such delimiters are.
Scan(text, delim) ==
  LET scan[i \in 0 .. Len(text)] ==
        IF i = 0 THEN [status |-> "CHAR", to |-> << >>, delims |-> {}]
        ELSE LET last == scan[i - 1]
                 this == winvde_token(text[i], delim)
                 next == nextstate(last.status, this)
             IN [status |-> next,
                 to |-> IF last.delims = {} /\ copied(last.status, this)
                        THEN Append(last.to, text[i]) ELSE last.to,
                 delims |-> IF next = "DELIM" THEN last.delims \cup {i} ELSE last.delims]
  IN scan[Len(text)]

\* The first element of a text, and the text behind it.
strtokq_r(text, delim) ==
  IF text = NULL THEN [token |-> NULL, rest |-> NULL]
  ELSE LET scan == Scan(text, delim)
       IN [token |-> scan.to,
           rest |-> IF scan.delims = {} THEN NULL
                    ELSE SubSeq(text, Min(scan.delims) + 1, Len(text))]

\* The text before the last delimiter outside of quotes, all if there is none.
strtokq_rev_r(text, delim) ==
  IF text = NULL THEN NULL
  ELSE LET delims == Scan(text, delim).delims
       IN IF delims = {} THEN text ELSE SubSeq(text, 1, Max(delims) - 1)

-----------------------------------------------------------------------------
(* What is written: a value as it stands, quoted or escaped.               *)

Flat(texts) == FlattenSeq(texts)
Special == {"'", "\"", "\\", "/", "]"}
Written(value, quote) ==
  CASE quote = "'" -> <<"'">> \o value \o <<"'">>
    [] quote = "\"" -> <<"\"">> \o value \o <<"\"">>
    [] quote = "\\" -> Flat([i \in DOMAIN value |->
                         IF value[i] \in Special THEN <<"\\", value[i]>> ELSE <<value[i]>>])
    [] quote = "none" -> << >>       \* the tag alone

Askable ==
  {a \in [tag : ToSet(Tags) \cup OtherTags, value : Values \cup {<< >>},
          quote : {"'", "\"", "\\", "none"}] :
     /\ a.quote \in {"'", "\""} => a.quote \notin ToSet(a.value)
     /\ a.quote = "none" => a.value = << >>
     /\ a.tag = EmptyTag => a.quote = "none"}

Askings == BoundedSeq(Askable, MaxElements)

Element(a) == a.tag \o (IF a.quote = "none" THEN << >> ELSE <<"=">>) \o Written(a.value, a.quote)

ParamInit ==
  /\ requested = << >> /\ inPath = FALSE /\ saveptr = NULL
  /\ values = [i \in DOMAIN Tags |-> Unset]
  /\ parsing = "idle"

\* winvde_parseparameters: the first element is the name itself.
Parameters(list) ==
  /\ parsing = "idle" /\ parsing' = "running"
  /\ requested' = list
  /\ saveptr' = strtokq_r(<<"n">> \o Flat([i \in DOMAIN list |-> <<"/">> \o Element(list[i])]),
                          "/").rest
  /\ UNCHANGED <<inPath, values>>

\* winvde_parsepathparameters: what is between "[" and the last "]".
PathParameters(list) ==
  /\ parsing = "idle" /\ parsing' = "running"
  /\ requested' = list /\ inPath' = TRUE
  /\ LET inside == Flat([i \in DOMAIN list |->
                          (IF i = 1 THEN << >> ELSE <<"/">>) \o Element(list[i])])
     IN saveptr' = strtokq_rev_r(
                     strtokq_r(<<"n", "[">> \o inside \o <<"]", "n">>, "[").rest, "]")
  /\ UNCHANGED values

(***************************************************************************)
(* The loop over the elements.  strncmp compares as many characters as the *)
(* tag of the element has, so a tag may be shortened, and the first that   *)
(* begins so is set.  In a path an element without "=" that is no tag is   *)
(* the value of the tag "" when that is the first.                         *)
(***************************************************************************)
TagFor(tag) == SelectInSeq(Tags, LAMBDA t : IsPrefix(tag, t))

ParseElement ==
  /\ parsing = "running"
  /\ LET next == strtokq_r(saveptr, "/")
         elem == next.token
         eq == SelectInSeq(elem, LAMBDA c : c = "=")
         tag == IF eq = 0 THEN elem ELSE SubSeq(elem, 1, eq - 1)
         value == IF eq = 0 THEN << >> ELSE SubSeq(elem, eq + 1, Len(elem))
         byName == inPath /\ eq = 0 /\ Tags # << >> /\ Tags[1] = EmptyTag
     IN IF elem = NULL
        THEN parsing' = "done" /\ UNCHANGED <<saveptr, values>>
        ELSE /\ saveptr' = next.rest
             /\ CASE tag = << >> -> UNCHANGED <<values, parsing>>
                  [] tag # << >> /\ TagFor(tag) # 0 ->
                       values' = [values EXCEPT ![TagFor(tag)] = value] /\ UNCHANGED parsing
                  [] tag # << >> /\ TagFor(tag) = 0 /\ byName ->
                       values' = [values EXCEPT ![1] = elem] /\ UNCHANGED parsing
                  [] OTHER -> parsing' = "failed" /\ UNCHANGED values
  /\ UNCHANGED <<requested, inPath>>

ParamNext ==
  \/ \E list \in Askings : Parameters(list) \/ PathParameters(list)
  \/ ParseElement

ParamSpec == ParamInit /\ [][ParamNext]_paramVars

-----------------------------------------------------------------------------
ParamTypeOK ==
  /\ parsing \in {"idle", "running", "done", "failed"} /\ inPath \in BOOLEAN
  /\ DOMAIN values = DOMAIN Tags

(***************************************************************************)
(* Whatever a value contains, quotes, escapes, slashes, brackets, and in   *)
(* whichever of the three ways it is protected, it arrives as it was       *)
(* meant: a tag has the last value given for it and no other is touched;   *)
(* and only a tag that does not exist makes the parsing fail.              *)
(***************************************************************************)
GivenFor(i) == {k \in DOMAIN requested : requested[k].tag # EmptyTag /\ TagFor(requested[k].tag) = i}
Unknown == GivenFor(0)
NameAllowed(k) == inPath /\ requested[k].quote = "none" /\ Tags # << >> /\ Tags[1] = EmptyTag
GivenTo(i) == GivenFor(i) \cup (IF i = 1 THEN Unknown ELSE {})
ArrivesAs(a) == IF TagFor(a.tag) = 0 THEN a.tag ELSE a.value

ParametersAsAsked ==
  /\ parsing = "failed" => \E k \in Unknown : ~NameAllowed(k)
  /\ parsing = "done" =>
       /\ \A k \in Unknown : NameAllowed(k)
       /\ \A i \in DOMAIN Tags :
            IF GivenTo(i) = {} THEN values[i] = Unset
            ELSE \E last \in GivenTo(i) :
                   (\A j \in GivenTo(i) : j <= last) /\ values[i] = ArrivesAs(requested[last])
=============================================================================
