----------------------------- MODULE Frontmatter -----------------------------
(***************************************************************************)
(* A string value of the YAML frontmatter: _format_frontmatter writes it   *)
(* between double quotes, and whoever reads the vault scans it as a YAML   *)
(* double-quoted scalar.  Characters are abstracted to the classes that    *)
(* either side treats differently.                                         *)
(***************************************************************************)
EXTENDS Naturals, Sequences, SequencesExt

CONSTANT MaxLength   \* bound on the length of a value

ASSUME MaxLengthAssumption == MaxLength \in Nat

VARIABLES
  value,   \* title, description, author, ... of a capture
  text,    \* what was written after the opening quote
  at,      \* the next character the reader looks at
  read,    \* what it has read so far
  status   \* "writing", "reading", "closed", "malformed"

matterVars == <<value, text, at, read, status>>

Char == {"letter", "quote", "backslash", "newline"}

\* What a reader may get: also the space a line break is folded to, and the
\* character an escape sequence stands for.
ReadChar == Char \cup {"space", "escaped"}

MatterTypeOK ==
  /\ value \in Seq(Char) /\ Len(value) <= MaxLength
  /\ text \in Seq(Char)
  /\ at \in 1..Len(text) + 1
  /\ read \in Seq(ReadChar)
  /\ status \in {"writing", "reading", "closed", "malformed"}

MatterInit ==
  /\ value \in UNION {[1..n -> Char] : n \in 0..MaxLength}
  /\ text = << >>
  /\ at = 1
  /\ read = << >>
  /\ status = "writing"

\* Mutated form: quotes are left as they are.
WrittenUnescaped(c) == <<c>>

\* value.replace('"', '\\"'), character by character.
Written(c) == IF c = "quote" THEN <<"backslash", "quote">> ELSE <<c>>

\* The value, the closing quote and the end of the line.
WriteValue ==
  /\ status = "writing"
  /\ text' = FlattenSeq([i \in DOMAIN value |-> Written(value[i])]) \o <<"quote", "newline">>
  /\ status' = "reading"
  /\ UNCHANGED <<value, at, read>>

-----------------------------------------------------------------------------
(***************************************************************************)
(* The YAML reader.                                                        *)
(***************************************************************************)
Here(c) == status = "reading" /\ at <= Len(text) /\ text[at] = c

Take(n, chars) ==
  /\ at' = at + n
  /\ read' = read \o chars
  /\ UNCHANGED <<value, text, status>>

End(how) ==
  /\ status' = how
  /\ UNCHANGED <<value, text, at, read>>

ReadLetter == Here("letter") /\ Take(1, <<"letter">>)

\* A backslash before a quote or a backslash stands for that character, before
\* a line break for nothing; other sequences stand for another character or
\* are not defined.
ReadEscape ==
  /\ Here("backslash")
  /\ \/ text[at + 1] \in {"quote", "backslash"} /\ Take(2, <<text[at + 1]>>)
     \/ text[at + 1] = "newline" /\ Take(2, << >>)
     \/ text[at + 1] = "letter" /\ (Take(2, <<"escaped">>) \/ End("malformed"))

\* Line folding: one break is a space, each further one a line break.
\* At the end of the text the scalar runs on into the next key.
ReadBreaks ==
  /\ Here("newline")
  /\ LET after == {i \in at..Len(text) : text[i] # "newline"}
     IN  IF after = {} THEN End("malformed")
         ELSE LET n == CHOOSE i \in after : \A j \in after : i <= j
              IN  Take(n - at, IF n - at = 1 THEN <<"space">>
                               ELSE [i \in 1..n - at - 1 |-> "newline"])

\* The quote that closes the scalar ends its line.
ReadQuote ==
  /\ Here("quote")
  /\ End(IF at + 1 = Len(text) /\ text[at + 1] = "newline" THEN "closed" ELSE "malformed")

MatterNext == WriteValue \/ ReadLetter \/ ReadEscape \/ ReadBreaks \/ ReadQuote

MatterSpec == MatterInit /\ [][MatterNext]_matterVars

-----------------------------------------------------------------------------
\* Quotes survive: a value of letters and quotes, in any order and number, is
\* read back as it was written.
QuotesSurvive ==
  (\A i \in DOMAIN value : value[i] \in {"letter", "quote"}) =>
    /\ status # "malformed"
    /\ status = "closed" => read = value
=============================================================================
