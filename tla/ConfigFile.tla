----------------------------- MODULE ConfigFile -----------------------------
(***************************************************************************)
(* lif_config_load: the settings of ifupdown-ng.conf, read line by line.   *)
(* A document is the file as its author sees it, cut into pieces that end  *)
(* at a newline, at a backslash before one, or at the end of the file.     *)
(***************************************************************************)
EXTENDS LineReader

CONSTANTS
    Documents,  \* sequences of pieces
    Settings    \* the names of the settings

Piece == [text : Seq(Char), words : Seq(Seq(Char)), comment : BOOLEAN, end : Seq(Char)]

VARIABLES
    doc,     \* the document
    at,      \* lif_config_parse_file: "call", "reading" a line, or "closed"
    lineno,  \* lines read
    config,  \* lif_config
    ret      \* what lif_config_parse_file returns

cvars == <<doc, at, lineno, config, ret>>
vars == <<rvars, cvars>>

Comment == <<Hash, Blank>>
Raw(p) == p.text \o (IF p.comment THEN Comment ELSE << >>) \o p.end
Text(d) == LET upto[n \in 0 .. Len(d)] == IF n = 0 THEN << >> ELSE upto[n - 1] \o Raw(d[n])
           IN  upto[Len(d)]

ASSUME ConfigAssumption ==
    /\ \A d \in Documents : d \in Seq(Piece) /\ Text(d) \in Seq(Char)
    /\ \A k \in Settings : k \in Seq(Char) \ {<< >>}

Init == /\ doc \in Documents
        /\ ReaderInit(Text(doc))
        /\ at = "call" /\ lineno = 0 /\ ret = FALSE
        /\ config = [k \in Settings |-> TRUE]

Separator == {Blank, LF, CR, "="}

\* The first place at or after p whose character is in stop.
FirstOf(m, p, stop) ==
    CHOOSE i \in Memory : /\ i >= p /\ m[i] \in stop
                          /\ \A j \in Memory : p <= j /\ j < i => m[j] \notin stop

\* The token that begins at out, the place of the NUL that now ends it, and the
\* buffer with that NUL.  A token that is not there is empty.
NextToken(m, p) ==
    LET out == FirstOf(m, p, Char \ Separator)
        end == FirstOf(m, out, Separator \cup {NUL})
    IN  [word |-> [i \in 1 .. end - out |-> m[out + i - 1]], next |-> end + 1,
         mem |-> [m EXCEPT ![end] = NUL]]

Key(m) == NextToken(m, 0)
Value(m) == NextToken(Key(m).mem, Key(m).next)

Yes == {"1", "Y", "y", "T", "t"}
No == {"0", "N", "n", "F", "f"}

Call == /\ at = "call" /\ StartLine
        /\ at' = "reading"
        /\ UNCHANGED <<doc, lineno, config, ret>>

ReadOn == at = "reading" /\ Reader /\ UNCHANGED cvars

WrongClose(good) == at' = (IF good THEN "closed" ELSE "call") /\ ret' = good    \* goes on
Close(good) == at' = "closed" /\ ret' = good

EndOfFile == /\ at = "reading" /\ Returned /\ NoLine
             /\ Close(TRUE)
             /\ UNCHANGED <<rvars, doc, lineno, config>>

Skipped(key, value) == key = << >> \/ value = << >> \/ key \notin Settings

\* Lines without a value and unknown settings are passed over; a value that is
\* neither yes nor no ends the parse, with what was set before it.
ParseLine ==
    LET key == Key(buf).word
        value == Value(buf).word
    IN  /\ at = "reading" /\ Returned /\ ~NoLine
        /\ buf' = Value(buf).mem /\ lineno' = lineno + 1
        /\ CASE Skipped(key, value) ->
                  at' = "call" /\ UNCHANGED <<config, ret>>
             [] ~Skipped(key, value) /\ Head(value) \in Yes \cup No ->
                  /\ config' = [config EXCEPT ![key] = Head(value) \in Yes]
                  /\ at' = "call" /\ UNCHANGED ret
             [] OTHER -> Close(FALSE) /\ UNCHANGED config
        /\ UNCHANGED <<rest, pc, s, quoted, eof, doc>>

\* The result of lif_config_load is ignored: the program goes on.
Rest == at = "closed" /\ UNCHANGED vars

Next == Call \/ ReadOn \/ EndOfFile \/ ParseLine \/ Rest

Spec == Init /\ [][Next]_vars

-----------------------------------------------------------------------------
(* What the author means: the last setting before the first bad value.     *)

Joins(p) == ~p.comment /\ p.end # << >> /\ Head(p.end) = Backslash

\* The words of each line, joined pieces taken together.
Lines(d) ==
    LET upto[n \in 0 .. Len(d)] ==
            CASE n = 0 -> << >>
              [] n > 1 /\ Joins(d[n - 1]) ->
                     Append(Front(upto[n - 1]), Last(upto[n - 1]) \o d[n].words)
              [] OTHER -> Append(upto[n - 1], d[n].words)
    IN  upto[Len(d)]

Sets(w) == Len(w) >= 2 /\ Head(w) \in Settings
IsBad(w) == Sets(w) /\ Head(w[2]) \notin Yes \cup No
Taken(lines) == {n \in DOMAIN lines : Sets(lines[n]) /\ \A m \in 1 .. n : ~IsBad(lines[m])}
Meant(lines, k) == LET mine == {n \in Taken(lines) : Head(lines[n]) = k}
                   IN  mine = {} \/ Head(lines[Max(mine)][2]) \in Yes

\* The last line has a newline, or else two words and no comment.
Whole(d) ==
    LET last == Last(d)
    IN  IF last.end = << >> THEN ~last.comment /\ Len(Last(Lines(d))) >= 2
                            ELSE ~Joins(last)

\* Every line, with its comment, fits into the buffer, with two characters to spare.
Fits(d) ==
    \A i, j \in DOMAIN d :
        (i <= j /\ \A k \in i .. j - 1 : Joins(d[k]))
            => Len(Text(SubSeq(d, i, j))) < Size - 2

Proper == doc # << >> /\ Whole(doc) /\ Fits(doc)

-----------------------------------------------------------------------------
(* Properties.                                                             *)

\* Every variable stays in its type, whatever the file: lines too long, a backslash
\* or a comment at the end of it.  lif_fgetline never writes behind the buffer.
TypeOK == /\ ReaderTypeOK
          /\ doc \in Seq(Piece) /\ at \in {"call", "reading", "closed"}
          /\ lineno \in Nat
          /\ config \in [Settings -> BOOLEAN] /\ ret \in BOOLEAN

WordOf(n, words) == IF n <= Len(words) THEN words[n] ELSE << >>

\* lif_fgetline and the tokenizer find the words of the author's lines, one line
\* after the other: comments, joined lines and the three kinds of newline leave no
\* trace, and a word that is missing is not made up from what an earlier line left
\* in the buffer.
LinesAsWritten ==
    Proper /\ at = "reading" /\ Returned /\ ~NoLine =>
        LET line == Lines(doc)[lineno + 1]
        IN  Key(buf).word = WordOf(1, line) /\ Value(buf).word = WordOf(2, line)

\* When the file is closed, the settings are those the author means, and the parse
\* failed exactly if there is a bad value; with no line left out or read twice.
SettingsAsWritten ==
    Proper /\ at = "closed" =>
        LET lines == Lines(doc)
        IN  /\ \A k \in Settings : config[k] = Meant(lines, k)
            /\ ret <=> \A n \in DOMAIN lines : ~IsBad(lines[n])
            /\ ret => lineno = Len(lines)
=============================================================================
