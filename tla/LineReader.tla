----------------------------- MODULE LineReader -----------------------------
(***************************************************************************)
(* lif_fgetline: one line of a file into the caller's buffer.  Comments    *)
(* are skipped, lines that end in a backslash are joined.  The caller uses *)
(* the same buffer for every line: behind the end of a line lies what      *)
(* earlier ones have left.                                                 *)
(***************************************************************************)
EXTENDS Integers, SequencesExt

CONSTANTS
    Char,      \* characters of files, the special ones included
    Leftover,  \* what a buffer nobody has written to may be full of
    Size       \* sizeof linebuf, 4096 in the code

\* Names for the characters that matter.  ByteFF is what EOF becomes in a char.
NUL == "NUL"
LF == "LF"
CR == "CR"
Blank == "blank"
Hash == "hash"
Backslash == "backslash"
ByteFF == "ff"

ASSUME LineReaderAssumption ==
    /\ {NUL, LF, CR, Blank, Hash, Backslash, ByteFF} \subseteq Char
    /\ Leftover \subseteq Char
    /\ Size \in Nat /\ Size >= 3

VARIABLES
    rest,    \* what is left to read of the file
    pc,      \* where lif_fgetline is; "caller" when it has returned
    buf,     \* linebuf, with two characters of what lies behind it
    s,       \* where the next character goes
    quoted,  \* the last character was a backslash
    eof      \* c = EOF

rvars == <<rest, pc, buf, s, quoted, eof>>

Memory == 0 .. Size + 1
ReaderPc == {"get", "comment", "trim", "finish", "caller"}

\* Strings end with a NUL, somewhere behind the buffer too.
ReaderInit(text) ==
    /\ rest = text
    /\ pc = "caller" /\ s = 0 /\ quoted = FALSE /\ eof = FALSE
    /\ \E junk \in Leftover : buf = [i \in Memory |-> IF i > Size THEN NUL ELSE junk]

StartLine == /\ pc = "caller"
             /\ pc' = "get" /\ s' = 0 /\ quoted' = FALSE /\ eof' = FALSE
             /\ UNCHANGED <<rest, buf>>

WrongRoom == s < Size - 1    \* a quoted character needs room for two and the NUL
Room == s < Size - 2

Put(c) == buf' = [buf EXCEPT ![s] = c] /\ s' = s + 1

Reads(c) == pc = "get" /\ Room /\ rest # << >> /\ Head(rest) = c

\* Neither the backslash nor a hash sign behind it gets into the line.
Quote == /\ ~quoted /\ Reads(Backslash)
         /\ quoted' = TRUE /\ rest' = Tail(rest)
         /\ UNCHANGED <<pc, buf, s, eof>>

QuotedHash == /\ quoted /\ Reads(Hash)
              /\ quoted' = FALSE /\ rest' = Tail(rest)
              /\ UNCHANGED <<pc, buf, s, eof>>

StartComment == /\ ~quoted /\ Reads(Hash)
                /\ pc' = "comment" /\ rest' = Tail(rest)
                /\ UNCHANGED <<buf, s, quoted, eof>>

SkipComment == /\ pc = "comment" /\ rest # << >> /\ Head(rest) # LF
               /\ rest' = Tail(rest)
               /\ UNCHANGED <<pc, buf, s, quoted, eof>>

\* Only a line feed ends a comment; the end of the file is stored as a character.
EndComment ==
    /\ pc = "comment" /\ (rest # << >> => Head(rest) = LF)
    /\ IF rest = << >> THEN Put(ByteFF) /\ eof' = TRUE /\ UNCHANGED rest
                       ELSE Put(LF) /\ rest' = Tail(rest) /\ UNCHANGED eof
    /\ pc' = "finish"
    /\ UNCHANGED quoted

EndLine == /\ ~quoted /\ Reads(LF)
           /\ Put(LF) /\ rest' = Tail(rest) /\ pc' = "finish"
           /\ UNCHANGED <<quoted, eof>>

Join == /\ quoted /\ Reads(LF)
        /\ rest' = Tail(rest) /\ pc' = "trim"
        /\ UNCHANGED <<buf, s, quoted, eof>>

Trim ==
    /\ pc = "trim"
    /\ IF rest # << >> /\ Head(rest) = Blank
       THEN rest' = Tail(rest) /\ UNCHANGED <<pc, quoted>>
       ELSE pc' = "get" /\ quoted' = FALSE /\ UNCHANGED rest
    /\ UNCHANGED <<buf, s, eof>>

AfterReturn == LET t == Tail(rest)
               IN  IF t # << >> /\ Head(t) = LF THEN Tail(t) ELSE t

\* CR and CR LF: a line feed goes into the line even when quoted.
Return == /\ Reads(CR)
          /\ Put(LF) /\ rest' = AfterReturn /\ quoted' = FALSE
          /\ pc' = IF quoted THEN "get" ELSE "finish"
          /\ UNCHANGED eof

Other(c) == c \notin {Hash, LF, CR} /\ (c = Backslash => quoted)

Ordinary ==
    /\ pc = "get" /\ Room /\ rest # << >> /\ Other(Head(rest))
    /\ IF quoted
       THEN buf' = [buf EXCEPT ![s] = Backslash, ![s + 1] = Head(rest)] /\ s' = s + 2
       ELSE Put(Head(rest))
    /\ quoted' = FALSE /\ rest' = Tail(rest)
    /\ UNCHANGED <<pc, eof>>

LeaveLoop == /\ pc = "get" /\ (Room => rest = << >>)
             /\ pc' = "finish" /\ eof' = Room
             /\ UNCHANGED <<rest, buf, s, quoted>>

WrongFinish ==   \* one NUL ends a line: in place of the newline if there is one
    /\ pc = "finish"
    /\ buf' = CASE eof /\ s = 0 -> buf
                [] s > 0 /\ buf[s - 1] = LF -> [buf EXCEPT ![s - 1] = NUL]
                [] OTHER -> [buf EXCEPT ![s] = NUL]
    /\ pc' = "caller"
    /\ UNCHANGED <<rest, s, quoted, eof>>

\* NULL is returned at the end of the file, if nothing came before it.  A line has
\* a second NUL in place of its newline.
Finish ==
    /\ pc = "finish"
    /\ buf' = CASE eof /\ s = 0 -> buf
                [] s > 0 /\ buf[s - 1] = LF -> [buf EXCEPT ![s] = NUL, ![s - 1] = NUL]
                [] OTHER -> [buf EXCEPT ![s] = NUL]
    /\ pc' = "caller"
    /\ UNCHANGED <<rest, s, quoted, eof>>

Reader == \/ Quote \/ QuotedHash \/ StartComment \/ SkipComment \/ EndComment
          \/ EndLine \/ Join \/ Trim \/ Return \/ Ordinary \/ LeaveLoop \/ Finish

\* What the caller learns: a line in buf, or NULL.
Returned == pc = "caller"
NoLine == eof /\ s = 0

\* Part of TypeOK: no character, and no NUL, is stored behind the buffer.
ReaderTypeOK == /\ rest \in Seq(Char) /\ pc \in ReaderPc
                /\ buf \in [Memory -> Char]
                /\ s \in 0 .. Size - 1
                /\ quoted \in BOOLEAN /\ eof \in BOOLEAN
=============================================================================
