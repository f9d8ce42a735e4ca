-------------------------- MODULE ConfigFile_proofs --------------------------
(***************************************************************************)
(* Whatever the file holds and however long its lines are, lif_fgetline    *)
(* stays inside its buffer and hands the tokenizer a string that ends in   *)
(* it.  The buffer is at its fullest after a backslash that is kept: two   *)
(* characters for one, and the NUL.                                        *)
(***************************************************************************)
EXTENDS ConfigFile, TLAPS

\* The line that lif_fgetline returns ends inside the buffer, so that the first
\* token lies inside it too.
EndsInBuffer == at = "reading" /\ Returned /\ ~NoLine => \E i \in 0 .. Size - 1 : buf[i] = NUL

\* While a comment is skipped, there is room for the character that ends it; what
\* the reader does, it does for a caller that waits.
IInv == /\ TypeOK
        /\ pc = "comment" => Room
        /\ pc # "caller" => at = "reading"
        /\ EndsInBuffer

LEMMA CharFacts ==
    /\ NUL \in Char /\ LF \in Char /\ Backslash \in Char /\ ByteFF \in Char
    /\ Size \in Nat /\ Size >= 3
    /\ 0 .. Size - 1 \subseteq Memory
  BY LineReaderAssumption DEF Memory

LEMMA InitIInv == Init => IInv
<1> SUFFICES ASSUME Init PROVE IInv
  OBVIOUS
<1>1. ReaderTypeOK
  <2>1. rest \in Seq(Char) /\ pc = "caller" /\ s = 0 /\ quoted = FALSE /\ eof = FALSE
    BY ConfigAssumption DEF Init, ReaderInit
  <2>2. PICK junk \in Leftover : buf = [i \in Memory |-> IF i > Size THEN NUL ELSE junk]
    BY DEF Init, ReaderInit
  <2>3. junk \in Char
    BY <2>2, LineReaderAssumption
  <2>4. buf \in [Memory -> Char]
    BY <2>2, <2>3, CharFacts
  <2>5. 0 \in 0 .. Size - 1
    BY CharFacts
  <2>6. QED
    BY <2>1, <2>4, <2>5, Zenon DEF ReaderTypeOK, ReaderPc
<1>2. TypeOK /\ at = "call"
  BY <1>1, ConfigAssumption DEF Init, TypeOK
<1>3. QED
  BY <1>2 DEF Init, ReaderInit, IInv, EndsInBuffer

\* Storing a character where there is room keeps buf and s in their types.
LEMMA PutType ==
  ASSUME NEW c \in Char, buf \in [Memory -> Char], s \in 0 .. Size - 1, Room, Put(c)
  PROVE  buf' \in [Memory -> Char] /\ s' \in 0 .. Size - 1
  BY CharFacts DEF Put, Room

LEMMA HeadTail ==
  ASSUME NEW q \in Seq(Char), q # << >>
  PROVE  Head(q) \in Char /\ Tail(q) \in Seq(Char)
  OBVIOUS

LEMMA ReaderStep ==
  ASSUME IInv, Reader
  PROVE  ReaderTypeOK' /\ (pc' = "comment" => Room')
<1> USE DEF ReaderTypeOK, ReaderPc
<1>0. ReaderTypeOK /\ (pc = "comment" => Room)
  BY DEF IInv, TypeOK
<1>1. CASE Quote \/ QuotedHash \/ StartComment
  BY <1>0, <1>1, HeadTail DEF Quote, QuotedHash, StartComment, Reads, Room
<1>2. CASE SkipComment
  BY <1>0, <1>2, HeadTail DEF SkipComment, Room
<1>3. CASE EndComment
  <2>1. CASE rest = << >>
    BY <1>0, <1>3, <2>1, PutType, CharFacts DEF EndComment
  <2>2. CASE rest # << >>
    BY <1>0, <1>3, <2>2, PutType, HeadTail, CharFacts DEF EndComment
  <2>3. QED
    BY <2>1, <2>2
<1>4. CASE EndLine
  BY <1>0, <1>4, PutType, HeadTail, CharFacts DEF EndLine, Reads
<1>5. CASE Join
  BY <1>0, <1>5, HeadTail DEF Join, Reads
<1>6. CASE Trim
  BY <1>0, <1>6, HeadTail DEF Trim
<1>7. CASE Return
  <2>1. AfterReturn \in Seq(Char)
    BY <1>0, <1>7, HeadTail DEF Return, Reads, AfterReturn
  <2>2. QED
    BY <1>0, <1>7, <2>1, PutType, CharFacts DEF Return, Reads
<1>8. CASE Ordinary
  <2>1. Head(rest) \in Char /\ Tail(rest) \in Seq(Char)
    BY <1>0, <1>8, HeadTail DEF Ordinary
  <2>2. CASE quoted
    BY <1>0, <1>8, <2>1, <2>2, CharFacts DEF Ordinary, Room
  <2>3. CASE ~quoted
    BY <1>0, <1>8, <2>1, <2>3, PutType DEF Ordinary
  <2>4. QED
    BY <2>2, <2>3
<1>9. CASE LeaveLoop
  BY <1>0, <1>9 DEF LeaveLoop, Room
<1>10. CASE Finish
  BY <1>0, <1>10, CharFacts DEF Finish
<1>11. QED
  BY <1>1, <1>2, <1>3, <1>4, <1>5, <1>6, <1>7, <1>8, <1>9, <1>10 DEF Reader

\* Only Finish gives the line to the caller, and it has just stored a NUL.
LEMMA ReaderEnds ==
  ASSUME IInv, Reader, Returned', ~NoLine'
  PROVE  \E i \in 0 .. Size - 1 : buf'[i] = NUL
<1>1. Finish
  BY DEF Reader, Quote, QuotedHash, StartComment, SkipComment, EndComment, EndLine, Join,
         Trim, Return, Ordinary, LeaveLoop, Reads, Returned
<1>2. buf \in [Memory -> Char] /\ s \in 0 .. Size - 1 /\ ~(eof /\ s = 0)
  BY <1>1 DEF IInv, TypeOK, ReaderTypeOK, Finish, NoLine
<1>3. buf'[s] = NUL
  BY <1>1, <1>2, CharFacts DEF Finish
<1>4. QED
  BY <1>2, <1>3

\* A tokenizer stores a NUL, or nothing.
LEMMA TokenType ==
  ASSUME NEW m \in [Memory -> Char], NEW p
  PROVE  NextToken(m, p).mem \in [Memory -> Char]
<1>1. PICK end : NextToken(m, p).mem = [m EXCEPT ![end] = NUL]
  BY DEF NextToken
<1>2. QED
  BY <1>1, CharFacts

LEMMA NextIInv == IInv /\ [Next]_vars => IInv'
<1> SUFFICES ASSUME IInv, [Next]_vars PROVE IInv'
  OBVIOUS
<1>1. CASE Call
  <2>1. /\ pc' = "get" /\ s' = 0 /\ quoted' = FALSE /\ eof' = FALSE /\ at' = "reading"
        /\ UNCHANGED <<rest, buf, doc, lineno, config, ret>>
    BY <1>1 DEF Call, StartLine
  <2>2. TypeOK'
    <3>1. 0 \in 0 .. Size - 1
      BY CharFacts
    <3>2. QED
      BY <2>1, <3>1, Zenon DEF IInv, TypeOK, ReaderTypeOK, ReaderPc
  <2>3. QED
    BY <2>1, <2>2 DEF IInv, EndsInBuffer, Returned
<1>2. CASE ReadOn
  <2>1. ReaderTypeOK' /\ (pc' = "comment" => Room')
    BY <1>2, ReaderStep DEF ReadOn
  <2>2. at' = "reading" /\ TypeOK'
    BY <1>2, <2>1 DEF ReadOn, IInv, TypeOK, cvars
  <2>3. EndsInBuffer'
    BY <1>2, ReaderEnds DEF ReadOn, EndsInBuffer
  <2>4. QED
    BY <2>1, <2>2, <2>3 DEF IInv
<1>3. CASE EndOfFile
  BY <1>3 DEF EndOfFile, Close, rvars, IInv, TypeOK, ReaderTypeOK, EndsInBuffer, Returned, Room
<1>4. CASE ParseLine
  <2> DEFINE key == Key(buf).word
             value == Value(buf).word
  <2>1. buf' \in [Memory -> Char]
    <3>1. buf \in [Memory -> Char]
      BY DEF IInv, TypeOK, ReaderTypeOK
    <3>2. Key(buf).mem \in [Memory -> Char]
      BY <3>1, TokenType DEF Key
    <3>3. Value(buf).mem \in [Memory -> Char]
      BY <3>2, TokenType DEF Value
    <3>4. QED
      BY <1>4, <3>3 DEF ParseLine
  <2>2. config' \in [Settings -> BOOLEAN] /\ at' \in {"call", "closed"} /\ ret' \in BOOLEAN
    <3> HIDE DEF key, value
    <3>1. CASE Skipped(key, value)
      BY <1>4, <3>1 DEF ParseLine, IInv, TypeOK, key, value
    <3>2. CASE ~Skipped(key, value) /\ Head(value) \in Yes \cup No
      <4>1. /\ config' = [config EXCEPT ![key] = Head(value) \in Yes]
            /\ at' = "call" /\ ret' = ret
        BY <1>4, <3>2 DEF ParseLine, key, value
      <4>2. (Head(value) \in Yes) \in BOOLEAN
        OBVIOUS
      <4>3. config' \in [Settings -> BOOLEAN]
        BY <4>1, <4>2 DEF IInv, TypeOK
      <4>4. QED
        BY <4>1, <4>3 DEF IInv, TypeOK
    <3>3. CASE ~Skipped(key, value) /\ Head(value) \notin Yes \cup No
      BY <1>4, <3>3 DEF ParseLine, Close, IInv, TypeOK, key, value
    <3>4. QED
      BY <3>1, <3>2, <3>3
  <2>3. pc' = "caller" /\ lineno' = lineno + 1 /\ UNCHANGED <<rest, s, quoted, eof, doc>>
    BY <1>4 DEF ParseLine, Returned
  <2>4. QED
    BY <2>1, <2>2, <2>3 DEF IInv, TypeOK, ReaderTypeOK, ReaderPc, EndsInBuffer
<1>5. CASE UNCHANGED vars
  BY <1>5 DEF vars, rvars, cvars, IInv, TypeOK, ReaderTypeOK, EndsInBuffer, Returned, NoLine, Room
<1>6. QED
  BY <1>1, <1>2, <1>3, <1>4, <1>5 DEF Next, Rest

\* For every file, every buffer of three or more characters and whatever it held
\* before, lif_fgetline and lif_config_parse_file keep every variable in its type:
\* no character and no NUL is stored behind the end of the buffer.
THEOREM ReaderStaysInBuffer == Spec => []TypeOK
<1>1. IInv => TypeOK
  BY DEF IInv
<1>2. QED
  BY <1>1, InitIInv, NextIInv, PTL DEF Spec

\* Every line the tokenizer gets ends inside the buffer.
THEOREM LinesEndInBuffer == Spec => []EndsInBuffer
<1>1. IInv => EndsInBuffer
  BY DEF IInv
<1>2. QED
  BY <1>1, InitIInv, NextIInv, PTL DEF Spec
=============================================================================
