------------------------ MODULE InterfaceFile_proofs ------------------------
(***************************************************************************)
(* Theorems about InterfaceFile for every set of files, whatever they      *)
(* contain and however they source each other.                             *)
(***************************************************************************)
EXTENDS InterfaceFile, FiniteSetTheorems, TLAPS

-----------------------------------------------------------------------------
(* The inductive invariant.                                                *)

\* The files do not change; the open ones have been read.
OpenOK ==
    /\ DOMAIN contents \subseteq File
    /\ contents \in [DOMAIN contents -> Seq(Line)]
    /\ open \in Seq(OpenFile)
    /\ pc = "parse" => open # << >>
    /\ pc = "parsed" => open = << >>
    /\ pc \in {"compat", "done"} => open = << >>
    /\ loaded \subseteq DOMAIN contents

\* The readable files that a source line names.
Readable(line) == ToSet(line.files) \cap DOMAIN contents

\* What a source line asks for has been done.
LineDone(line) ==
    \/ Readable(line) \subseteq loaded
    \/ line.kw = "source" /\ line.files[1] \notin DOMAIN contents

\* An activation that has not yet come to line n, or that is at it and has the rest
\* of it in todo.
Ahead(o, f, n) ==
    /\ o.file = f
    /\ \/ n >= o.next
       \/ n = o.next - 1 /\ Readable(contents[f][n]) \subseteq loaded \cup ToSet(o.todo)

\* Nothing has failed so far.
AllWell == pc # "failed" /\ \A k \in DOMAIN open : open[k].ok

\* While nothing has failed, each source line of a parsed file is done or ahead of an
\* activation.
Sourced ==
    AllWell =>
        \A f \in loaded : \A n \in SourceLines(f) :
            \/ LineDone(contents[f][n])
            \/ \E k \in DOMAIN open : Ahead(open[k], f, n)

IInv == OpenOK /\ NestedOnce /\ Sourced

-----------------------------------------------------------------------------
(* Facts about the activations.                                            *)

\* The innermost activation is one.
LEMMA TopType ==
    ASSUME OpenOK, pc = "parse"
    PROVE  /\ Len(open) \in DOMAIN open /\ Len(open) \in Nat \ {0}
           /\ Top \in OpenFile
           /\ open[Len(open)] = Top
BY DEF OpenOK, Top

\* Replacing the innermost activation.
LEMMA WithTopType ==
    ASSUME OpenOK, pc = "parse", NEW o \in OpenFile
    PROVE  /\ WithTop(o) \in Seq(OpenFile)
           /\ Len(WithTop(o)) = Len(open) /\ DOMAIN WithTop(o) = DOMAIN open
           /\ WithTop(o)[Len(open)] = o
           /\ \A k \in DOMAIN open \ {Len(open)} : WithTop(o)[k] = open[k]
BY TopType DEF OpenOK, WithTop

\* The order in which a directory is listed contains each of its files.
LEMMA ListingComplete ==
    ASSUME NEW S, IsFiniteSet(S), NEW q \in SetToSeqs(S)
    PROVE  q \in Seq(S) /\ ToSet(q) = S
<1> DEFINE D == 1 .. Cardinality(S)
<1>1. Cardinality(S) \in Nat  BY FS_CardinalityType
<1>2. q \in [D -> S] /\ \A i, j \in D : i # j => q[i] # q[j]  BY DEF SetToSeqs
<1>3. q \in Injection(D, S)  BY <1>2 DEF Injection, IsInjective
<1>4. IsFiniteSet(D) /\ Cardinality(D) = Cardinality(S)  BY <1>1, FS_Interval
<1>5. q \in Surjection(D, S)  BY <1>3, <1>4, FS_Injection
<1>6. \A s \in S : \E i \in D : q[i] = s  BY <1>5 DEF Surjection
<1> QED  BY <1>1, <1>2, <1>6 DEF ToSet

\* The readable files of a line are finitely many.
LEMMA ReadableFinite ==
    ASSUME OpenOK, NEW s \in Seq(File)
    PROVE  IsFiniteSet(ToSet(s) \cap DOMAIN contents)
<1>1. s \in [1 .. Len(s) -> ToSet(s)]  BY DEF ToSet
<1>2. s \in Surjection(1 .. Len(s), ToSet(s))  BY <1>1 DEF Surjection, ToSet
<1>3. IsFiniteSet(1 .. Len(s))  BY FS_Interval
<1>4. IsFiniteSet(ToSet(s))  BY <1>2, <1>3, FS_Surjection
<1> QED  BY <1>4, FS_Subset

\* The line at hand is a line of a parsed file.
LEMMA LineType ==
    ASSUME OpenOK, NestedOnce, AtLine
    PROVE  /\ Top.file \in loaded /\ Top.file \in DOMAIN contents
           /\ Top.next \in DOMAIN contents[Top.file]
           /\ CurrentLine = contents[Top.file][Top.next]
           /\ CurrentLine \in Line
<1>1. Top \in OpenFile /\ Top = open[Len(open)] /\ Len(open) \in DOMAIN open
  BY TopType DEF AtLine
<1>2. Top.file \in loaded /\ loaded \subseteq DOMAIN contents
  BY <1>1 DEF NestedOnce, OpenOK
<1>3. contents[Top.file] \in Seq(Line)  BY <1>2 DEF OpenOK
<1> QED  BY <1>1, <1>2, <1>3 DEF AtLine, CurrentLine, OpenFile

-----------------------------------------------------------------------------
(* Initial states.                                                         *)

LEMMA InitInv == Init => IInv
<1> SUFFICES ASSUME Init PROVE IInv  OBVIOUS
<1>1. PICK in \in Inputs : contents = in.files /\ config = in.config  BY DEF Init
<1>2. /\ Main \in DOMAIN contents /\ DOMAIN contents \subseteq File
      /\ contents \in [DOMAIN contents -> Seq(Line)]
  BY <1>1, InputAssumption
<1>3. /\ open = <<Opened(Main)>> /\ loaded = {Main} /\ pc = "parse"
      /\ Opened(Main) \in OpenFile
      /\ Opened(Main).file = Main /\ Opened(Main).next = 1
  BY <1>2 DEF Init, Opened, OpenFile
<1>4. OpenOK  BY <1>2, <1>3 DEF OpenOK
<1>5. NestedOnce  BY <1>3 DEF NestedOnce
<1>6. Sourced
  <2> SUFFICES ASSUME NEW n \in SourceLines(Main)
               PROVE  Ahead(open[1], Main, n)
    BY <1>3 DEF Sourced
  <2>1. n \in Nat /\ n >= 1  BY <1>2 DEF SourceLines
  <2> QED  BY <1>3, <2>1 DEF Ahead
<1> QED  BY <1>4, <1>5, <1>6 DEF IInv

-----------------------------------------------------------------------------
(* Steps inside of the innermost file.                                     *)

\* What a step changes that goes on with the file.
TopStep(o) ==
    /\ open' = WithTop(o) /\ o \in OpenFile /\ o.file = Top.file
    /\ pc = "parse" /\ pc' \in {"parse", "endless"}
    /\ UNCHANGED <<contents, loaded>>

LEMMA TopStepOpen ==
    ASSUME OpenOK, NestedOnce, NEW o, TopStep(o)
    PROVE  OpenOK' /\ NestedOnce'
<1>1. /\ Len(open) \in DOMAIN open /\ Top = open[Len(open)]
      /\ open' \in Seq(OpenFile) /\ DOMAIN open' = DOMAIN open
      /\ \A k \in DOMAIN open : open'[k].file = open[k].file
  BY TopType, WithTopType DEF TopStep
<1>2. OpenOK'  BY <1>1 DEF OpenOK, TopStep
<1>3. NestedOnce'  BY <1>1 DEF NestedOnce, TopStep
<1> QED  BY <1>2, <1>3

\* It is enough that no line of the file is passed that is not done.
LEMMA TopStepSourced ==
    ASSUME IInv, NEW o, TopStep(o),
           o.ok => Top.ok,
           \A n \in SourceLines(Top.file) :
               o.ok /\ Ahead(Top, Top.file, n) =>
                   LineDone(contents[Top.file][n]) \/ Ahead(o, Top.file, n)
    PROVE  Sourced'
<1>1. /\ Len(open) \in DOMAIN open /\ Top = open[Len(open)]
      /\ DOMAIN open' = DOMAIN open /\ open'[Len(open)] = o
      /\ \A k \in DOMAIN open \ {Len(open)} : open'[k] = open[k]
  BY TopType, WithTopType DEF TopStep, IInv
<1>2. contents' = contents /\ loaded' = loaded  BY DEF TopStep
<1> SUFFICES ASSUME AllWell', NEW f \in loaded, NEW n \in SourceLines(f)
             PROVE  \/ LineDone(contents[f][n])
                    \/ \E k \in DOMAIN open : Ahead(open'[k], f, n)
  BY <1>1, <1>2 DEF Sourced, SourceLines, LineDone, Readable, Ahead
<1>3. AllWell /\ o.ok  BY <1>1 DEF AllWell, TopStep
<1>4. \/ LineDone(contents[f][n])
      \/ \E k \in DOMAIN open : Ahead(open[k], f, n)
  BY <1>3 DEF IInv, Sourced
<1>5. CASE LineDone(contents[f][n])  BY <1>5
<1>6. ASSUME NEW k \in DOMAIN open, Ahead(open[k], f, n)
      PROVE  LineDone(contents[f][n]) \/ \E j \in DOMAIN open : Ahead(open'[j], f, n)
  <2>1. CASE k # Len(open)  BY <1>1, <1>6, <2>1
  <2>2. CASE k = Len(open)
    <3>1. f = Top.file /\ Ahead(Top, f, n)  BY <1>1, <1>6, <2>2 DEF Ahead
    <3> QED  BY <1>1, <1>3, <3>1
  <2> QED  BY <2>1, <2>2
<1> QED  BY <1>4, <1>5, <1>6

\* The records that the steps build.
LEMMA NextLine ==
    ASSUME NEW t \in OpenFile
    PROVE  LET o == [t EXCEPT !.next = @ + 1]
           IN  /\ o \in OpenFile /\ o.file = t.file /\ o.ok = t.ok
               /\ o.next = t.next + 1 /\ o.todo = t.todo
BY DEF OpenFile

LEMMA SourceLine ==
    ASSUME NEW t \in OpenFile, NEW q \in Seq(File), NEW b \in BOOLEAN
    PROVE  LET o == [t EXCEPT !.next = @ + 1, !.strict = b, !.todo = q]
           IN  /\ o \in OpenFile /\ o.file = t.file /\ o.ok = t.ok
               /\ o.next = t.next + 1 /\ o.todo = q
<1> DEFINE n == [t EXCEPT !.next = @ + 1]
           s == [n EXCEPT !.strict = b]
<1>1. /\ n \in OpenFile /\ n.file = t.file /\ n.ok = t.ok /\ n.next = t.next + 1
  BY NextLine
<1>2. [t EXCEPT !.next = @ + 1, !.strict = b, !.todo = q] = [s EXCEPT !.todo = q]
  OBVIOUS
<1> HIDE DEF n
<1>3. s \in OpenFile /\ s.file = n.file /\ s.ok = n.ok /\ s.next = n.next
  BY <1>1 DEF OpenFile
<1> HIDE DEF s
<1>4. LET o == [s EXCEPT !.todo = q]
      IN  o \in OpenFile /\ o.file = s.file /\ o.ok = s.ok /\ o.next = s.next /\ o.todo = q
  BY <1>3 DEF OpenFile
<1> QED  BY <1>1, <1>2, <1>3, <1>4

LEMMA RestOfLine ==
    ASSUME NEW t \in OpenFile, NEW q \in Seq(File)
    PROVE  LET o == [t EXCEPT !.todo = q]
           IN  /\ o \in OpenFile /\ o.file = t.file /\ o.ok = t.ok
               /\ o.next = t.next /\ o.todo = q
BY DEF OpenFile

LEMMA FailedType ==
    ASSUME NEW t \in OpenFile
    PROVE  /\ Failed(t) \in OpenFile /\ Failed(t).file = t.file /\ ~Failed(t).ok
<1> DEFINE u == [t EXCEPT !.ok = FALSE]
           q == IF t.strict THEN << >> ELSE t.todo
<1>1. u \in OpenFile /\ u.file = t.file /\ u.ok = FALSE  BY DEF OpenFile
<1>2. q \in Seq(File)  BY DEF OpenFile
<1>3. Failed(t) = [u EXCEPT !.todo = q]  BY DEF Failed
<1> HIDE DEF u, q
<1> QED  BY <1>1, <1>2, <1>3, RestOfLine

\* Taking the first file of a list off.
LEMMA TailSet ==
    ASSUME NEW q \in Seq(File), q # << >>
    PROVE  /\ Tail(q) \in Seq(File) /\ Head(q) \in File
           /\ ToSet(q) = {Head(q)} \cup ToSet(Tail(q))
<1>1. /\ Len(q) \in Nat /\ Len(q) >= 1 /\ DOMAIN q = 1 .. Len(q) /\ Head(q) = q[1]
      /\ Tail(q) \in Seq(File) /\ Len(Tail(q)) = Len(q) - 1
      /\ \A i \in 1 .. Len(q) - 1 : Tail(q)[i] = q[i + 1]
  OBVIOUS
<1>2. DOMAIN Tail(q) = 1 .. Len(q) - 1  BY <1>1
<1>3. ASSUME NEW i \in DOMAIN q PROVE q[i] \in {Head(q)} \cup ToSet(Tail(q))
  <2>1. CASE i = 1  BY <1>1, <2>1
  <2>2. CASE i # 1
    <3>1. i - 1 \in DOMAIN Tail(q) /\ Tail(q)[i - 1] = q[i]  BY <1>1, <1>2, <2>2
    <3> QED  BY <3>1 DEF ToSet
  <2> QED  BY <2>1, <2>2
<1>4. ASSUME NEW i \in DOMAIN Tail(q) PROVE Tail(q)[i] \in ToSet(q)
  <2>1. i + 1 \in DOMAIN q /\ Tail(q)[i] = q[i + 1]  BY <1>1, <1>2
  <2> QED  BY <2>1 DEF ToSet
<1>5. Head(q) \in ToSet(q) /\ Head(q) \in File  BY <1>1 DEF ToSet
<1> QED  BY <1>1, <1>3, <1>4, <1>5 DEF ToSet

\* lif_interface_file_parse hands a line to a handler that opens no file.
LEMMA ReadLineInv == ASSUME IInv, ReadLine PROVE IInv'
<1> DEFINE o == [Top EXCEPT !.next = @ + 1]
<1>1. OpenOK /\ NestedOnce /\ AtLine  BY DEF IInv, ReadLine
<1>2. Top \in OpenFile  BY <1>1, TopType DEF AtLine
<1>3. /\ o \in OpenFile /\ o.file = Top.file /\ o.ok = Top.ok
      /\ o.next = Top.next + 1 /\ o.todo = << >> /\ Top.todo = << >>
  BY <1>1, <1>2, NextLine DEF AtLine
<1> HIDE DEF o
<1>4. TopStep(o)
  <2>1. open' = WithTop(o)  BY DEF ReadLine, o
  <2> QED  BY <1>1, <1>3, <2>1 DEF TopStep, ReadLine, AtLine
<1>5. OpenOK' /\ NestedOnce'  BY <1>1, <1>4, TopStepOpen
<1>6. ASSUME NEW n \in SourceLines(Top.file), Ahead(Top, Top.file, n)
      PROVE  LineDone(contents[Top.file][n]) \/ Ahead(o, Top.file, n)
  <2>1. n # Top.next  BY <1>1, LineType DEF ReadLine, SourceLines
  <2>2. n \in Nat /\ Top.next \in Nat
    <3>1. Top.next \in Nat  BY <1>2 DEF OpenFile
    <3>2. contents[Top.file] \in Seq(Line)  BY <1>1, LineType DEF OpenOK
    <3>3. n \in DOMAIN contents[Top.file]  BY <1>4 DEF SourceLines
    <3> QED  BY <3>1, <3>2, <3>3
  <2>3. CASE n >= Top.next  BY <1>3, <2>1, <2>2, <2>3 DEF Ahead
  <2>4. CASE n < Top.next
    <3>1. Readable(contents[Top.file][n]) \subseteq loaded \cup ToSet(Top.todo)
      BY <1>6, <2>2, <2>4 DEF Ahead
    <3> QED  BY <1>3, <3>1 DEF LineDone, ToSet
  <2> QED  BY <2>2, <2>3, <2>4
<1>7. Sourced'  BY <1>3, <1>4, <1>6, TopStepSourced
<1> QED  BY <1>5, <1>7 DEF IInv

\* A source line is at hand, and what it asks for is done or todo.
LEMMA SourceStep ==
    ASSUME IInv, AtLine, NEW o, TopStep(o),
           o.ok = Top.ok, o.next = Top.next + 1,
           \/ Readable(CurrentLine) \subseteq ToSet(o.todo)
           \/ LineDone(CurrentLine)
    PROVE  IInv'
<1>1. OpenOK /\ NestedOnce  BY DEF IInv
<1>2. Top \in OpenFile /\ Top.todo = << >> /\ o.file = Top.file
  BY <1>1, TopType DEF AtLine, TopStep
<1>3. OpenOK' /\ NestedOnce'  BY <1>1, TopStepOpen
<1>4. ASSUME NEW n \in SourceLines(Top.file), Ahead(Top, Top.file, n)
      PROVE  LineDone(contents[Top.file][n]) \/ Ahead(o, Top.file, n)
  <2>1. n \in Nat /\ Top.next \in Nat
    <3>1. Top.next \in Nat  BY <1>2 DEF OpenFile
    <3>2. contents[Top.file] \in Seq(Line)  BY <1>1, LineType DEF OpenOK
    <3>3. n \in DOMAIN contents[Top.file]  BY <1>4 DEF SourceLines
    <3> QED  BY <3>1, <3>2, <3>3
  <2>2. CASE n > Top.next  BY <1>2, <2>1, <2>2 DEF Ahead
  <2>3. CASE n = Top.next
    <3>1. CurrentLine = contents[Top.file][n]  BY <1>1, <2>3, LineType
    <3> QED  BY <1>2, <2>1, <2>3, <3>1 DEF Ahead
  <2>4. CASE n < Top.next
    <3>1. Readable(contents[Top.file][n]) \subseteq loaded \cup ToSet(Top.todo)
      BY <1>4, <2>1, <2>4 DEF Ahead
    <3> QED  BY <1>2, <3>1 DEF LineDone, ToSet
  <2> QED  BY <2>1, <2>2, <2>3, <2>4
<1>5. Sourced'  BY <1>4, TopStepSourced
<1> QED  BY <1>3, <1>5 DEF IInv

\* handle_source: the files of the line are todo, or the pattern does not match.
LEMMA SourceInv == ASSUME IInv, Source PROVE IInv'
<1> DEFINE f == CurrentLine.files
           q == IF f # << >> /\ f[1] \in DOMAIN contents THEN f ELSE << >>
           o == [Top EXCEPT !.next = @ + 1, !.strict = FALSE, !.todo = q]
<1>1. OpenOK /\ NestedOnce /\ AtLine  BY DEF IInv, Source
<1>2. Top \in OpenFile  BY <1>1, TopType DEF AtLine
<1>3. f \in Seq(File) /\ q \in Seq(File)  BY <1>1, LineType DEF Line
<1>4. Readable(CurrentLine) \subseteq ToSet(q) \/ LineDone(CurrentLine)
  <2>1. CASE f = << >>  BY <2>1 DEF Readable, ToSet, LineDone
  <2>2. CASE f # << >> /\ f[1] \in DOMAIN contents  BY <2>2 DEF Readable
  <2>3. CASE f # << >> /\ f[1] \notin DOMAIN contents  BY <2>3 DEF LineDone, Source
  <2> QED  BY <2>1, <2>2, <2>3
<1>5. TopStep(o) /\ o.ok = Top.ok /\ o.next = Top.next + 1 /\ o.todo = q /\ o.file = Top.file
  <2>1. /\ o \in OpenFile /\ o.file = Top.file /\ o.ok = Top.ok
        /\ o.next = Top.next + 1 /\ o.todo = q
    BY <1>2, <1>3, SourceLine
  <2>2. open' = WithTop(o)  BY DEF Source
  <2> HIDE DEF o, q, f
  <2> QED  BY <1>1, <2>1, <2>2 DEF TopStep, Source, AtLine
<1> HIDE DEF o, q, f
<1>6. IInv'  BY <1>1, <1>2, <1>4, <1>5, SourceStep DEF AtLine
<1> QED  BY <1>6

\* handle_source_directory: the regular files of the directory are todo.
LEMMA SourceDirectoryInv == ASSUME IInv, SourceDirectory PROVE IInv'
<1>1. OpenOK /\ NestedOnce /\ AtLine  BY DEF IInv, SourceDirectory
<1>2. Top \in OpenFile  BY <1>1, TopType DEF AtLine
<1>3. CurrentLine.files \in Seq(File)  BY <1>1, LineType DEF Line
<1>4. PICK q \in SetToSeqs(Readable(CurrentLine)) :
          open' = WithTop([Top EXCEPT !.next = @ + 1, !.strict = TRUE, !.todo = q])
  BY DEF SourceDirectory, Readable
<1>5. IsFiniteSet(Readable(CurrentLine))  BY <1>1, <1>3, ReadableFinite DEF Readable
<1>6. q \in Seq(Readable(CurrentLine)) /\ ToSet(q) = Readable(CurrentLine)
  BY <1>5, ListingComplete
<1>7. Readable(CurrentLine) \subseteq File  BY <1>1 DEF Readable, OpenOK
<1>8. q \in Seq(File)  BY <1>6, <1>7
<1> DEFINE o == [Top EXCEPT !.next = @ + 1, !.strict = TRUE, !.todo = q]
<1>9. /\ o \in OpenFile /\ o.file = Top.file /\ o.ok = Top.ok
      /\ o.next = Top.next + 1 /\ o.todo = q /\ open' = WithTop(o)
  BY <1>2, <1>4, <1>8, SourceLine
<1> HIDE DEF o
<1>10. TopStep(o)  BY <1>1, <1>9 DEF TopStep, SourceDirectory, AtLine
<1> QED  BY <1>1, <1>6, <1>9, <1>10, SourceStep

\* An activation is added on top of the others.
LEMMA AppendFacts ==
    ASSUME NEW S, NEW s \in Seq(S), NEW e \in S
    PROVE  /\ Append(s, e) \in Seq(S) /\ Append(s, e) # << >>
           /\ DOMAIN Append(s, e) = DOMAIN s \cup {Len(s) + 1} /\ Len(s) + 1 \notin DOMAIN s
           /\ Append(s, e)[Len(s) + 1] = e
           /\ \A k \in DOMAIN s : Append(s, e)[k] = s[k]
OBVIOUS

\* lif_interface_file_parse opens a file that has not been included.
LEMMA PushInv ==
    ASSUME IInv, pc = "parse", Top.todo # << >>,
           Head(Top.todo) \in DOMAIN contents \ loaded,
           open' = Append(WithTop([Top EXCEPT !.todo = Tail(@)]), Opened(Head(Top.todo))),
           loaded' = loaded \cup {Head(Top.todo)},
           UNCHANGED <<contents, pc>>
    PROVE  IInv'
<1> DEFINE f == Head(Top.todo)
           o == [Top EXCEPT !.todo = Tail(@)]
           w == WithTop(o)
<1>1. OpenOK /\ NestedOnce /\ Sourced  BY DEF IInv
<1>2. /\ Top \in OpenFile /\ Top = open[Len(open)]
      /\ Len(open) \in DOMAIN open /\ Len(open) \in Nat /\ DOMAIN open = 1 .. Len(open)
  BY <1>1, TopType DEF OpenOK
<1>3. Top.todo \in Seq(File)  BY <1>2 DEF OpenFile
<1>4. f \in File /\ Tail(Top.todo) \in Seq(File) /\ ToSet(Top.todo) = {f} \cup ToSet(Tail(Top.todo))
  BY <1>3, TailSet
<1>5. /\ o \in OpenFile /\ o.file = Top.file /\ o.ok = Top.ok
      /\ o.next = Top.next /\ o.todo = Tail(Top.todo)
  BY <1>2, <1>4, RestOfLine
<1>6. Opened(f) \in OpenFile /\ Opened(f).file = f /\ Opened(f).next = 1
  BY <1>4 DEF Opened, OpenFile
<1>7. f \in DOMAIN contents /\ f \notin loaded /\ loaded' = loaded \cup {f}
  OBVIOUS
<1> HIDE DEF f, o
<1>8. /\ w \in Seq(OpenFile) /\ Len(w) = Len(open) /\ DOMAIN w = DOMAIN open
      /\ w[Len(open)] = o /\ \A k \in DOMAIN open \ {Len(open)} : w[k] = open[k]
  BY <1>1, <1>5, WithTopType
<1>9. open' = Append(w, Opened(f))  BY DEF f, o
<1> HIDE DEF w
<1>10. PICK m \in Nat : m = Len(open) + 1  BY <1>2
<1>11. /\ open' \in Seq(OpenFile) /\ open' # << >>
       /\ DOMAIN open' = DOMAIN open \cup {m} /\ m \notin DOMAIN open
       /\ open'[m] = Opened(f)
       /\ \A k \in DOMAIN open : open'[k] = w[k]
  <2>1. Len(w) + 1 = m  BY <1>8, <1>10
  <2> DEFINE a == Append(w, Opened(f))
  <2>2. /\ a \in Seq(OpenFile) /\ a # << >>
        /\ DOMAIN a = DOMAIN w \cup {Len(w) + 1} /\ Len(w) + 1 \notin DOMAIN w
        /\ a[Len(w) + 1] = Opened(f) /\ \A k \in DOMAIN w : a[k] = w[k]
    BY <1>6, <1>8, AppendFacts
  <2>3. open' = a  BY <1>9
  <2> HIDE DEF a
  <2> QED  BY <1>8, <2>1, <2>2, <2>3
<1>20. OpenOK'  BY <1>1, <1>7, <1>11 DEF OpenOK
<1>12. \A k \in DOMAIN open : open'[k].file = open[k].file
  BY <1>2, <1>5, <1>8, <1>11
<1>13. NestedOnce'
  <2>1. \A k \in DOMAIN open : open'[k].file \in loaded  BY <1>1, <1>12 DEF NestedOnce
  <2>2. open'[m].file = f  BY <1>6, <1>11
  <2>3. \A k \in DOMAIN open' : open'[k].file \in loaded'  BY <1>7, <1>11, <2>1, <2>2
  <2>4. ASSUME NEW j \in DOMAIN open', NEW k \in DOMAIN open', open'[j].file = open'[k].file
        PROVE  j = k
    <3>1. CASE j \in DOMAIN open /\ k \in DOMAIN open
      BY <1>1, <1>12, <2>4, <3>1 DEF NestedOnce
    <3>2. CASE j = m \/ k = m  BY <1>7, <1>11, <2>1, <2>2, <2>4, <3>2
    <3> QED  BY <1>11, <3>1, <3>2
  <2> QED  BY <2>3, <2>4 DEF NestedOnce
<1>14. Sourced'
  <2> SUFFICES ASSUME AllWell', NEW g \in loaded', NEW n \in SourceLines(g)
               PROVE  \/ LineDone(contents[g][n])'
                      \/ \E k \in DOMAIN open' : Ahead(open[k], g, n)'
    BY DEF Sourced, SourceLines
  <2>1. CASE g = f
    <3>1. contents[f] \in Seq(Line)  BY <1>1, <1>7 DEF OpenOK
    <3>2. n \in Nat /\ n >= 1  BY <2>1, <3>1 DEF SourceLines
    <3>3. Ahead(open[m], g, n)'
      <4>1. open'[m].file = g /\ n >= open'[m].next
        BY <1>6, <1>11, <2>1, <3>2
      <4> QED  BY <4>1 DEF Ahead
    <3> QED  BY <1>11, <3>3
  <2>2. CASE g # f
    <3>1. g \in loaded  BY <1>7, <2>2
    <3>2. \A k \in DOMAIN open : open[k].ok
      <4>1. \A k \in DOMAIN open : open'[k].ok  BY <1>11 DEF AllWell
      <4> QED  BY <1>2, <1>5, <1>8, <1>11, <4>1
    <3>3. LineDone(contents[g][n]) \/ \E k \in DOMAIN open : Ahead(open[k], g, n)
      BY <1>1, <3>1, <3>2 DEF Sourced, AllWell
    <3>4. CASE LineDone(contents[g][n])  BY <1>7, <3>4 DEF LineDone, Readable
    <3>5. ASSUME NEW k \in DOMAIN open, Ahead(open[k], g, n)
          PROVE  \E j \in DOMAIN open' : Ahead(open[j], g, n)'
      <4>1. open'[k].file = g /\ open'[k].next = open[k].next
        BY <1>2, <1>5, <1>8, <1>11, <3>5 DEF Ahead
      <4>2. ToSet(open[k].todo) \subseteq {f} \cup ToSet(open'[k].todo)
        <5>1. CASE k = Len(open)
          <6>1. open[k] = Top /\ open'[k] = o  BY <1>2, <1>8, <1>11, <5>1
          <6> QED  BY <1>4, <1>5, <6>1
        <5>2. CASE k # Len(open)
          <6>1. open'[k] = open[k]  BY <1>8, <1>11, <3>5, <5>2
          <6> QED  BY <6>1
        <5> QED  BY <5>1, <5>2
      <4>3. open'[k].file = g /\ (n >= open'[k].next \/ (n = open'[k].next - 1
                /\ Readable(contents[g][n]) \subseteq loaded \cup {f} \cup ToSet(open'[k].todo)))
        BY <3>5, <4>1, <4>2 DEF Ahead
      <4> QED  BY <1>7, <1>11, <4>3 DEF Ahead, Readable
    <3> QED  BY <3>3, <3>4, <3>5
  <2> QED  BY <2>1, <2>2
<1> QED  BY <1>13, <1>14, <1>20 DEF IInv

\* The next file of a source line, whatever becomes of it.
LEMMA OpenNextInv == ASSUME IInv, OpenNext PROVE IInv'
<1> DEFINE f == Head(Top.todo)
           o == [Top EXCEPT !.todo = Tail(@)]
<1>1. OpenOK /\ NestedOnce /\ pc = "parse" /\ Top.todo # << >>  BY DEF IInv, OpenNext
<1>2. Top \in OpenFile /\ Top.todo \in Seq(File)  BY <1>1, TopType DEF OpenFile
<1>3. Tail(Top.todo) \in Seq(File) /\ ToSet(Top.todo) = {f} \cup ToSet(Tail(Top.todo))
  BY <1>1, <1>2, TailSet
<1>4. /\ o \in OpenFile /\ o.file = Top.file /\ o.ok = Top.ok
      /\ o.next = Top.next /\ o.todo = Tail(Top.todo)
  BY <1>2, <1>3, RestOfLine
<1>5. UNCHANGED <<contents, pc>>  BY DEF OpenNext
<1>6. \/ f \in loaded /\ open' = WithTop(o) /\ UNCHANGED loaded
      \/ open' = WithTop(Failed(o)) /\ UNCHANGED loaded
      \/ /\ f \in DOMAIN contents \ loaded
         /\ open' = Append(WithTop(o), Opened(f))
         /\ loaded' = loaded \cup {f}
  BY DEF OpenNext
<1>7. CASE f \in loaded /\ open' = WithTop(o) /\ UNCHANGED loaded
  <2> HIDE DEF f, o
  <2>1. TopStep(o)  BY <1>1, <1>4, <1>5, <1>7 DEF TopStep
  <2>2. ASSUME NEW n \in SourceLines(Top.file), Ahead(Top, Top.file, n)
        PROVE  Ahead(o, Top.file, n)
    BY <1>3, <1>4, <1>7, <2>2 DEF Ahead
  <2>3. Sourced'  BY <1>4, <2>1, <2>2, TopStepSourced
  <2> QED  BY <1>1, <2>1, <2>3, TopStepOpen DEF IInv
<1>8. CASE open' = WithTop(Failed(o)) /\ UNCHANGED loaded
  <2> HIDE DEF f, o
  <2>1. /\ Failed(o) \in OpenFile /\ Failed(o).file = Top.file /\ ~Failed(o).ok
    BY <1>4, FailedType
  <2>2. TopStep(Failed(o))  BY <1>1, <1>5, <1>8, <2>1 DEF TopStep
  <2>3. Sourced'  BY <2>1, <2>2, TopStepSourced
  <2> QED  BY <1>1, <2>2, <2>3, TopStepOpen DEF IInv
<1>9. CASE /\ f \in DOMAIN contents \ loaded
           /\ open' = Append(WithTop(o), Opened(f))
           /\ loaded' = loaded \cup {f}
  BY <1>1, <1>5, <1>9, PushInv
<1> QED  BY <1>6, <1>7, <1>8, <1>9

-----------------------------------------------------------------------------
(* Steps back to the file that sourced this one, and what comes after.     *)

\* All activations but the innermost.
LEMMA FrontFacts ==
    ASSUME OpenOK, pc = "parse"
    PROVE  /\ Front(open) \in Seq(OpenFile) /\ Len(Front(open)) = Len(open) - 1
           /\ DOMAIN Front(open) = DOMAIN open \ {Len(open)}
           /\ \A k \in DOMAIN open \ {Len(open)} : Front(open)[k] = open[k]
           /\ Len(open) = 1 <=> Front(open) = << >>
<1>1. open \in Seq(OpenFile) /\ open # << >>  BY DEF OpenOK
<1>2. Len(open) \in Nat /\ Len(open) >= 1 /\ DOMAIN open = 1 .. Len(open)  BY <1>1
<1>3. /\ Front(open) \in Seq(OpenFile) /\ Len(Front(open)) = Len(open) - 1
      /\ \A k \in 1 .. Len(open) - 1 : Front(open)[k] = open[k]
  BY <1>1, <1>2 DEF Front
<1>4. DOMAIN Front(open) = 1 .. Len(open) - 1  BY <1>2, <1>3
<1> QED  BY <1>2, <1>3, <1>4

\* A file that has been read to its end has no source line left.
LEMMA EndOfFileInv == ASSUME IInv, EndOfFile PROVE IInv'
<1>1. OpenOK /\ NestedOnce /\ Sourced /\ pc = "parse"  BY DEF IInv, EndOfFile
<1>2. /\ Top \in OpenFile /\ Top = open[Len(open)] /\ Len(open) \in DOMAIN open
      /\ Top.todo = << >> /\ Top.next > Len(contents[Top.file])
  BY <1>1, TopType DEF EndOfFile
<1>3. /\ open' \in Seq(OpenFile) /\ DOMAIN open' = DOMAIN open \ {Len(open)}
      /\ \A k \in DOMAIN open' : open'[k] = open[k]
      /\ Len(open) = 1 <=> open' = << >>
  BY <1>1, FrontFacts DEF EndOfFile
<1>4. /\ contents' = contents /\ loaded' = loaded
      /\ pc' = IF Len(open) = 1 THEN "parsed" ELSE "parse"
  BY <1>1 DEF EndOfFile
<1>5. OpenOK'  BY <1>1, <1>3, <1>4 DEF OpenOK
<1>6. NestedOnce'  BY <1>1, <1>3, <1>4 DEF NestedOnce
<1>7. Sourced'
  <2> SUFFICES ASSUME AllWell', NEW f \in loaded, NEW n \in SourceLines(f)
               PROVE  \/ LineDone(contents[f][n])
                      \/ \E k \in DOMAIN open' : Ahead(open[k], f, n)
    BY <1>3, <1>4 DEF Sourced, SourceLines, LineDone, Readable, Ahead
  <2>1. AllWell  BY <1>1, <1>2, <1>3 DEF AllWell, EndOfFile
  <2>2. LineDone(contents[f][n]) \/ \E k \in DOMAIN open : Ahead(open[k], f, n)
    BY <1>1, <2>1 DEF Sourced
  <2>3. ASSUME Ahead(Top, f, n) PROVE LineDone(contents[f][n])
    <3>1. contents[f] \in Seq(Line) /\ f = Top.file
      BY <1>1, <2>3 DEF OpenOK, Ahead
    <3>2. n \in Nat /\ n <= Len(contents[f]) /\ Top.next \in Nat
      BY <1>2, <3>1 DEF SourceLines, OpenFile
    <3>3. n < Top.next  BY <1>2, <3>1, <3>2
    <3>4. Readable(contents[f][n]) \subseteq loaded \cup ToSet(Top.todo)
      BY <2>3, <3>2, <3>3 DEF Ahead
    <3> QED  BY <1>2, <3>4 DEF LineDone, ToSet
  <2> QED  BY <1>2, <1>3, <2>2, <2>3
<1> QED  BY <1>5, <1>6, <1>7 DEF IInv

\* A failure is handed to the source line the file was read for.
LEMMA ParseErrorInv == ASSUME IInv, ParseError PROVE IInv'
<1>1. OpenOK /\ NestedOnce /\ pc = "parse" /\ UNCHANGED <<contents, loaded>>
  BY DEF IInv, ParseError
<1>2. Len(open) \in DOMAIN open /\ Len(open) \in Nat \ {0} /\ DOMAIN open = 1 .. Len(open)
  BY <1>1, TopType DEF OpenOK
<1>3. CASE Len(open) = 1
  <2>1. open' = << >> /\ pc' = "failed"  BY <1>3 DEF ParseError
  <2> QED  BY <1>1, <2>1 DEF IInv, OpenOK, NestedOnce, Sourced, AllWell
<1>4. CASE Len(open) # 1
  <2> DEFINE m == Len(open) - 1
             r == Front(open)
  <2>0. m \in DOMAIN open \ {Len(open)}
    <3>1. \A L \in Nat \ {0} : L # 1 => L - 1 \in 1 .. L /\ L - 1 # L
      OBVIOUS
    <3>2. Len(open) - 1 \in 1 .. Len(open) /\ Len(open) - 1 # Len(open)
      <4> HIDE DEF m, r
      <4> QED  BY ONLY <1>2, <1>4, <3>1
    <3> QED  BY <1>2, <3>2
  <2>2. open' = [r EXCEPT ![m] = Failed(r[m])] /\ pc' = "parse"
    BY <1>1, <1>4 DEF ParseError
  <2> HIDE DEF m
  <2>1. /\ r \in Seq(OpenFile) /\ DOMAIN r = DOMAIN open \ {Len(open)}
        /\ m \in DOMAIN r /\ \A k \in DOMAIN r : r[k] = open[k]
    BY <1>1, <2>0, FrontFacts
  <2> HIDE DEF r
  <2>3. r[m] \in OpenFile  BY <2>1
  <2>4. Failed(r[m]) \in OpenFile /\ Failed(r[m]).file = r[m].file /\ ~Failed(r[m]).ok
    BY <2>3, FailedType
  <2>5. /\ open' \in Seq(OpenFile) /\ DOMAIN open' = DOMAIN r /\ open' # << >>
        /\ ~open'[m].ok /\ \A k \in DOMAIN r : open'[k].file = open[k].file
    BY <2>1, <2>2, <2>4
  <2>6. OpenOK'  BY <1>1, <2>2, <2>5 DEF OpenOK
  <2>7. NestedOnce'  BY <1>1, <2>1, <2>5 DEF NestedOnce
  <2>8. Sourced'  BY <2>1, <2>5 DEF Sourced, AllWell
  <2> QED  BY <2>6, <2>7, <2>8 DEF IInv
<1> QED  BY <1>3, <1>4

\* lif_lifecycle_count_rdepends and lif_compat_apply read no file.
LEMMA LaterInv ==
    ASSUME IInv, UNCHANGED <<contents, open, loaded>>,
           \/ pc' = pc
           \/ pc = "parsed" /\ pc' = "compat"
           \/ pc = "compat" /\ pc' = "done"
    PROVE  IInv'
<1>1. OpenOK'  BY DEF IInv, OpenOK
<1>2. NestedOnce'  BY DEF IInv, NestedOnce
<1>3. Sourced'
  BY DEF IInv, Sourced, AllWell, SourceLines, LineDone, Readable, Ahead
<1> QED  BY <1>1, <1>2, <1>3 DEF IInv

-----------------------------------------------------------------------------
(* The theorems.                                                           *)

LEMMA NextInv == IInv /\ [Next]_vars => IInv'
<1> SUFFICES ASSUME IInv, [Next]_vars PROVE IInv'  OBVIOUS
<1>1. CASE ReadLine  BY <1>1, ReadLineInv
<1>2. CASE Source  BY <1>2, SourceInv
<1>3. CASE SourceDirectory  BY <1>3, SourceDirectoryInv
<1>4. CASE OpenNext  BY <1>4, OpenNextInv
<1>5. CASE EndOfFile  BY <1>5, EndOfFileInv
<1>6. CASE ParseError  BY <1>6, ParseErrorInv
<1>7. CASE CountDependents  BY <1>7, LaterInv DEF CountDependents
<1>8. CASE CompatBridge  BY <1>8, LaterInv DEF CompatBridge
<1>9. CASE CompatDone  BY <1>9, LaterInv DEF CompatDone
<1>10. CASE UNCHANGED vars  BY <1>10, LaterInv DEF vars
<1> QED
  BY <1>1, <1>2, <1>3, <1>4, <1>5, <1>6, <1>7, <1>8, <1>9, <1>10 DEF Next, Step, Finished

LEMMA Invariance == Spec => []IInv
BY InitInv, NextInv, PTL DEF Spec

\* However the files source each other, none is opened while it is being parsed:
\* the nesting of lif_interface_file_parse is bounded by the number of files.
THEOREM NeverNested == Spec => []NestedOnce
<1>1. IInv => NestedOnce  BY DEF IInv
<1> QED  BY <1>1, Invariance, PTL

\* A parse that succeeds has read every file that the parsed files name, in
\* whichever order and however often they name it (handle_source,
\* handle_source_directory).
THEOREM EverythingSourced == Spec => []AllSourced
<1>1. IInv => AllSourced
  <2> SUFFICES ASSUME IInv, pc \in {"parsed", "compat", "done"},
                      NEW f \in loaded, NEW n \in SourceLines(f)
               PROVE  LineDone(contents[f][n])
    BY DEF AllSourced, LineDone, Readable
  <2>1. open = << >>  BY DEF IInv, OpenOK
  <2> QED  BY <2>1 DEF IInv, Sourced, AllWell
<1> QED  BY <1>1, Invariance, PTL
=============================================================================
