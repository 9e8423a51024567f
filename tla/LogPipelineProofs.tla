-------------------------- MODULE LogPipelineProofs --------------------------
(***************************************************************************)
(* For any sources, subscribers, buffer sizes and numbers of lines,        *)
(* rotations and refreshes: every stream is in order and free of           *)
(* repetitions, it is complete for those who keep up, and the file that is *)
(* followed is read without a gap.                                         *)
(***************************************************************************)
EXTENDS LogPipeline, SequenceTheorems, WellFoundedInduction, TLAPS

\* One write to a log, and what is broadcast of a line.
Piece == [n : Nat, head : BOOLEAN, end : BOOLEAN]
Msg == [n : Nat, whole : BOOLEAN]

-----------------------------------------------------------------------------
(* Streams of lines *)

\* A non-empty set of naturals has a least element: Min is what it says.
LEMMA MinOfNaturals ==
    ASSUME NEW T, T \subseteq Nat, T # {}
    PROVE  Min(T) \in T /\ \A y \in T : Min(T) <= y
  <1>1. PICK x \in T : \A y \in T : ~(<<y, x>> \in OpToRel(<, Nat))
    BY NatLessThanWellFounded, WFMin
  <1>2. \A y \in T : x <= y
    <2> SUFFICES ASSUME NEW y \in T, y < x PROVE FALSE
      OBVIOUS
    <2> DEFINE p == <<y, x>>
    <2>1. p \in Nat \X Nat
      OBVIOUS
    <2>2. p[1] < p[2]
      OBVIOUS
    <2> HIDE DEF p
    <2>3. p \in OpToRel(<, Nat)
      BY <2>1, <2>2, Zenon DEF OpToRel
    <2> QED BY <1>1, <2>3 DEF p
  <1> QED BY <1>2 DEF Min

\* A line with a number beyond those of a stream may be added to it.
LEMMA AppendLine ==
    ASSUME NEW q \in Seq(Msg), NEW m \in Msg
    PROVE  /\ Lines(Append(q, m)) = Lines(q) \cup {m.n}
           /\ (Increasing(Numbers(q)) /\ \A n \in Lines(q) : n < m.n) => Increasing(Numbers(Append(q, m)))
  <1> DEFINE r == Append(q, m)
  <1>1. /\ r \in Seq(Msg) /\ Len(r) = Len(q) + 1 /\ Len(q) \in Nat
        /\ DOMAIN r = 1..Len(q) + 1 /\ DOMAIN q = 1..Len(q)
        /\ \A i \in 1..Len(q) : r[i] = q[i]
        /\ r[Len(q) + 1] = m
    BY AppendProperties, LenProperties
  <1> HIDE DEF r
  <1>2. Lines(r) = Lines(q) \cup {m.n}
    BY <1>1 DEF Lines
  <1>3. ASSUME Increasing(Numbers(q)), \A n \in Lines(q) : n < m.n
        PROVE  Increasing(Numbers(r))
    <2> SUFFICES ASSUME NEW i \in 1..Len(q) + 1, NEW j \in 1..Len(q) + 1, i < j PROVE r[i].n < r[j].n
      BY <1>1 DEF Increasing, Numbers
    <2>1. CASE j = Len(q) + 1
      BY <1>1, <1>3, <2>1 DEF Lines
    <2>2. CASE j # Len(q) + 1
      BY <1>1, <1>3, <2>2 DEF Increasing, Numbers
    <2> QED BY <2>1, <2>2
  <1> QED BY <1>2, <1>3 DEF r

\* What one subscriber gets stays the same while a handler takes a line off the
\* buffer and while it finishes it.
LEMMA StreamShape ==
    ASSUME NEW a \in Seq(Msg), NEW b \in Seq(Msg), NEW c \in Seq(Msg)
    PROVE  /\ a \o b \o c \in Seq(Msg)
           /\ (b = <<>> /\ c # <<>>) => a \o <<Head(c)>> \o Tail(c) = a \o b \o c
           /\ Len(b) = 1 => Append(a, b[1]) \o <<>> \o c = a \o b \o c
  <1>1. a \o b \in Seq(Msg) /\ a \o b \o c \in Seq(Msg)
    BY ConcatProperties
  <1>3. ASSUME b = <<>>, c # <<>>
        PROVE  a \o <<Head(c)>> \o Tail(c) = a \o b \o c
    <2>1. a \o b = a
      BY <1>3, ConcatEmptySeq
    <2>2. Head(c) \in Msg /\ Tail(c) \in Seq(Msg) /\ <<Head(c)>> \in Seq(Msg)
      BY <1>3, HeadTailProperties
    <2>3. <<Head(c)>> \o Tail(c) = c
      BY <1>3, <2>2, SMT
    <2>4. (a \o <<Head(c)>>) \o Tail(c) = a \o (<<Head(c)>> \o Tail(c))
      BY <2>2, ConcatAssociative
    <2> QED BY <2>1, <2>3, <2>4
  <1>4. ASSUME Len(b) = 1
        PROVE  Append(a, b[1]) \o <<>> \o c = a \o b \o c
    <2>1. b[1] \in Msg
      <3>1. 1 \in 1..Len(b)
        BY <1>4
      <3> QED BY <3>1, ElementOfSeq
    <2>2. Append(a, b[1]) \in Seq(Msg)
      BY <2>1, AppendProperties
    <2>3. Append(a, b[1]) \o <<>> = Append(a, b[1])
      BY <2>2, ConcatEmptySeq
    <2>4. Append(a, b[1]) = a \o b
      <3> DEFINE e == b[1]
      <3>1. e \in Msg /\ \A i \in 1..1 : b[i] = e
        BY <2>1
      <3> HIDE DEF e
      <3>2. /\ Append(a, e) \in Seq(Msg) /\ Len(Append(a, e)) = Len(a) + 1 /\ Len(a) \in Nat
            /\ \A i \in 1..Len(a) : Append(a, e)[i] = a[i]
            /\ Append(a, e)[Len(a) + 1] = e
        BY <3>1, AppendProperties, LenProperties
      <3>3. /\ a \o b \in Seq(Msg) /\ Len(a \o b) = Len(a) + 1
            /\ \A i \in 1..Len(a) + 1 : (a \o b)[i] = IF i <= Len(a) THEN a[i] ELSE b[i - Len(a)]
        <4>1. /\ a \o b \in Seq(Msg) /\ Len(a \o b) = Len(a) + Len(b)
              /\ \A i \in 1..Len(a) + Len(b) : (a \o b)[i] = IF i <= Len(a) THEN a[i] ELSE b[i - Len(a)]
          BY ConcatProperties
        <4> QED BY <1>4, <4>1, Zenon
      <3>4. \A i \in 1..Len(Append(a, e)) : Append(a, e)[i] = (a \o b)[i]
        BY <3>1, <3>2, <3>3
      <3>5. Append(a, e) = a \o b
        BY <3>2, <3>3, <3>4, SeqEqual
      <3> QED BY <3>5 DEF e
    <2> QED BY <2>3, <2>4
  <1> QED BY <1>1, <1>3, <1>4

-----------------------------------------------------------------------------
(* The invariant *)

\* How many lines are finished: all that were begun, but for a last one of
\* which only the beginning is written.
Finished == IF Half THEN written - 1 ELSE written

LogTypeOK ==
    /\ file \in Seq(Seq(Piece)) /\ file # <<>>
    /\ path \in 0..Len(file) /\ written \in Nat
    /\ reader \in [st : {"none", "open", "closed", "dead"}, gen : Nat, from : Nat, pos : Nat]
    /\ reader.st = "open" => reader.gen \in 1..Len(file) /\ reader.pos <= Len(file[reader.gen])
    /\ reading => reader.st = "open" /\ ~Journal
    /\ due => Journal
    /\ Journal => /\ reader.st = "open" => reader.gen = 1
                  /\ ~watching
                  /\ \A i \in 1..Len(file[1]) : file[1][i].end

StreamTypeOK ==
    /\ read \in Seq(Msg)
    /\ done \in [Subs -> Seq(Msg)] /\ busy \in [Subs -> Seq(Msg)] /\ buf \in [Subs -> Seq(Msg)]
    /\ \A s \in Subs : Len(busy[s]) <= 1

\* The writes of one file that end a line do so in the order of the lines, and
\* only finished lines are ended.
LinesInOrder ==
    \A g \in 1..Len(file) : \A i \in 1..Len(file[g]) :
        file[g][i].end =>
            /\ file[g][i].n <= Finished
            /\ \A j \in 1..Len(file[g]) : i < j /\ file[g][j].end => file[g][i].n < file[g][j].n

\* What was read is finished, and what is left to read comes after it.
ReadInOrder ==
    /\ \A n \in Lines(read) : n <= Finished
    /\ reader.st = "open" =>
           \A i \in 1..Len(file[reader.gen]) :
               i > reader.pos /\ file[reader.gen][i].end => \A n \in Lines(read) : n < file[reader.gen][i].n

\* The writes of one file are in the order of their lines, and the last one is
\* the beginning of the last line if that is half-written.
PiecesInOrder ==
    /\ \A g \in 1..Len(file) : \A i \in 1..Len(file[g]) :
           /\ file[g][i].n <= written
           /\ \A j \in 1..Len(file[g]) : i < j => file[g][i].n <= file[g][j].n
    /\ Half => /\ Len(file[Len(file)]) # 0
               /\ file[Len(file)][Len(file[Len(file)])].n = written
               /\ file[Len(file)][Len(file[Len(file)])].head
               /\ ~file[Len(file)][Len(file[Len(file)])].end

\* The beginning of the line of the write at i is still to be read.
HeadLeft(i) ==
    \E j \in 1..Len(file[reader.gen]) :
        j > reader.pos /\ file[reader.gen][j].n = file[reader.gen][i].n /\ file[reader.gen][j].head

\* What is left to read of a file has its beginnings, but for the lines cut; the
\* line being written is cut once the reader is past it.
CutsKnown ==
    (reader.st = "open" /\ ~Journal) =>
        /\ \A i \in 1..Len(file[reader.gen]) :
               i > reader.pos /\ file[reader.gen][i].end => (HeadLeft(i) <=> file[reader.gen][i].n \notin cut)
        /\ (Half /\ reader.gen = Len(file)) => (written \in cut <=> reader.pos = Len(file[reader.gen]))

CutInv ==
    /\ cut \subseteq Nat /\ \A n \in cut : n <= written
    /\ Journal => cut = {}
    /\ PiecesInOrder /\ CutsKnown /\ WholeUnlessCut

PipelineInv ==
    /\ LogTypeOK /\ StreamTypeOK
    /\ LinesInOrder /\ ReadInOrder
    /\ StreamsAreFaithful /\ NoGap /\ CutInv

-----------------------------------------------------------------------------
(* Steps of the observer's subscribers *)

\* A step that neither broadcasts nor handles leaves the streams alone.
LEMMA StreamsKept ==
    ASSUME StreamTypeOK, StreamsAreFaithful, UNCHANGED <<source, read, done, busy, buf, full>>
    PROVE  StreamTypeOK' /\ StreamsAreFaithful'
  <1>1. Subs' = Subs
    BY DEF Subs
  <1>2. StreamTypeOK'
    BY <1>1 DEF StreamTypeOK
  <1>3. \A s \in Subs : Stream(s)' = Stream(s)
    BY DEF Stream
  <1>4. StreamsAreFaithful'
    BY <1>1, <1>3 DEF StreamsAreFaithful
  <1> QED BY <1>2, <1>4

\* Broadcast adds a later line to the streams of those who have room, whatever
\* the others' buffers are like.
LEMMA BroadcastKeepsStreams ==
    ASSUME StreamTypeOK, StreamsAreFaithful, NEW m \in Msg, Broadcast(m),
           UNCHANGED <<source, done, busy>>,
           \A n \in Lines(read) : n < m.n
    PROVE  /\ StreamTypeOK' /\ StreamsAreFaithful'
           /\ Lines(read') = Lines(read) \cup {m.n}
  <1>1. Subs' = Subs
    BY DEF Subs
  <1>2. read' = Append(read, m) /\ read \in Seq(Msg) /\ read' \in Seq(Msg)
    BY AppendProperties DEF Broadcast, StreamTypeOK
  <1>3. Lines(read') = Lines(read) \cup {m.n} /\ Increasing(Numbers(read'))
    BY <1>2, AppendLine DEF StreamsAreFaithful
  <1>4. ASSUME NEW s \in Subs
        PROVE  /\ buf'[s] = IF Len(buf[s]) < BufferSize THEN Append(buf[s], m) ELSE buf[s]
               /\ s \notin full' => s \notin full /\ Len(buf[s]) < BufferSize
    <2>1. Len(buf[s]) \in Nat
      BY LenProperties DEF StreamTypeOK
    <2> QED BY <2>1, BufferSizeAssumption DEF Broadcast
  <1>5. ASSUME NEW s \in Subs PROVE buf'[s] \in Seq(Msg)
    <2>1. buf[s] \in Seq(Msg)
      BY DEF StreamTypeOK
    <2>2. Append(buf[s], m) \in Seq(Msg)
      BY <2>1, AppendProperties
    <2> QED BY <1>4, <2>1, <2>2
  <1>6. buf' \in [Subs -> Seq(Msg)]
    <2>1. buf' = [s \in Subs |-> buf'[s]]
      BY DEF Broadcast
    <2> QED BY <1>5, <2>1
  <1>7. StreamTypeOK'
    BY <1>1, <1>2, <1>6 DEF StreamTypeOK
  <1>8. ASSUME NEW s \in Subs
        PROVE  /\ Increasing(Numbers(Stream(s)'))
               /\ Lines(Stream(s)') \subseteq Lines(read')
               /\ s \notin full' => Stream(s)' = read'
    <2>1. done[s] \in Seq(Msg) /\ busy[s] \in Seq(Msg) /\ buf[s] \in Seq(Msg)
      BY DEF StreamTypeOK
    <2>2. /\ Increasing(Numbers(Stream(s))) /\ Lines(Stream(s)) \subseteq Lines(read)
          /\ s \notin full => Stream(s) = read
      BY DEF StreamsAreFaithful
    <2>3. CASE Len(buf[s]) < BufferSize
      <3>1. buf'[s] = Append(buf[s], m)
        BY <1>4, <2>3
      <3>2. Stream(s)' = Append(Stream(s), m) /\ Stream(s) \in Seq(Msg)
        <4>1. /\ done[s] \o busy[s] \o buf[s] \in Seq(Msg)
              /\ done[s] \o busy[s] \o Append(buf[s], m) = Append(done[s] \o busy[s] \o buf[s], m)
          <5> DEFINE x == done[s] \o busy[s]
                     c == buf[s]
          <5>1. x \in Seq(Msg) /\ c \in Seq(Msg) /\ m \in Msg
            BY <2>1, ConcatProperties
          <5> HIDE DEF x, c
          <5>2. x \o c \in Seq(Msg) /\ x \o Append(c, m) = Append(x \o c, m)
            BY <5>1, SMT
          <5> QED BY <5>2 DEF x, c
        <4>2. Stream(s)' = done[s] \o busy[s] \o Append(buf[s], m)
          BY <3>1, Zenon DEF Stream
        <4> QED BY <4>1, <4>2, Zenon DEF Stream
      <3>3. \A n \in Lines(Stream(s)) : n < m.n
        BY <2>2
      <3>4. Lines(Stream(s)') = Lines(Stream(s)) \cup {m.n} /\ Increasing(Numbers(Stream(s)'))
        BY <3>2, <3>3, <2>2, AppendLine
      <3> QED BY <1>2, <1>3, <1>4, <2>2, <3>2, <3>4
    <2>4. CASE ~(Len(buf[s]) < BufferSize)
      <3>1. Stream(s)' = Stream(s) /\ s \in full'
        BY <1>4, <2>4 DEF Stream
      <3> QED BY <1>3, <2>2, <3>1
    <2> QED BY <2>3, <2>4
  <1>9. StreamsAreFaithful'
    BY <1>1, <1>3, <1>8 DEF StreamsAreFaithful
  <1> QED BY <1>3, <1>7, <1>9

\* A handler takes a line off its buffer or finishes it: no stream changes.
LEMMA HandlersKeepStreams ==
    ASSUME StreamTypeOK, StreamsAreFaithful, NEW s \in Subs, Receive(s) \/ HandlerReturns(s)
    PROVE  StreamTypeOK' /\ StreamsAreFaithful'
  <1>1. UNCHANGED <<source, read, full>> /\ Subs' = Subs
    BY DEF Receive, HandlerReturns, logVars, histVars, Subs
  <1>2. done[s] \in Seq(Msg) /\ busy[s] \in Seq(Msg) /\ buf[s] \in Seq(Msg) /\ Len(busy[s]) <= 1
    BY DEF StreamTypeOK
  <1>3. /\ StreamTypeOK' /\ Stream(s)' = Stream(s)
        /\ \A t \in Subs \ {s} : done'[t] = done[t] /\ busy'[t] = busy[t] /\ buf'[t] = buf[t]
    <2>1. CASE Receive(s)
      <3>1. /\ busy[s] = <<>> /\ buf[s] # <<>> /\ done' = done
            /\ busy' = [busy EXCEPT ![s] = <<Head(buf[s])>>]
            /\ buf' = [buf EXCEPT ![s] = Tail(buf[s])]
        BY <2>1 DEF Receive
      <3>2. <<Head(buf[s])>> \in Seq(Msg) /\ Tail(buf[s]) \in Seq(Msg) /\ Len(<<Head(buf[s])>>) = 1
        BY <1>2, <3>1, HeadTailProperties
      <3>3. busy'[s] = <<Head(buf[s])>> /\ buf'[s] = Tail(buf[s])
        BY <3>1 DEF StreamTypeOK
      <3>4. Stream(s)' = Stream(s)
        <4> DEFINE m == Head(buf[s])
        <4>1. m \in Msg
          BY <1>2, <3>1, HeadTailProperties
        <4>2. done[s] \o <<Head(buf[s])>> \o Tail(buf[s]) = done[s] \o busy[s] \o buf[s]
          BY <1>2, <3>1, <4>1, StreamShape, Zenon
        <4>3. Stream(s)' = done[s] \o <<Head(buf[s])>> \o Tail(buf[s])
          BY <3>1, <3>3, Zenon DEF Stream
        <4> QED BY <4>2, <4>3, Zenon DEF Stream
      <3>5. StreamTypeOK'
        BY <1>1, <3>1, <3>2 DEF StreamTypeOK
      <3> QED BY <3>1, <3>4, <3>5 DEF StreamTypeOK
    <2>2. CASE HandlerReturns(s)
      <3>1. /\ busy[s] # <<>> /\ buf' = buf
            /\ busy' = [busy EXCEPT ![s] = <<>>]
            /\ done' = [done EXCEPT ![s] = Append(done[s], busy[s][1])]
        BY <2>2 DEF HandlerReturns
      <3>2. Len(busy[s]) = 1
        <4>1. Len(busy[s]) \in Nat \ {0}
          BY <1>2, <3>1, EmptySeq, Zenon
        <4>2. Len(busy[s]) <= 1
          BY <1>2
        <4> DEFINE k == Len(busy[s])
        <4> HIDE DEF k
        <4>3. k \in Nat \ {0} /\ k <= 1
          BY <4>1, <4>2 DEF k
        <4>4. k = 1
          BY <4>3
        <4> QED BY <4>4 DEF k
      <3>3. busy[s][1] \in Msg
        BY <1>2, <3>2, ElementOfSeq
      <3>4. Append(done[s], busy[s][1]) \in Seq(Msg) /\ <<>> \in Seq(Msg) /\ Len(<<>>) = 0
        BY <1>2, <3>3, AppendProperties, EmptySeq
      <3>5. busy'[s] = <<>> /\ done'[s] = Append(done[s], busy[s][1])
        BY <3>1 DEF StreamTypeOK
      <3>6. Stream(s)' = Stream(s)
        <4>1. Append(done[s], busy[s][1]) \o <<>> \o buf[s] = done[s] \o busy[s] \o buf[s]
          BY <1>2, <3>2, <3>3, StreamShape, Zenon
        <4>2. Stream(s)' = Append(done[s], busy[s][1]) \o <<>> \o buf[s]
          BY <3>1, <3>5, Zenon DEF Stream
        <4> QED BY <4>1, <4>2, Zenon DEF Stream
      <3>7. StreamTypeOK'
        BY <1>1, <3>1, <3>4 DEF StreamTypeOK
      <3> QED BY <3>1, <3>6, <3>7 DEF StreamTypeOK
    <2> QED BY <2>1, <2>2
  <1>4. \A t \in Subs : Stream(t)' = Stream(t)
    BY <1>3 DEF Stream
  <1>5. StreamsAreFaithful'
    BY <1>1, <1>4 DEF StreamsAreFaithful
  <1> QED BY <1>3, <1>5

-----------------------------------------------------------------------------
(* Steps of the log *)

LogInv == LogTypeOK /\ LinesInOrder /\ ReadInOrder /\ NoGap

\* A gap in the followed file, write by write.
Covered(k) ==
    (reader.from < k /\ k <= reader.pos /\ file[reader.gen][k].end) =>
        file[reader.gen][k].n \in Lines(read) \cup unreadable

\* No finished line is skipped when no write is a gap.
LEMMA FollowedMeansCovered ==
    NoGap <=>
        ((~Journal /\ reader.st = "open") => \A k \in DOMAIN file[reader.gen] : Covered(k))
  BY DEF NoGap, Skipped, Covered

\* A write ends the last line, or begins the next one.
LEMMA WriteShape ==
    ASSUME LogTypeOK, NEW h \in BOOLEAN, NEW e \in BOOLEAN, h \/ e, Write(h, e)
    PROVE  \E p \in Piece :
              /\ p.end <=> e
              /\ Len(file') = Len(file) /\ file' \in Seq(Seq(Piece)) /\ file' # <<>>
              /\ \A g \in 1..Len(file) : g # Len(file) => file'[g] = file[g]
              /\ Len(file'[Len(file)]) = Len(file[Len(file)]) + 1
              /\ \A i \in 1..Len(file[Len(file)]) : file'[Len(file)][i] = file[Len(file)][i]
              /\ file'[Len(file)][Len(file[Len(file)]) + 1] = p
              /\ written' \in Nat /\ Finished \in Int /\ Finished' \in Int
              /\ Finished <= Finished'
              /\ e => Finished < p.n /\ p.n <= Finished'
              /\ p.n = written' /\ (p.head <=> h) /\ written' = IF h THEN written + 1 ELSE written
              /\ (Half' <=> ~e) /\ (Half <=> ~h)
  <1> DEFINE L == Len(file)
             old == file[L]
             p == [n |-> written', head |-> h, end |-> e]
  <1>1. L \in 1..L /\ L \in Nat /\ old \in Seq(Piece) /\ Len(old) \in Nat /\ file \in Seq(Seq(Piece))
    <2>1. file \in Seq(Seq(Piece)) /\ file # <<>>
      BY DEF LogTypeOK
    <2>2. L \in Nat \ {0}
      BY <2>1, EmptySeq, Zenon
    <2>3. L \in 1..L
      BY <2>2
    <2>4. old \in Seq(Piece)
      BY <2>1, <2>3, ElementOfSeq
    <2> QED BY <2>1, <2>2, <2>3, <2>4, LenProperties
  <1>2. written \in Nat /\ written' = IF h THEN written + 1 ELSE written
    BY DEF Write, LogTypeOK
  <1>3. p \in Piece /\ (p.end <=> e) /\ (p.head <=> h) /\ p.n = written'
    BY <1>2 DEF Piece
  <1>4. file' = [file EXCEPT ![L] = Append(old, p)]
    BY DEF Write, Latest
  <1> HIDE DEF p
  <1>5. /\ Append(old, p) \in Seq(Piece) /\ Len(Append(old, p)) = Len(old) + 1
        /\ \A i \in 1..Len(old) : Append(old, p)[i] = old[i]
        /\ Append(old, p)[Len(old) + 1] = p
    BY <1>1, <1>3, AppendProperties
  <1>6. /\ file' \in Seq(Seq(Piece)) /\ Len(file') = L
        /\ \A g \in 1..L : file'[g] = IF g = L THEN Append(old, p) ELSE file[g]
    BY <1>1, <1>4, <1>5, ExceptSeq
  <1>7. file' # <<>>
    <2>1. Len(file') # 0
      BY <1>1, <1>6
    <2> QED BY <2>1
  <1>8. Half' <=> ~e
    <2>1. file'[Len(file')] = Append(old, p)
      BY <1>1, <1>6
    <2>2. Append(old, p) # <<>>
      BY <1>1, <1>3, AppendProperties
    <2>3. Last(file'[Len(file')]) = p
      BY <2>1, <1>5 DEF Last
    <2> QED BY <2>1, <2>2, <2>3, <1>3, Zenon DEF Half, Latest
  <1>9. Half <=> ~h
    BY DEF Write
  <1>10. /\ written' \in Nat /\ Finished \in Int /\ Finished' \in Int
         /\ Finished <= Finished'
         /\ e => Finished < p.n /\ p.n <= Finished'
    <2>1. Finished = IF h THEN written ELSE written - 1
      BY <1>9, Zenon DEF Finished
    <2>2. Finished' = IF e THEN written' ELSE written' - 1
      BY <1>8, Zenon DEF Finished
    <2> QED BY <1>2, <1>3, <2>1, <2>2
  <1>11. /\ \A g \in 1..L : g # L => file'[g] = file[g]
         /\ Len(file'[L]) = Len(old) + 1
         /\ \A i \in 1..Len(old) : file'[L][i] = old[i]
         /\ file'[L][Len(old) + 1] = p
    BY <1>1, <1>5, <1>6
  <1> HIDE DEF L, old
  <1>12. WITNESS p \in Piece
  <1> QED BY <1>2, <1>3, <1>6, <1>7, <1>8, <1>9, <1>10, <1>11, Zenon DEF L, old

\* A write of the log as it is next: one that was there, ...
Old(g, i) == g \in 1..Len(file) /\ i \in 1..Len(file[g]) /\ file'[g][i] = file[g][i]
\* ... or the last of its file, which ends a line that was not finished.
New(g, i) ==
    /\ g \in 1..Len(file) => i > Len(file[g])
    /\ i = Len(file'[g])
    /\ file'[g][i].end => Finished < file'[g][i].n /\ file'[g][i].n <= Finished'
    /\ Journal => file'[g][i].end

\* The log grows under the observer's hands: what is left to read still comes
\* after what was read, and no gap opens behind the reader.
LEMMA LogGrows ==
    ASSUME LogInv, Lines(read) \subseteq Nat,
           file' \in Seq(Seq(Piece)), file' # <<>>, Len(file) <= Len(file'),
           \A g \in 1..Len(file) : Len(file[g]) <= Len(file'[g]),
           \A g \in 1..Len(file') : \A i \in 1..Len(file'[g]) : Old(g, i) \/ New(g, i),
           written' \in Nat, path' \in 0..Len(file'),
           Finished \in Int, Finished' \in Int, Finished <= Finished',
           UNCHANGED <<source, reader, reading, due, watching, read, unreadable>>
    PROVE  LogInv'
  <1>1. \A g \in 1..Len(file') : \A i \in 1..Len(file'[g]) : file'[g][i].n \in Nat
    <2> SUFFICES ASSUME NEW g \in 1..Len(file'), NEW i \in 1..Len(file'[g]) PROVE file'[g][i].n \in Nat
      OBVIOUS
    <2>1. file'[g] \in Seq(Piece)
      BY ElementOfSeq
    <2>2. file'[g][i] \in Piece
      BY <2>1, ElementOfSeq
    <2> QED BY <2>2 DEF Piece
  <1>2. Len(file) \in Nat /\ Len(file') \in Nat /\ \A g \in 1..Len(file) : Len(file[g]) \in Nat
    BY LenProperties, ElementOfSeq DEF LogInv, LogTypeOK
  <1>3. \A g \in 1..Len(file') : Len(file'[g]) \in Nat
    BY LenProperties, ElementOfSeq
  <1>4. Journal' = Journal
    BY DEF Journal
  <1>5. reader.st = "open" => reader.gen \in 1..Len(file) /\ reader.gen \in 1..Len(file') /\ reader.pos \in Nat
                              /\ reader.pos <= Len(file[reader.gen]) /\ reader.pos <= Len(file'[reader.gen])
    <2> SUFFICES ASSUME reader.st = "open"
                 PROVE  /\ reader.gen \in 1..Len(file) /\ reader.gen \in 1..Len(file') /\ reader.pos \in Nat
                        /\ reader.pos <= Len(file[reader.gen]) /\ reader.pos <= Len(file'[reader.gen])
      OBVIOUS
    <2>1. reader.gen \in 1..Len(file) /\ reader.pos <= Len(file[reader.gen])
      BY DEF LogInv, LogTypeOK
    <2>2. reader.pos \in Nat
      BY DEF LogInv, LogTypeOK
    <2>3. reader.gen \in 1..Len(file')
      BY <1>2, <2>1
    <2>4. Len(file[reader.gen]) \in Nat /\ Len(file'[reader.gen]) \in Nat /\ Len(file[reader.gen]) <= Len(file'[reader.gen])
      BY <1>2, <1>3, <2>1, <2>3
    <2> QED BY <2>1, <2>2, <2>3, <2>4
  <1>6. LogTypeOK'
    <2>1. ASSUME Journal PROVE \A i \in 1..Len(file'[1]) : file'[1][i].end
      <3> SUFFICES ASSUME NEW i \in 1..Len(file'[1]) PROVE file'[1][i].end
        OBVIOUS
      <3>1. 1 \in 1..Len(file') /\ 1 \in 1..Len(file)
        BY <1>2, EmptySeq DEF LogInv, LogTypeOK
      <3>2. CASE Old(1, i)
        BY <2>1, <3>2, Zenon DEF Old, LogInv, LogTypeOK
      <3>3. CASE New(1, i)
        BY <2>1, <3>3, Zenon DEF New
      <3> QED BY <3>1, <3>2, <3>3
    <2> QED BY <1>4, <1>5, <2>1 DEF LogInv, LogTypeOK
  <1>7. LinesInOrder'
    <2> SUFFICES ASSUME NEW g \in 1..Len(file'), NEW i \in 1..Len(file'[g]), file'[g][i].end
                 PROVE  /\ file'[g][i].n <= Finished'
                        /\ \A j \in 1..Len(file'[g]) : i < j /\ file'[g][j].end => file'[g][i].n < file'[g][j].n
      BY DEF LinesInOrder
    <2>1. CASE New(g, i)
      BY <2>1, <1>3 DEF New
    <2>2. CASE Old(g, i)
      <3>1. file'[g][i] = file[g][i] /\ g \in 1..Len(file) /\ i \in 1..Len(file[g])
        BY <2>2 DEF Old
      <3>2. file[g][i].end
        BY <3>1, Zenon
      <3>3. /\ file[g][i].n <= Finished
            /\ \A j \in 1..Len(file[g]) : i < j /\ file[g][j].end => file[g][i].n < file[g][j].n
        BY <3>1, <3>2 DEF LogInv, LinesInOrder
      <3>4. ASSUME NEW j \in 1..Len(file'[g]), i < j, file'[g][j].end PROVE file'[g][i].n < file'[g][j].n
        <4>1. CASE Old(g, j)
          BY <3>1, <3>3, <3>4, <4>1 DEF Old
        <4>2. CASE New(g, j)
          <5>1. file'[g][i].n \in Nat /\ file'[g][j].n \in Nat /\ file'[g][i].n <= Finished
            BY <1>1, <3>1, <3>3
          <5>2. Finished < file'[g][j].n
            BY <3>4, <4>2, Zenon DEF New
          <5> QED BY <5>1, <5>2
        <4> QED BY <4>1, <4>2
      <3> QED BY <3>1, <3>3, <3>4, <1>1
    <2> QED BY <2>1, <2>2
  <1>8. ReadInOrder'
    <2>1. \A n \in Lines(read) : n <= Finished /\ n <= Finished'
      BY DEF LogInv, ReadInOrder
    <2>2. ASSUME reader.st = "open", NEW i \in 1..Len(file'[reader.gen]), i > reader.pos, file'[reader.gen][i].end,
                 NEW n \in Lines(read)
          PROVE  n < file'[reader.gen][i].n
      <3>1. CASE Old(reader.gen, i)
        BY <2>2, <3>1 DEF Old, LogInv, ReadInOrder
      <3>2. CASE New(reader.gen, i)
        <4>1. file'[reader.gen][i].n \in Nat /\ n \in Nat /\ n <= Finished
          BY <1>1, <1>5, <2>1, <2>2
        <4>2. Finished < file'[reader.gen][i].n
          BY <2>2, <3>2, Zenon DEF New
        <4> HIDE DEF Finished
        <4> QED BY <4>1, <4>2
      <3> QED BY <1>5, <2>2, <3>1, <3>2
    <2> QED BY <2>1, <2>2 DEF ReadInOrder
  <1>9. NoGap'
    <2> SUFFICES ASSUME ~Journal, reader.st = "open", NEW k \in DOMAIN (file'[reader.gen]),
                        reader.from < k, k <= reader.pos, file'[reader.gen][k].end
                 PROVE  file'[reader.gen][k].n \in Lines(read) \cup unreadable
      BY <1>4 DEF NoGap, Skipped
    <2>1. file[reader.gen] \in Seq(Piece) /\ file'[reader.gen] \in Seq(Piece)
      BY <1>5, ElementOfSeq DEF LogInv, LogTypeOK
    <2>2. DOMAIN file[reader.gen] = 1..Len(file[reader.gen]) /\ k \in 1..Len(file'[reader.gen])
      BY <2>1, LenProperties
    <2>3. k \in 1..Len(file[reader.gen])
      BY <1>2, <1>3, <1>5, <2>2
    <2>4. Old(reader.gen, k)
      BY <1>2, <1>5, <2>2, <2>3 DEF New
    <2>5. file'[reader.gen][k] = file[reader.gen][k]
      BY <2>4 DEF Old
    <2>6. Covered(k)
      BY <2>2, <2>3, FollowedMeansCovered DEF LogInv
    <2> QED BY <2>5, <2>6, Zenon DEF Covered
  <1> QED BY <1>6, <1>7, <1>8, <1>9 DEF LogInv

\* What was read is numbered.
LEMMA LinesAreNumbers ==
    ASSUME StreamTypeOK
    PROVE  Lines(read) \subseteq Nat
  <1> SUFFICES ASSUME NEW i \in DOMAIN read PROVE read[i].n \in Nat
    BY DEF Lines
  <1>1. read \in Seq(Msg) /\ i \in 1..Len(read)
    BY LenProperties DEF StreamTypeOK
  <1>2. read[i] \in Msg
    BY <1>1, ElementOfSeq
  <1> QED BY <1>2 DEF Msg

\* Writing, also between two reads of the observer.
LEMMA WriteKeepsLog ==
    ASSUME LogInv, StreamTypeOK, NEW h \in BOOLEAN, NEW e \in BOOLEAN, h \/ e, Write(h, e)
    PROVE  LogInv'
  <1> DEFINE L == Len(file)
  <1>1. PICK p \in Piece :
              /\ p.end <=> e
              /\ Len(file') = Len(file) /\ file' \in Seq(Seq(Piece)) /\ file' # <<>>
              /\ \A g \in 1..Len(file) : g # Len(file) => file'[g] = file[g]
              /\ Len(file'[Len(file)]) = Len(file[Len(file)]) + 1
              /\ \A i \in 1..Len(file[Len(file)]) : file'[Len(file)][i] = file[Len(file)][i]
              /\ file'[Len(file)][Len(file[Len(file)]) + 1] = p
              /\ written' \in Nat /\ Finished \in Int /\ Finished' \in Int
              /\ Finished <= Finished'
              /\ e => Finished < p.n /\ p.n <= Finished'
              /\ p.n = written' /\ (p.head <=> h) /\ written' = IF h THEN written + 1 ELSE written
              /\ (Half' <=> ~e) /\ (Half <=> ~h)
    BY WriteShape, Zenon DEF LogInv
  <1>2. L \in Nat /\ \A g \in 1..L : Len(file[g]) \in Nat
    BY LenProperties, ElementOfSeq DEF LogInv, LogTypeOK
  <1>3. Journal => p.end
    BY <1>1, Zenon DEF Write, Rotated
  <1>4. ASSUME NEW g \in 1..Len(file'), NEW i \in 1..Len(file'[g]) PROVE Old(g, i) \/ New(g, i)
    <2>1. CASE g # L
      BY <1>1, <2>1 DEF Old
    <2>2. CASE g = L /\ i \in 1..Len(file[L])
      BY <1>1, <2>2 DEF Old
    <2>3. CASE g = L /\ i \notin 1..Len(file[L])
      <3>1. i = Len(file[L]) + 1
        BY <1>1, <1>2, <2>3
      <3>2. file'[g][i] = p /\ i = Len(file'[g]) /\ i > Len(file[g])
        BY <1>1, <1>2, <2>3, <3>1
      <3> QED BY <1>1, <1>3, <3>2, Zenon DEF New
    <2> QED BY <1>1, <2>1, <2>2, <2>3
  <1>5. ASSUME NEW g \in 1..L PROVE Len(file[g]) <= Len(file'[g])
    <2>1. Len(file'[g]) = Len(file[g]) \/ Len(file'[g]) = Len(file[g]) + 1
      BY <1>1
    <2>2. Len(file[g]) \in Nat
      BY <1>2
    <2> QED BY <2>1, <2>2
  <1>6. UNCHANGED <<source, path, reader, reading, due, watching, read, unreadable>>
    BY DEF Write, obsVars, histVars
  <1>7. path' \in 0..Len(file')
    BY <1>1, <1>6 DEF LogInv, LogTypeOK
  <1>8. Len(file) <= Len(file')
    BY <1>1, <1>2
  <1> QED BY <1>1, <1>4, <1>5, <1>6, <1>7, <1>8, LogGrows, LinesAreNumbers

\* The log is created anew, empty.
LEMMA CreateKeepsLog ==
    ASSUME LogInv, StreamTypeOK, Create
    PROVE  LogInv'
  <1> DEFINE L == Len(file)
  <1>1. file \in Seq(Seq(Piece)) /\ L \in Nat /\ \A g \in 1..L : Len(file[g]) \in Nat
    BY LenProperties, ElementOfSeq DEF LogInv, LogTypeOK
  <1>2. /\ file' = Append(file, <<>>) /\ path' = L + 1
        /\ UNCHANGED <<source, written, reader, reading, due, watching, read, unreadable>>
    BY DEF Create, Latest
  <1>3. /\ file' \in Seq(Seq(Piece)) /\ file' # <<>> /\ Len(file') = L + 1
        /\ \A g \in 1..L : file'[g] = file[g]
        /\ file'[L + 1] = <<>>
    <2>1. <<>> \in Seq(Piece)
      BY EmptySeq
    <2> QED BY <1>1, <1>2, <2>1, AppendProperties
  <1>4. Len(file'[L + 1]) = 0
    BY <1>3
  <1>5. ASSUME NEW g \in 1..Len(file'), NEW i \in 1..Len(file'[g]) PROVE Old(g, i)
    <2>1. g # L + 1
      BY <1>4
    <2>2. g \in 1..L
      BY <1>1, <1>3, <2>1
    <2> QED BY <1>3, <2>2 DEF Old
  <1>6. Finished \in Int /\ Finished' = written /\ Finished <= Finished' /\ written \in Nat
    <2>1. ~Half'
      BY <1>3, Zenon DEF Half, Latest
    <2>2. written \in Nat /\ (Finished = written \/ Finished = written - 1)
      BY DEF Finished, LogInv, LogTypeOK
    <2>3. Finished' = written'
      BY <2>1, Zenon DEF Finished
    <2> QED BY <1>2, <2>2, <2>3
  <1>7. path' \in 0..Len(file') /\ Len(file) <= Len(file') /\ \A g \in 1..L : Len(file[g]) <= Len(file'[g])
    BY <1>1, <1>2, <1>3
  <1> QED BY <1>2, <1>3, <1>5, <1>6, <1>7, LogGrows, LinesAreNumbers

-----------------------------------------------------------------------------
(* Steps of the observer *)

\* The reader stops being open, or is put at the end of a file: of a file it
\* opens, or of its own when no finished line is left in it.
LEMMA ReaderAtEnd ==
    ASSUME LogInv, LogTypeOK', UNCHANGED <<source, file, written, read, unreadable>>,
           reader'.st = "open" =>
               /\ reader'.pos = Len(file[reader'.gen])
               /\ \/ Journal
                  \/ reader'.from = reader'.pos
                  \/ reader.st = "open" /\ reader'.gen = reader.gen /\ reader'.from = reader.from /\ Ends = {}
    PROVE  LogInv'
  <1>1. Finished' = Finished /\ Journal' = Journal
    BY DEF Finished, Half, Latest, Journal
  <1>2. LinesInOrder'
    BY <1>1 DEF LogInv, LinesInOrder
  <1>3. ASSUME reader'.st = "open"
        PROVE  file[reader'.gen] \in Seq(Piece) /\ Len(file[reader'.gen]) \in Nat
               /\ DOMAIN file[reader'.gen] = 1..Len(file[reader'.gen])
    <2>1. file[reader'.gen] \in Seq(Piece)
      BY <1>3, ElementOfSeq DEF LogTypeOK
    <2> QED BY <2>1, LenProperties
  <1>4. ReadInOrder'
    <2>1. ASSUME reader'.st = "open", NEW i \in 1..Len(file[reader'.gen]), i > reader'.pos PROVE FALSE
      BY <1>3, <2>1
    <2> QED BY <1>1, <2>1 DEF LogInv, ReadInOrder
  <1>5. NoGap'
    <2> SUFFICES ASSUME ~Journal, reader'.st = "open", NEW k \in 1..Len(file[reader'.gen]),
                        reader'.from < k, k <= reader'.pos, file[reader'.gen][k].end
                 PROVE  file[reader'.gen][k].n \in Lines(read) \cup unreadable
      BY <1>1, <1>3 DEF NoGap, Skipped
    <2>1. reader'.from # reader'.pos
      <3>1. reader'.from \in Nat /\ reader'.pos \in Nat
        BY DEF LogTypeOK
      <3> QED BY <3>1
    <2>2. reader.st = "open" /\ reader'.gen = reader.gen /\ reader'.from = reader.from /\ Ends = {}
      BY <2>1
    <2>3. k \in DOMAIN file[reader.gen] /\ file[reader.gen][k].end
      BY <1>3, <2>2
    <2>4. ~(k > reader.pos)
      BY <2>2, <2>3, Zenon DEF Ends
    <2>5. k <= reader.pos
      <3>1. reader.pos \in Nat
        BY DEF LogInv, LogTypeOK
      <3> QED BY <2>4, <3>1
    <2>6. Covered(k)
      BY <2>2, <2>3, FollowedMeansCovered DEF LogInv
    <2> QED BY <2>2, <2>3, <2>5, <2>6 DEF Covered
  <1> QED BY <1>2, <1>4, <1>5 DEF LogInv

\* The reader moves on to the write at i, and what ends between its position and
\* i is broadcast or, in the journal, passed over.
LEMMA ReaderAdvances ==
    ASSUME LogInv, LogTypeOK', UNCHANGED <<source, file, written>>,
           reader.st = "open", NEW i \in 1..Len(file[reader.gen]), i > reader.pos,
           reader' = [reader EXCEPT !.pos = i],
           Lines(read) \subseteq Nat,
           Lines(read') \subseteq Lines(read) \cup {file[reader.gen][i].n}, Lines(read) \subseteq Lines(read'),
           file[reader.gen][i].end,
           Journal \/ (/\ file[reader.gen][i].n \in Lines(read') /\ unreadable' = unreadable
                       /\ \A j \in 1..Len(file[reader.gen]) : j > reader.pos /\ file[reader.gen][j].end => i <= j)
    PROVE  LogInv'
  <1> DEFINE f == file[reader.gen]
  <1>1. Finished' = Finished /\ Journal' = Journal
    BY DEF Finished, Half, Latest, Journal
  <1>2. LinesInOrder'
    BY <1>1 DEF LogInv, LinesInOrder
  <1>3. reader'.st = "open" /\ reader'.gen = reader.gen /\ reader'.from = reader.from /\ reader'.pos = i
        /\ reader.pos \in Nat /\ reader.gen \in 1..Len(file)
    BY DEF LogInv, LogTypeOK
  <1>4. f \in Seq(Piece) /\ Len(f) \in Nat /\ DOMAIN f = 1..Len(f)
    <2>1. f \in Seq(Piece)
      BY <1>3, ElementOfSeq DEF LogInv, LogTypeOK
    <2> QED BY <2>1, LenProperties
  <1>5. f[i].n <= Finished /\ \A j \in 1..Len(f) : i < j /\ f[j].end => f[i].n < f[j].n
    BY <1>3 DEF LogInv, LinesInOrder
  <1>6. ReadInOrder'
    <2>1. \A n \in Lines(read') : n <= Finished
      BY <1>5 DEF LogInv, ReadInOrder
    <2>2. ASSUME NEW j \in 1..Len(f), j > i, f[j].end, NEW n \in Lines(read') PROVE n < f[j].n
      <3>1. j > reader.pos
        BY <1>3, <2>2
      <3>2. CASE n \in Lines(read)
        BY <2>2, <3>1, <3>2 DEF LogInv, ReadInOrder
      <3>3. CASE n = f[i].n
        BY <1>5, <2>2, <3>3
      <3> QED BY <3>2, <3>3
    <2> QED BY <1>1, <1>3, <2>1, <2>2 DEF ReadInOrder
  <1>7. NoGap'
    <2> SUFFICES ASSUME ~Journal, NEW k \in 1..Len(f), reader.from < k, k <= i, f[k].end
                 PROVE  f[k].n \in Lines(read') \cup unreadable
      BY <1>1, <1>3, <1>4 DEF NoGap, Skipped
    <2>1. CASE k <= reader.pos
      <3>1. Covered(k)
        BY <1>4, FollowedMeansCovered DEF LogInv
      <3> QED BY <2>1, <3>1 DEF Covered
    <2>2. CASE k > reader.pos
      <3>1. k = i
        BY <2>2
      <3> QED BY <3>1
    <2> QED BY <1>3, <2>1, <2>2
  <1> QED BY <1>2, <1>6, <1>7 DEF LogInv

\* The file observer broadcasts the next line of its file.
LEMMA ReadLineKeeps ==
    ASSUME PipelineInv, ReadLine
    PROVE  LogInv' /\ StreamTypeOK' /\ StreamsAreFaithful'
  <1> DEFINE f == file[reader.gen]
             i == Min(Ends)
             m == LineAt(i)
  <1>1. /\ reader.st = "open" /\ ~Journal /\ reader.gen \in 1..Len(file) /\ reader.pos \in Nat
        /\ reader \in [st : {"none", "open", "closed", "dead"}, gen : Nat, from : Nat, pos : Nat]
    BY DEF PipelineInv, LogTypeOK, ReadLine
  <1>2. f \in Seq(Piece) /\ Len(f) \in Nat /\ DOMAIN f = 1..Len(f)
    <2>1. f \in Seq(Piece)
      BY <1>1, ElementOfSeq DEF PipelineInv, LogTypeOK
    <2> QED BY <2>1, LenProperties
  <1>3. Ends = {j \in 1..Len(f) : j > reader.pos /\ f[j].end}
    BY <1>2 DEF Ends
  <1>4. i \in Ends /\ \A j \in Ends : i <= j
    <2>1. Ends \subseteq Nat /\ Ends # {}
      BY <1>3 DEF ReadLine
    <2> QED BY <2>1, MinOfNaturals
  <1>5. i \in 1..Len(f) /\ i > reader.pos /\ f[i].end
    BY <1>3, <1>4
  <1>6. m \in Msg /\ m.n = f[i].n
    <2>1. f[i] \in Piece
      BY <1>2, <1>5, ElementOfSeq
    <2>2. f[i].n \in Nat
      BY <2>1 DEF Piece
    <2> DEFINE w == \E j \in DOMAIN f : j > reader.pos /\ f[j].n = f[i].n /\ f[j].head
    <2>3. w \in BOOLEAN
      OBVIOUS
    <2>4. m = [n |-> f[i].n, whole |-> w]
      BY Zenon DEF LineAt
    <2> HIDE DEF w, m, f, i
    <2> QED BY <2>2, <2>3, <2>4 DEF Msg
  <1>7. /\ Broadcast(m) /\ reader' = [reader EXCEPT !.pos = i]
        /\ UNCHANGED <<source, file, path, written, watching, reading, due, done, busy, unreadable>>
    BY DEF ReadLine, logVars, subVars
  <1> HIDE DEF m, i
  <1>8. \A n \in Lines(read) : n < m.n
    BY <1>1, <1>5, <1>6 DEF PipelineInv, ReadInOrder
  <1>9. StreamTypeOK' /\ StreamsAreFaithful' /\ Lines(read') = Lines(read) \cup {f[i].n}
    BY <1>6, <1>7, <1>8, BroadcastKeepsStreams DEF PipelineInv
  <1>10. LogTypeOK'
    <2>1. Journal' = Journal /\ i \in Nat /\ i <= Len(f)
      BY <1>2, <1>5, <1>7 DEF Journal
    <2>2. /\ reader' \in [st : {"none", "open", "closed", "dead"}, gen : Nat, from : Nat, pos : Nat]
          /\ reader'.st = "open" /\ reader'.gen = reader.gen /\ reader'.pos = i
      BY <1>1, <1>7, <2>1
    <2> QED BY <1>1, <1>7, <2>1, <2>2 DEF PipelineInv, LogTypeOK
  <1>11. LogInv'
    <2>1. LogInv /\ Lines(read) \subseteq Nat
      BY LinesAreNumbers DEF PipelineInv, LogInv
    <2>2. \A j \in 1..Len(f) : j > reader.pos /\ f[j].end => i <= j
      BY <1>3, <1>4
    <2> QED BY <1>1, <1>5, <1>7, <1>9, <1>10, <2>1, <2>2, ReaderAdvances
  <1> QED BY <1>9, <1>11

\* The journal observer broadcasts the next entry, or passes over it.
LEMMA JournalNextKeeps ==
    ASSUME PipelineInv, JournalNext
    PROVE  LogInv' /\ StreamTypeOK' /\ StreamsAreFaithful'
  <1> DEFINE f == file[1]
             i == reader.pos + 1
  <1>1. /\ Journal /\ reader.st = "open" /\ reader.gen = 1 /\ reader.gen \in 1..Len(file) /\ reader.pos \in Nat
        /\ reader \in [st : {"none", "open", "closed", "dead"}, gen : Nat, from : Nat, pos : Nat]
        /\ reader.pos < Len(f)
    BY DEF PipelineInv, LogTypeOK, JournalNext
  <1>2. f \in Seq(Piece) /\ Len(f) \in Nat
    <2>1. f \in Seq(Piece)
      BY <1>1, ElementOfSeq DEF PipelineInv, LogTypeOK
    <2> QED BY <2>1, LenProperties
  <1>3. i \in 1..Len(f) /\ i > reader.pos /\ i \in Nat /\ i <= Len(f)
    BY <1>1, <1>2
  <1>4. f[i].end /\ f[i] \in Piece
    BY <1>1, <1>2, <1>3, ElementOfSeq DEF PipelineInv, LogTypeOK
  <1> DEFINE m == [n |-> f[i].n, whole |-> TRUE]
  <1>5. m \in Msg /\ m.n = f[i].n
    BY <1>4 DEF Msg, Piece
  <1>6. /\ reader' = [reader EXCEPT !.pos = i]
        /\ UNCHANGED <<source, file, path, written, watching, reading, due, done, busy>>
        /\ Broadcast(m) \/ UNCHANGED <<buf, full, read>>
    BY DEF JournalNext, NextEntry, logVars, subVars
  <1> HIDE DEF m
  <1>7. \A n \in Lines(read) : n < m.n
    BY <1>1, <1>3, <1>4, <1>5 DEF PipelineInv, ReadInOrder
  <1>8. /\ StreamTypeOK' /\ StreamsAreFaithful'
        /\ Lines(read) \subseteq Lines(read') /\ Lines(read') \subseteq Lines(read) \cup {f[i].n}
    <2>1. CASE Broadcast(m)
      <3>1. StreamTypeOK' /\ StreamsAreFaithful' /\ Lines(read') = Lines(read) \cup {m.n}
        BY <1>5, <1>6, <1>7, <2>1, BroadcastKeepsStreams DEF PipelineInv
      <3> QED BY <1>5, <3>1
    <2>2. CASE UNCHANGED <<buf, full, read>>
      BY <1>6, <2>2, StreamsKept DEF PipelineInv
    <2> QED BY <1>6, <2>1, <2>2
  <1>9. LogTypeOK'
    <2>1. Journal' = Journal
      BY <1>6 DEF Journal
    <2>2. /\ reader' \in [st : {"none", "open", "closed", "dead"}, gen : Nat, from : Nat, pos : Nat]
          /\ reader'.st = "open" /\ reader'.gen = reader.gen /\ reader'.pos = i
      BY <1>1, <1>3, <1>6
    <2> QED BY <1>1, <1>3, <1>6, <2>1, <2>2 DEF PipelineInv, LogTypeOK
  <1>10. LogInv'
    <2>1. LogInv /\ Lines(read) \subseteq Nat
      BY LinesAreNumbers DEF PipelineInv, LogInv
    <2> QED BY <1>1, <1>3, <1>4, <1>6, <1>8, <1>9, <2>1, ReaderAdvances
  <1> QED BY <1>8, <1>10

\* Steps that leave the log, the reader and the history alone.
LEMMA LogKept ==
    ASSUME LogInv, UNCHANGED <<source, file, written, reader, read, unreadable>>,
           path' \in 0..Len(file),
           reading' => reader.st = "open" /\ ~Journal,
           due' => Journal,
           Journal => ~watching'
    PROVE  LogInv'
  <1>1. Finished' = Finished /\ Journal' = Journal
    BY DEF Finished, Half, Latest, Journal
  <1>2. LogTypeOK'
    BY <1>1 DEF LogInv, LogTypeOK
  <1>3. LinesInOrder' /\ ReadInOrder'
    BY <1>1 DEF LogInv, LinesInOrder, ReadInOrder
  <1>4. NoGap'
    BY <1>1 DEF LogInv, NoGap, Skipped
  <1> QED BY <1>2, <1>3, <1>4 DEF LogInv

\* The observer opens the file that is at its path, at its end; one that is not
\* there leaves a closed reader.
LEMMA OpeningKeepsLog ==
    ASSUME LogInv, OpenFirst \/ CreateEvent
    PROVE  LogInv'
  <1> DEFINE st == {"none", "open", "closed", "dead"}
             R == [st : st, gen : Nat, from : Nat, pos : Nat]
  <1>1. /\ ~Journal /\ ~reading
        /\ \/ reader' = openReader(TRUE) /\ path # 0
           \/ reader' = openReader(FALSE)
        /\ UNCHANGED <<source, file, path, written, watching, reading, due, read, unreadable>>
    BY DEF OpenFirst, CreateEvent, LogInv, LogTypeOK, logVars
  <1>2. reader \in R /\ path \in 0..Len(file) /\ Len(file) \in Nat
    BY LenProperties DEF LogInv, LogTypeOK
  <1>3. reader' \in R /\ (reader'.st = "open" => /\ reader'.gen \in 1..Len(file)
                                                /\ reader'.pos = Len(file[reader'.gen]) /\ reader'.from = reader'.pos)
    <2>1. CASE reader' = openReader(FALSE)
      <3>1. reader' = [reader EXCEPT !.st = "closed"]
        BY <2>1 DEF openReader
      <3> QED BY <1>2, <3>1
    <2>2. CASE reader' = openReader(TRUE) /\ path # 0
      <3>1. path \in 1..Len(file) /\ path \in Nat
        BY <1>2, <2>2
      <3>2. Len(file[path]) \in Nat
        BY <3>1, ElementOfSeq, LenProperties DEF LogInv, LogTypeOK
      <3>3. reader' = [st |-> "open", gen |-> path, from |-> Len(file[path]), pos |-> Len(file[path])]
        BY <2>2 DEF openReader
      <3> QED BY <3>1, <3>2, <3>3
    <2> QED BY <1>1, <2>1, <2>2
  <1>4. reader'.st = "open" => reader'.pos <= Len(file[reader'.gen])
    <2>1. reader'.pos \in Nat
      BY <1>3
    <2> QED BY <1>3, <2>1
  <1>5. LogTypeOK'
    <2>1. Journal' = Journal
      BY <1>1 DEF Journal
    <2> QED BY <1>1, <1>3, <1>4, <2>1 DEF LogInv, LogTypeOK
  <1> QED BY <1>1, <1>3, <1>5, ReaderAtEnd

\* The end of a round of reading: nothing finished is left behind.
LEMMA ReadEOFKeepsLog ==
    ASSUME LogInv, ReadEOF
    PROVE  LogInv'
  <1> DEFINE R == [st : {"none", "open", "closed", "dead"}, gen : Nat, from : Nat, pos : Nat]
  <1>1. /\ reading /\ Ends = {} /\ ~reading'
        /\ reader' = [reader EXCEPT !.pos = Len(file[reader.gen])]
        /\ UNCHANGED <<source, file, path, written, watching, due, read, unreadable>>
    BY DEF ReadEOF, logVars, histVars
  <1>2. reader.st = "open" /\ ~Journal /\ reader.gen \in 1..Len(file) /\ reader \in R
    BY <1>1 DEF LogInv, LogTypeOK
  <1>3. Len(file[reader.gen]) \in Nat
    BY <1>2, ElementOfSeq, LenProperties DEF LogInv, LogTypeOK
  <1>4. /\ reader' \in R /\ reader'.st = "open" /\ reader'.gen = reader.gen /\ reader'.from = reader.from
        /\ reader'.pos = Len(file[reader.gen])
    BY <1>1, <1>2, <1>3
  <1>5. LogTypeOK'
    <2>1. Journal' = Journal
      BY <1>1 DEF Journal
    <2> QED BY <1>1, <1>2, <1>3, <1>4, <2>1 DEF LogInv, LogTypeOK
  <1> QED BY <1>1, <1>2, <1>4, <1>5, ReaderAtEnd

\* The journal is opened, or opened again, at its end; or the handle is kept.
LEMMA JournalKeepsLog ==
    ASSUME LogInv, JournalInit \/ JournalRefresh
    PROVE  LogInv'
  <1> DEFINE R == [st : {"none", "open", "closed", "dead"}, gen : Nat, from : Nat, pos : Nat]
  <1>1. /\ Journal /\ UNCHANGED <<source, file, path, written, watching, reading, read, unreadable>>
        /\ due' => due
    BY DEF JournalInit, JournalRefresh, LogInv, LogTypeOK, logVars, histVars
  <1>2. 1 \in 1..Len(file) /\ Len(file[1]) \in Nat
    <2>1. Len(file) \in Nat \ {0}
      BY EmptySeq, Zenon DEF LogInv, LogTypeOK
    <2>2. 1 \in 1..Len(file)
      BY <2>1
    <2> QED BY <2>2, ElementOfSeq, LenProperties DEF LogInv, LogTypeOK
  <1>3. CASE reader' = reader
    BY <1>1, <1>3, LogKept DEF LogInv, LogTypeOK
  <1>4. CASE reader' # reader
    <2>1. reader \in R /\ ~reading
      BY <1>1 DEF LogInv, LogTypeOK
    <2>2. reader' \in {openJournal, [NoReader EXCEPT !.st = "dead"], [openJournal EXCEPT !.from = reader.from]}
      BY <1>4 DEF JournalInit, JournalRefresh
    <2>3. reader' \in R /\ (reader'.st = "open" => reader'.gen = 1 /\ reader'.pos = Len(file[1]))
      BY <1>2, <2>1, <2>2 DEF openJournal, NoReader
    <2>4. LogTypeOK'
      <3>1. Journal' = Journal
        BY <1>1 DEF Journal
      <3> QED BY <1>1, <1>2, <2>1, <2>3, <3>1 DEF LogInv, LogTypeOK
    <2> QED BY <1>1, <2>3, <2>4, ReaderAtEnd
  <1> QED BY <1>3, <1>4

-----------------------------------------------------------------------------
(* Lines that are cut *)

\* Steps that leave the files, the reader's place and the history alone.
LEMMA CutKept ==
    ASSUME CutInv, UNCHANGED <<source, file, written, reader, read, cut>>
    PROVE  CutInv'
  <1>1. Half' = Half /\ Journal' = Journal
    BY DEF Half, Latest, Journal
  <1>2. PiecesInOrder' /\ WholeUnlessCut'
    BY <1>1 DEF CutInv, PiecesInOrder, WholeUnlessCut
  <1>3. CutsKnown'
    BY <1>1 DEF CutInv, CutsKnown, HeadLeft
  <1> QED BY <1>1, <1>2, <1>3 DEF CutInv

\* Nothing is cut in the journal, whatever is read of it.
LEMMA JournalIsWhole ==
    ASSUME CutInv, LogTypeOK, StreamTypeOK,
           JournalInit \/ JournalRefresh \/ JournalNext
    PROVE  CutInv'
  <1>1. Journal /\ UNCHANGED <<source, file, written, cut>>
    BY DEF JournalInit, JournalRefresh, JournalNext, LogTypeOK, logVars, histVars
  <1>2. Half' = Half /\ Journal' = Journal
    BY <1>1 DEF Half, Latest, Journal
  <1>3. PiecesInOrder' /\ CutsKnown'
    BY <1>1, <1>2 DEF CutInv, PiecesInOrder, CutsKnown
  <1>4. WholeUnlessCut'
    <2>1. CASE read' = read
      BY <1>1, <2>1 DEF CutInv, WholeUnlessCut
    <2>2. CASE read' # read
      <3> DEFINE m == [n |-> NextEntry.n, whole |-> TRUE]
      <3>1. read' = Append(read, m)
        BY <2>2 DEF JournalInit, JournalRefresh, JournalNext, Broadcast, histVars
      <3>2. m.whole
        OBVIOUS
      <3> HIDE DEF m
      <3>3. read \in Seq(Msg) /\ Len(read) \in Nat /\ DOMAIN read = 1..Len(read)
        BY LenProperties DEF StreamTypeOK
      <3>4. /\ DOMAIN read' = 1..Len(read) + 1
            /\ \A i \in 1..Len(read) : read'[i] = read[i]
            /\ read'[Len(read) + 1] = m
        BY <3>1, <3>3
      <3>5. ASSUME NEW i \in DOMAIN read' PROVE read'[i].whole
        <4>1. CASE i = Len(read) + 1
          BY <3>2, <3>4, <4>1
        <4>2. CASE i \in 1..Len(read)
          BY <1>1, <3>3, <3>4, <4>2, Zenon DEF CutInv, WholeUnlessCut
        <4> QED BY <3>3, <3>4, <4>1, <4>2
      <3> QED BY <1>1, <3>5, Zenon DEF CutInv, WholeUnlessCut
    <2> QED BY <2>1, <2>2
  <1> QED BY <1>1, <1>2, <1>3, <1>4 DEF CutInv

\* A reader put at the end of a file cuts the line that is being written to it;
\* no line read so far is that one.
LEMMA CutAtEnd ==
    ASSUME CutInv, LogInv, LogTypeOK', StreamTypeOK, UNCHANGED <<source, file, written, read>>, ~Journal,
           \/ reader'.st # "open" /\ cut' = cut
           \/ /\ reader'.st = "open" /\ reader'.pos = Len(file[reader'.gen])
              /\ cut' = cut \cup BeingWritten(reader'.gen)
    PROVE  CutInv'
  <1>1. Half' = Half /\ Journal' = Journal /\ written \in Nat
    BY DEF Half, Latest, Journal, LogInv, LogTypeOK
  <1>2. PiecesInOrder'
    BY <1>1 DEF CutInv, PiecesInOrder
  <1>3. cut' = cut \/ (Half /\ cut' = cut \cup {written})
    BY DEF BeingWritten
  <1>4. cut' \subseteq Nat /\ \A n \in cut' : n <= written
    <2>1. cut \subseteq Nat /\ \A n \in cut : n <= written
      BY DEF CutInv
    <2>2. \A n \in cut' : n \in cut \/ n = written
      BY <1>3
    <2>3. written \in Nat /\ written <= written
      BY <1>1
    <2> QED BY <2>1, <2>2, <2>3, Zenon
  <1>5. CutsKnown'
    <2> SUFFICES ASSUME reader'.st = "open"
                 PROVE  /\ \A i \in 1..Len(file[reader'.gen]) : ~(i > reader'.pos)
                        /\ (Half /\ reader'.gen = Len(file)) => written \in cut'
      BY <1>1 DEF CutsKnown
    <2>1. reader'.pos = Len(file[reader'.gen]) /\ cut' = cut \cup BeingWritten(reader'.gen)
      OBVIOUS
    <2>2. file[reader'.gen] \in Seq(Piece) /\ Len(file[reader'.gen]) \in Nat
      <3>1. file[reader'.gen] \in Seq(Piece)
        BY ElementOfSeq DEF LogTypeOK
      <3> QED BY <3>1, LenProperties
    <2> QED BY <2>1, <2>2 DEF BeingWritten, Latest
  <1>6. WholeUnlessCut'
    <2>1. CASE cut' = cut
      BY <2>1 DEF CutInv, WholeUnlessCut
    <2>2. CASE Half /\ cut' = cut \cup {written}
      <3>1. Finished = written - 1
        BY <2>2 DEF Finished
      <3>2. Lines(read) \subseteq Nat
        BY LinesAreNumbers
      <3>3. written \notin Lines(read)
        BY <1>1, <3>1, <3>2 DEF LogInv, ReadInOrder
      <3>4. ASSUME NEW i \in DOMAIN read PROVE read[i].n \in cut' <=> read[i].n \in cut
        BY <2>2, <3>3 DEF Lines
      <3> QED BY <3>4, Zenon DEF CutInv, WholeUnlessCut
    <2> QED BY <1>3, <2>1, <2>2
  <1> QED BY <1>1, <1>2, <1>4, <1>5, <1>6 DEF CutInv

\* A line is written, begun or ended.
LEMMA WriteKeepsCuts ==
    ASSUME CutInv, LogInv, NEW h \in BOOLEAN, NEW e \in BOOLEAN, h \/ e, Write(h, e)
    PROVE  CutInv'
  <1> DEFINE L == Len(file)
             K == Len(file[L])
  <1>1. PICK p \in Piece :
              /\ p.end <=> e
              /\ Len(file') = Len(file) /\ file' \in Seq(Seq(Piece)) /\ file' # <<>>
              /\ \A g \in 1..Len(file) : g # Len(file) => file'[g] = file[g]
              /\ Len(file'[Len(file)]) = Len(file[Len(file)]) + 1
              /\ \A i \in 1..Len(file[Len(file)]) : file'[Len(file)][i] = file[Len(file)][i]
              /\ file'[Len(file)][Len(file[Len(file)]) + 1] = p
              /\ written' \in Nat /\ Finished \in Int /\ Finished' \in Int
              /\ Finished <= Finished'
              /\ e => Finished < p.n /\ p.n <= Finished'
              /\ p.n = written' /\ (p.head <=> h) /\ written' = IF h THEN written + 1 ELSE written
              /\ (Half' <=> ~e) /\ (Half <=> ~h)
    BY WriteShape, Zenon DEF LogInv
  <1>2. L \in Nat /\ L \in 1..L /\ K \in Nat /\ \A g \in 1..L : Len(file[g]) \in Nat /\ file[g] \in Seq(Piece)
    <2>1. file \in Seq(Seq(Piece)) /\ L \in Nat \ {0}
      BY EmptySeq, Zenon DEF LogInv, LogTypeOK
    <2>2. L \in 1..L
      BY <2>1
    <2> QED BY <2>1, <2>2, LenProperties, ElementOfSeq
  <1>3. ASSUME NEW g \in 1..L, NEW i \in 1..Len(file[g]) PROVE file[g][i] \in Piece /\ file[g][i].n \in Nat
    <2>1. file[g] \in Seq(Piece)
      BY <1>2
    <2>2. file[g][i] \in Piece
      BY <2>1, ElementOfSeq
    <2> QED BY <2>2 DEF Piece
  <1>4. UNCHANGED <<source, reader, read, cut>> /\ Journal' = Journal /\ written \in Nat /\ written <= written'
    <2>1. UNCHANGED <<source, reader, read, cut>>
      BY DEF Write, obsVars, histVars
    <2>2. written \in Nat /\ written' = IF h THEN written + 1 ELSE written
      BY <1>1 DEF LogInv, LogTypeOK
    <2>3. written <= written'
      BY <2>2
    <2> QED BY <2>1, <2>2, <2>3 DEF Journal
  <1>5. p.n \in Nat /\ file'[L][K + 1] = p /\ Len(file'[L]) = K + 1
    BY <1>1
  <1>6. PiecesInOrder'
    <2>1. ASSUME NEW g \in 1..L, NEW i \in 1..Len(file'[g])
          PROVE  /\ file'[g][i].n <= written'
                 /\ \A j \in 1..Len(file'[g]) : i < j => file'[g][i].n <= file'[g][j].n
      <3>1. CASE g # L
        <4>1. file'[g] = file[g]
          BY <1>1, <3>1
        <4>2. /\ file[g][i].n <= written /\ file[g][i].n \in Nat
              /\ \A j \in 1..Len(file[g]) : i < j => file[g][i].n <= file[g][j].n
          BY <1>3, <4>1 DEF CutInv, PiecesInOrder
        <4>3. file[g][i].n <= written'
          BY <1>1, <1>4, <4>2
        <4> QED BY <4>1, <4>2, <4>3
      <3>2. CASE g = L
        <4>1. \A k \in 1..K : file'[L][k] = file[L][k] /\ file[L][k].n \in Nat /\ file[L][k].n <= written
          BY <1>1, <1>2, <1>3 DEF CutInv, PiecesInOrder
        <4>2. i \in 1..K + 1
          BY <1>5, <2>1, <3>2
        <4>3. file'[L][i].n <= written'
          <5>1. CASE i = K + 1
            BY <1>1, <1>5, <5>1
          <5>2. CASE i \in 1..K
            <6>1. file'[L][i].n \in Nat /\ file'[L][i].n <= written /\ written' \in Nat
              BY <1>1, <4>1, <5>2
            <6> QED BY <1>4, <6>1
          <5> QED BY <1>2, <4>2, <5>1, <5>2
        <4>4. ASSUME NEW j \in 1..K + 1, i < j PROVE file'[L][i].n <= file'[L][j].n
          <5>1. i \in 1..K
            BY <1>2, <4>2, <4>4
          <5>2. CASE j = K + 1
            <6>1. file'[L][i].n \in Nat /\ file'[L][i].n <= written /\ written' \in Nat /\ file'[L][j].n = written'
              BY <1>1, <1>5, <4>1, <5>1, <5>2
            <6> QED BY <1>4, <6>1
          <5>3. CASE j \in 1..K
            <6>1. file[L][i].n <= file[L][j].n
              BY <1>2, <4>4, <5>1, <5>3 DEF CutInv, PiecesInOrder
            <6> QED BY <4>1, <5>1, <5>3, <6>1
          <5>4. j = K + 1 \/ j \in 1..K
            <6>1. K \in Nat
              BY <1>2
            <6> HIDE DEF K
            <6> QED BY <6>1
          <5> QED BY <5>2, <5>3, <5>4
        <4> QED BY <1>5, <3>2, <4>3, <4>4
      <3> QED BY <3>1, <3>2
    <2>2. Half' => Len(file'[L]) # 0 /\ file'[L][Len(file'[L])].n = written' /\ file'[L][Len(file'[L])].head
                   /\ ~file'[L][Len(file'[L])].end
      <3>1. Len(file'[L]) # 0 /\ file'[L][Len(file'[L])] = p
        BY <1>2, <1>5
      <3>2. Half' => p.n = written' /\ p.head /\ ~p.end
        BY <1>1, Zenon
      <3> QED BY <3>1, <3>2, Zenon
    <2> QED BY <1>1, <2>1, <2>2 DEF PiecesInOrder
  <1>7. CutsKnown'
    <2> SUFFICES ASSUME reader.st = "open", ~Journal PROVE CutsKnown'
      BY <1>4 DEF CutsKnown
    <2> DEFINE G == reader.gen
    <2>1. G \in 1..L /\ reader.pos \in Nat /\ reader.pos <= Len(file[G])
      BY DEF LogInv, LogTypeOK
    <2>2. CASE G # L
      <3>1. file'[G] = file[G]
        BY <1>1, <2>1, <2>2
      <3>2. \A i : HeadLeft(i)' <=> HeadLeft(i)
        BY <1>4, <3>1 DEF HeadLeft
      <3>3. Len(file') = L
        BY <1>1
      <3> QED BY <1>4, <2>2, <3>1, <3>2, <3>3 DEF CutInv, CutsKnown
    <2>3. CASE G = L
      <3>1. \A k \in 1..K : file'[G][k] = file[G][k] /\ file[G][k].n \in Nat /\ file[G][k].n <= written
        BY <1>1, <1>2, <1>3, <2>3 DEF CutInv, PiecesInOrder
      <3>2. Len(file'[G]) = K + 1 /\ Len(file[G]) = K /\ file'[G][K + 1] = p /\ reader.pos <= K
        BY <1>5, <2>1, <2>3
      <3>3. \A n \in cut : n <= written
        BY DEF CutInv
      <3>4. ASSUME NEW i \in 1..K + 1, i > reader.pos, file'[G][i].end
            PROVE  HeadLeft(i)' <=> file'[G][i].n \notin cut
        <4>1. CASE i \in 1..K
          <5>1. file[G][i].end
            BY <3>1, <3>4, <4>1, Zenon
          <5>2. HeadLeft(i) <=> file[G][i].n \notin cut
            BY <3>2, <3>4, <4>1, <5>1 DEF CutInv, CutsKnown
          <5>3. p.head => p.n # file[G][i].n
            BY <1>1, <1>4, <3>1, <4>1
          <5>4. HeadLeft(i)' <=> HeadLeft(i)
            <6>1. HeadLeft(i)' <=> \E j \in 1..K + 1 : j > reader.pos /\ file'[G][j].n = file'[G][i].n /\ file'[G][j].head
              BY <1>4, <3>2, Zenon DEF HeadLeft
            <6>2. HeadLeft(i) <=> \E j \in 1..K : j > reader.pos /\ file[G][j].n = file[G][i].n /\ file[G][j].head
              BY <3>2, Zenon DEF HeadLeft
            <6>3. \A j \in 1..K + 1 : j \in 1..K \/ j = K + 1
              BY <1>2
            <6>4. \A j \in 1..K : j \in 1..K + 1
              BY <1>2
            <6>5. file'[G][i] = file[G][i]
              BY <3>1, <4>1
            <6> QED BY <3>1, <3>2, <5>3, <6>1, <6>2, <6>3, <6>4, <6>5, Zenon
          <5> QED BY <3>1, <4>1, <5>2, <5>4
        <4>2. CASE i = K + 1
          <5>1. file'[G][i] = p /\ e
            BY <1>1, <3>2, <3>4, <4>2, Zenon
          <5>2. HeadLeft(i)' <=> \E j \in 1..K + 1 : j > reader.pos /\ file'[G][j].n = p.n /\ file'[G][j].head
            BY <1>4, <3>2, <5>1, Zenon DEF HeadLeft
          <5>3. CASE h
            <6>1. K + 1 \in 1..K + 1 /\ K + 1 > reader.pos
              BY <1>2, <2>1, <3>2
            <6>2. HeadLeft(i)'
              BY <1>1, <3>2, <5>2, <5>3, <6>1, Zenon
            <6>3. p.n \notin cut
              BY <1>1, <1>4, <3>3, <5>3 DEF CutInv
            <6> QED BY <5>1, <6>2, <6>3
          <5>4. CASE ~h
            <6>1. Half /\ p.n = written /\ ~p.head
              BY <1>1, <5>4
            <6>2. K # 0 /\ file[G][K].n = written /\ file[G][K].head
              BY <2>3, <6>1 DEF CutInv, PiecesInOrder
            <6>3. K \in 1..K /\ K \in 1..K + 1
              BY <1>2, <6>2
            <6>4. written \in cut <=> reader.pos = K
              BY <2>3, <3>2, <6>1 DEF CutInv, CutsKnown
            <6>5. CASE reader.pos = K
              <7>1. \A j \in 1..K + 1 : j > reader.pos => j = K + 1
                BY <1>2, <6>5
              <7> QED BY <3>2, <5>1, <5>2, <6>1, <6>4, <6>5, <7>1, Zenon
            <6>6. CASE reader.pos # K
              <7>1. K > reader.pos
                BY <1>2, <2>1, <3>2, <6>6
              <7>2. file'[G][K] = file[G][K]
                BY <3>1, <6>3
              <7>3. HeadLeft(i)'
                BY <5>2, <6>1, <6>2, <6>3, <7>1, <7>2, Zenon
              <7> QED BY <5>1, <6>1, <6>4, <6>6, <7>3, Zenon
            <6> QED BY <6>5, <6>6
          <5> QED BY <5>3, <5>4
        <4> QED BY <1>2, <3>4, <4>1, <4>2
      <3>5. Half' => (written' \in cut <=> reader.pos = K + 1)
        <4>1. Half' => h
          BY <1>1
        <4>2. h => written' \notin cut
          BY <1>1, <1>4, <3>3 DEF CutInv
        <4>3. reader.pos # K + 1
          BY <1>2, <2>1, <3>2
        <4> QED BY <4>1, <4>2, <4>3
      <3> QED BY <1>4, <3>2, <3>4, <3>5 DEF CutsKnown
    <2> QED BY <2>2, <2>3
  <1>8. WholeUnlessCut' /\ cut' \subseteq Nat /\ (Journal' => cut' = {})
    BY <1>4 DEF CutInv, WholeUnlessCut
  <1>9. \A n \in cut' : n <= written'
    BY <1>4, <1>1 DEF CutInv
  <1> QED BY <1>6, <1>7, <1>8, <1>9 DEF CutInv

\* The log is created anew: no line is being written to the new file.
LEMMA CreateKeepsCuts ==
    ASSUME CutInv, LogInv, Create
    PROVE  CutInv'
  <1> DEFINE L == Len(file)
  <1>1. file \in Seq(Seq(Piece)) /\ L \in Nat
    BY LenProperties DEF LogInv, LogTypeOK
  <1>2. file' = Append(file, <<>>) /\ UNCHANGED <<source, written, reader, read, cut>>
    BY DEF Create
  <1>3. /\ Len(file') = L + 1 /\ \A g \in 1..L : file'[g] = file[g]
        /\ file'[L + 1] = <<>> /\ Len(file'[L + 1]) = 0
    <2>1. <<>> \in Seq(Piece)
      BY EmptySeq
    <2> QED BY <1>1, <1>2, <2>1, AppendProperties
  <1>4. ~Half' /\ Journal' = Journal
    BY <1>2, <1>3, Zenon DEF Half, Latest, Journal
  <1>5. PiecesInOrder'
    <2> SUFFICES ASSUME NEW g \in 1..L + 1, NEW i \in 1..Len(file'[g])
                 PROVE  /\ file'[g][i].n <= written
                        /\ \A j \in 1..Len(file'[g]) : i < j => file'[g][i].n <= file'[g][j].n
      BY <1>2, <1>3, <1>4 DEF PiecesInOrder
    <2>1. g \in 1..L
      BY <1>1, <1>3
    <2> QED BY <1>3, <2>1 DEF CutInv, PiecesInOrder
  <1>6. CutsKnown'
    <2>1. reader.st = "open" => reader.gen \in 1..L
      BY DEF LogInv, LogTypeOK
    <2> QED BY <1>2, <1>3, <1>4, <2>1 DEF CutInv, CutsKnown, HeadLeft
  <1> QED BY <1>2, <1>4, <1>5, <1>6 DEF CutInv, WholeUnlessCut

\* The next line is read: it is whole if its beginning was left to read.
LEMMA ReadLineKeepsCuts ==
    ASSUME CutInv, LogInv, StreamTypeOK, ReadLine
    PROVE  CutInv'
  <1> DEFINE f == file[reader.gen]
             i == Min(Ends)
             m == LineAt(i)
  <1>1. /\ reader.st = "open" /\ ~Journal /\ reader.gen \in 1..Len(file) /\ reader.pos \in Nat
        /\ reader \in [st : {"none", "open", "closed", "dead"}, gen : Nat, from : Nat, pos : Nat]
    BY DEF LogInv, LogTypeOK, ReadLine
  <1>2. f \in Seq(Piece) /\ Len(f) \in Nat /\ DOMAIN f = 1..Len(f)
    <2>1. f \in Seq(Piece)
      BY <1>1, ElementOfSeq DEF LogInv, LogTypeOK
    <2> QED BY <2>1, LenProperties
  <1>3. i \in 1..Len(f) /\ i > reader.pos /\ f[i].end
    <2>1. Ends = {j \in 1..Len(f) : j > reader.pos /\ f[j].end}
      BY <1>2 DEF Ends
    <2>2. Ends \subseteq Nat /\ Ends # {}
      BY <2>1 DEF ReadLine
    <2> QED BY <2>1, <2>2, MinOfNaturals
  <1>4. ASSUME NEW j \in 1..Len(f) PROVE f[j] \in Piece /\ f[j].n \in Nat
    <2>1. f[j] \in Piece
      BY <1>2, ElementOfSeq
    <2> QED BY <2>1 DEF Piece
  <1>5. m.n = f[i].n /\ (m.whole <=> f[i].n \notin cut)
    <2> DEFINE w == \E j \in DOMAIN f : j > reader.pos /\ f[j].n = f[i].n /\ f[j].head
    <2>1. m = [n |-> f[i].n, whole |-> w]
      BY Zenon DEF LineAt
    <2>2. w <=> HeadLeft(i)
      BY <1>2, Zenon DEF HeadLeft
    <2>3. HeadLeft(i) <=> f[i].n \notin cut
      BY <1>1, <1>3 DEF CutInv, CutsKnown
    <2> HIDE DEF w
    <2>4. m.n = f[i].n /\ m.whole = w
      BY <2>1
    <2> QED BY <2>2, <2>3, <2>4, Zenon
  <1>6. /\ read' = Append(read, m) /\ reader' = [reader EXCEPT !.pos = i]
        /\ UNCHANGED <<source, file, written, cut>>
    BY DEF ReadLine, Broadcast, logVars
  <1>7. m \in Msg
    <2> DEFINE w == \E j \in DOMAIN f : j > reader.pos /\ f[j].n = f[i].n /\ f[j].head
    <2>1. m = [n |-> f[i].n, whole |-> w] /\ w \in BOOLEAN
      BY Zenon DEF LineAt
    <2>2. f[i].n \in Nat
      BY <1>3, <1>4
    <2> HIDE DEF w, m, f, i
    <2> QED BY <2>1, <2>2 DEF Msg
  <1> HIDE DEF m, i
  <1>8. Half' = Half /\ Journal' = Journal
    BY <1>6 DEF Half, Latest, Journal
  <1>9. PiecesInOrder'
    BY <1>6, <1>8 DEF CutInv, PiecesInOrder
  <1>10. WholeUnlessCut'
    <2>1. read \in Seq(Msg) /\ Len(read) \in Nat /\ DOMAIN read = 1..Len(read)
      BY LenProperties DEF StreamTypeOK
    <2>2. /\ DOMAIN read' = 1..Len(read) + 1
          /\ \A k \in 1..Len(read) : read'[k] = read[k]
          /\ read'[Len(read) + 1] = m
      BY <1>6, <1>7, <2>1, AppendProperties, LenProperties
    <2>3. ASSUME NEW k \in DOMAIN read' PROVE read'[k].whole <=> read'[k].n \notin cut
      <3>1. CASE k = Len(read) + 1
        BY <1>5, <2>2, <3>1, Zenon
      <3>2. CASE k \in 1..Len(read)
        BY <2>1, <2>2, <3>2, Zenon DEF CutInv, WholeUnlessCut
      <3> QED BY <2>1, <2>2, <3>1, <3>2
    <2> QED BY <1>6, <2>3, Zenon DEF WholeUnlessCut
  <1>11. CutsKnown'
    <2>1. reader'.st = "open" /\ reader'.gen = reader.gen /\ reader'.pos = i /\ i \in Nat
      BY <1>1, <1>3, <1>6
    <2>2. ASSUME NEW k \in 1..Len(f), k > i, f[k].end
          PROVE  HeadLeft(k)' <=> f[k].n \notin cut
      <3>1. k > reader.pos
        BY <1>1, <2>1, <1>3, <2>2
      <3>2. HeadLeft(k) <=> f[k].n \notin cut
        BY <1>1, <2>2, <3>1 DEF CutInv, CutsKnown
      <3>3. f[i].n < f[k].n
        BY <1>1, <1>3, <2>2 DEF LogInv, LinesInOrder
      <3>4. ASSUME NEW j \in 1..Len(f), j > reader.pos, f[j].n = f[k].n PROVE j > i
        <4>1. j < i => f[j].n <= f[i].n
          BY <1>1, <1>3, <3>4 DEF CutInv, PiecesInOrder
        <4>2. j # i
          BY <1>3, <1>4, <2>2, <3>3, <3>4
        <4> QED BY <1>3, <1>4, <2>1, <2>2, <3>3, <3>4, <4>1, <4>2
      <3>5. HeadLeft(k)' <=> \E j \in 1..Len(f) : j > i /\ f[j].n = f[k].n /\ f[j].head
        BY <1>6, <2>1, Zenon DEF HeadLeft
      <3>6. HeadLeft(k) <=> \E j \in 1..Len(f) : j > reader.pos /\ f[j].n = f[k].n /\ f[j].head
        BY Zenon DEF HeadLeft
      <3>7. \A j \in 1..Len(f) : j > i => j > reader.pos
        BY <1>1, <1>3, <2>1
      <3> QED BY <3>2, <3>4, <3>5, <3>6, <3>7, Zenon
    <2>3. (Half /\ reader.gen = Len(file)) => (written \in cut <=> i = Len(f))
      <3> SUFFICES ASSUME Half, reader.gen = Len(file) PROVE written \in cut <=> i = Len(f)
        OBVIOUS
      <3>1. ~f[Len(f)].end
        BY DEF CutInv, PiecesInOrder
      <3>2. i # Len(f)
        BY <1>3, <3>1
      <3>3. reader.pos # Len(f)
        BY <1>1, <1>2, <1>3
      <3>4. written \in cut <=> reader.pos = Len(f)
        BY <1>1 DEF CutInv, CutsKnown
      <3> QED BY <3>2, <3>3, <3>4
    <2> QED BY <1>6, <1>8, <2>1, <2>2, <2>3 DEF CutsKnown
  <1> QED BY <1>6, <1>8, <1>9, <1>10, <1>11 DEF CutInv

\* Every step keeps the cut lines known.
LEMMA NextCuts ==
    ASSUME PipelineInv, LogTypeOK', [PipelineNext]_vars
    PROVE  CutInv'
  <1>1. CutInv /\ LogInv /\ StreamTypeOK /\ LogTypeOK
    BY DEF PipelineInv, LogInv
  <1>2. ASSUME NEW h \in BOOLEAN, NEW e \in BOOLEAN, h \/ e, Write(h, e) PROVE CutInv'
    BY <1>1, <1>2, WriteKeepsCuts
  <1>3. CASE Create
    BY <1>1, <1>3, CreateKeepsCuts
  <1>4. CASE ReadLine
    BY <1>1, <1>4, ReadLineKeepsCuts
  <1>5. CASE JournalInit \/ JournalRefresh \/ JournalNext
    BY <1>1, <1>5, JournalIsWhole
  <1>6. CASE OpenFirst \/ CreateEvent
    <2>1. /\ ~Journal /\ UNCHANGED <<source, file, written, read>>
          /\ \/ reader' = openReader(TRUE) /\ cut' = cut \cup BeingWritten(path)
             \/ reader' = openReader(FALSE) /\ cut' = cut
      BY <1>1, <1>6 DEF OpenFirst, CreateEvent, LogTypeOK, logVars
    <2>2. CASE reader' = openReader(TRUE) /\ cut' = cut \cup BeingWritten(path)
      <3>1. reader' = [st |-> "open", gen |-> path, from |-> Len(file[path]), pos |-> Len(file[path])]
        BY <2>2 DEF openReader
      <3>2. reader'.st = "open" /\ reader'.gen = path /\ reader'.pos = Len(file[path])
        BY <3>1
      <3> QED BY <1>1, <2>1, <2>2, <3>2, CutAtEnd
    <2>3. CASE reader' = openReader(FALSE) /\ cut' = cut
      <3>1. reader' = [reader EXCEPT !.st = "closed"] /\ reader \in [st : {"none", "open", "closed", "dead"}, gen : Nat, from : Nat, pos : Nat]
        BY <1>1, <2>3 DEF openReader, LogTypeOK
      <3>2. reader'.st # "open"
        BY <3>1
      <3> QED BY <1>1, <2>1, <2>3, <3>2, CutAtEnd
    <2> QED BY <2>1, <2>2, <2>3
  <1>7. CASE ReadEOF
    <2>1. /\ reading /\ UNCHANGED <<source, file, written, read>>
          /\ reader' = [reader EXCEPT !.pos = Len(file[reader.gen])]
          /\ cut' = cut \cup BeingWritten(reader.gen)
      BY <1>7 DEF ReadEOF, logVars
    <2>2. ~Journal /\ reader.st = "open" /\ reader \in [st : {"none", "open", "closed", "dead"}, gen : Nat, from : Nat, pos : Nat]
      BY <1>1, <2>1 DEF LogTypeOK
    <2>3. reader'.st = "open" /\ reader'.gen = reader.gen /\ reader'.pos = Len(file[reader.gen])
      BY <2>1, <2>2
    <2> QED BY <1>1, <2>1, <2>2, <2>3, CutAtEnd
  <1>8. CASE Rename \/ reconcileWatcher \/ StartRead \/ JournalTick \/ UNCHANGED vars
    <2>1. UNCHANGED <<source, file, written, reader, read, cut>>
      BY <1>8 DEF Rename, reconcileWatcher, StartRead, JournalTick, vars, logVars, obsVars, histVars
    <2> QED BY <1>1, <2>1, CutKept
  <1>9. ASSUME NEW s \in Subs, Receive(s) \/ HandlerReturns(s) PROVE CutInv'
    <2>1. UNCHANGED <<source, file, written, reader, read, cut>>
      BY <1>9 DEF Receive, HandlerReturns, logVars, obsVars, histVars
    <2> QED BY <1>1, <2>1, CutKept
  <1> QED BY <1>2, <1>3, <1>4, <1>5, <1>6, <1>7, <1>8, <1>9 DEF PipelineNext, ObserverStep

-----------------------------------------------------------------------------
(* The theorems *)

\* At the start nothing is written, read or subscribed to yet.
LEMMA InitPipeline == PipelineInit => PipelineInv
  <1> SUFFICES ASSUME PipelineInit PROVE PipelineInv
    OBVIOUS
  <1>1. file = <<<<>>>> /\ Len(file) = 1 /\ file[1] = <<>> /\ file \in Seq(Seq(Piece)) /\ file # <<>> /\ Len(file[1]) = 0
    BY EmptySeq DEF PipelineInit
  <1>2. path \in 0..Len(file)
    BY <1>1 DEF PipelineInit
  <1>3. reader = NoReader /\ reader.st = "none" /\ NoReader \in [st : {"none", "open", "closed", "dead"}, gen : Nat, from : Nat, pos : Nat]
    BY DEF PipelineInit, NoReader
  <1>4. LogTypeOK
    BY <1>1, <1>2, <1>3 DEF PipelineInit, LogTypeOK
  <1>5. Lines(read) = {} /\ read = <<>> /\ read \in Seq(Msg)
    BY EmptySeq DEF PipelineInit, Lines
  <1>6. LinesInOrder /\ ReadInOrder /\ NoGap
    BY <1>1, <1>3, <1>5 DEF LinesInOrder, ReadInOrder, NoGap
  <1>7. /\ \A s \in Subs : done[s] = <<>> /\ busy[s] = <<>> /\ buf[s] = <<>>
        /\ done = [s \in Subs |-> <<>>] /\ busy = [s \in Subs |-> <<>>] /\ buf = [s \in Subs |-> <<>>]
    BY DEF PipelineInit
  <1>8. StreamTypeOK
    BY <1>5, <1>7, EmptySeq DEF StreamTypeOK
  <1>9. \A s \in Subs : Stream(s) = <<>>
    <2> SUFFICES ASSUME NEW s \in Subs PROVE done[s] \o busy[s] \o buf[s] = <<>>
      BY DEF Stream
    <2>1. <<>> \o <<>> = <<>>
      OBVIOUS
    <2> QED BY <1>7, <2>1, Zenon
  <1>10. Increasing(Numbers(<<>>)) /\ Lines(<<>>) = {}
    BY DEF Increasing, Numbers, Lines
  <1>11. StreamsAreFaithful
    BY <1>5, <1>9, <1>10 DEF StreamsAreFaithful
  <1>12. CutInv
    <2>1. ~Half /\ \A g \in 1..Len(file) : Len(file[g]) = 0
      BY <1>1 DEF Half, Latest
    <2>2. PiecesInOrder
      BY <2>1 DEF PiecesInOrder
    <2>3. cut = {} /\ DOMAIN read = {} /\ CutsKnown
      BY <1>3, <1>5 DEF PipelineInit, CutsKnown
    <2> QED BY <2>2, <2>3 DEF CutInv, WholeUnlessCut
  <1> QED BY <1>4, <1>6, <1>8, <1>11, <1>12 DEF PipelineInv

\* Every step keeps the invariant.
LEMMA NextPipeline == PipelineInv /\ [PipelineNext]_vars => PipelineInv'
  <1> SUFFICES ASSUME PipelineInv, [PipelineNext]_vars
               PROVE  LogInv' /\ StreamTypeOK' /\ StreamsAreFaithful'
    BY NextCuts DEF PipelineInv, LogInv
  <1>1. LogInv /\ StreamTypeOK /\ StreamsAreFaithful
    BY DEF PipelineInv, LogInv
  <1>2. ASSUME NEW h \in BOOLEAN, NEW e \in BOOLEAN, h \/ e, Write(h, e)
        PROVE  LogInv' /\ StreamTypeOK' /\ StreamsAreFaithful'
    <2>1. UNCHANGED <<source, read, done, busy, buf, full>>
      BY <1>2 DEF Write, subVars, histVars
    <2> QED BY <1>1, <1>2, <2>1, WriteKeepsLog, StreamsKept
  <1>3. CASE Create
    <2>1. UNCHANGED <<source, read, done, busy, buf, full>>
      BY <1>3 DEF Create, subVars
    <2> QED BY <1>1, <1>3, <2>1, CreateKeepsLog, StreamsKept
  <1>4. CASE ReadLine
    BY <1>4, ReadLineKeeps
  <1>5. CASE JournalNext
    BY <1>5, JournalNextKeeps
  <1>6. CASE OpenFirst \/ CreateEvent \/ ReadEOF \/ JournalInit \/ JournalRefresh
    <2>1. UNCHANGED <<source, read, done, busy, buf, full>>
      BY <1>6 DEF OpenFirst, CreateEvent, ReadEOF, JournalInit, JournalRefresh, logVars, subVars, histVars
    <2> QED BY <1>1, <1>6, <2>1, OpeningKeepsLog, ReadEOFKeepsLog, JournalKeepsLog, StreamsKept
  <1>7. CASE Rename \/ reconcileWatcher \/ StartRead \/ JournalTick \/ UNCHANGED vars
    <2>1. UNCHANGED <<source, file, written, reader, read, unreadable, done, busy, buf, full>>
      BY <1>7 DEF Rename, reconcileWatcher, StartRead, JournalTick, vars, logVars, obsVars, subVars, histVars
    <2>2. path' = path \/ path' = 0
      BY <1>7 DEF Rename, reconcileWatcher, StartRead, JournalTick, vars, logVars, obsVars
    <2>3. path' \in 0..Len(file)
      <3>1. Len(file) \in Nat /\ path \in 0..Len(file)
        BY <1>1, LenProperties DEF LogInv, LogTypeOK
      <3> QED BY <2>2, <3>1
    <2>4. (reading' => reader.st = "open" /\ ~Journal) /\ (due' => Journal) /\ (Journal => ~watching')
      BY <1>1, <1>7 DEF Rename, reconcileWatcher, StartRead, JournalTick, vars, logVars, obsVars, LogInv, LogTypeOK
    <2> QED BY <1>1, <2>1, <2>3, <2>4, LogKept, StreamsKept
  <1>8. ASSUME NEW s \in Subs, Receive(s) \/ HandlerReturns(s)
        PROVE  LogInv' /\ StreamTypeOK' /\ StreamsAreFaithful'
    <2>1. UNCHANGED <<source, file, path, written, reader, reading, due, watching, read, unreadable>>
      BY <1>8 DEF Receive, HandlerReturns, logVars, obsVars, histVars
    <2>2. LogInv'
      BY <1>1, <2>1, LogKept DEF LogInv, LogTypeOK
    <2> QED BY <1>1, <1>8, <2>2, HandlersKeepStreams
  <1> QED BY <1>2, <1>3, <1>4, <1>5, <1>6, <1>7, <1>8 DEF PipelineNext, ObserverStep

\* However lines, half-lines, rotations, refreshes, reads and handlers
\* interleave, no monitor handles a line twice or out of order, and one whose
\* buffer never overflowed gets every line that was read (observer.go,
\* Broadcast; file.go, readAll).
THEOREM StreamsStayFaithful == PipelineSpec => []StreamsAreFaithful
  <1>1. PipelineInv => StreamsAreFaithful
    BY DEF PipelineInv
  <1> QED BY <1>1, InitPipeline, NextPipeline, PTL DEF PipelineSpec

\* While one file is followed, of every line that was finished in it up to the
\* reader's position something has been broadcast: all of it, except for exactly
\* the lines that were being written at an end of the file, whose beginning is
\* dropped (file.go, readAll).
THEOREM NoLineIsSkipped == PipelineSpec => []FollowedFileReadCompletely
  <1>1. PipelineInv => FollowedFileReadCompletely
    BY DEF PipelineInv, CutInv, FollowedFileReadCompletely
  <1> QED BY <1>1, InitPipeline, NextPipeline, PTL DEF PipelineSpec
=============================================================================
