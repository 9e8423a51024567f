---------------------------- MODULE LogPipeline ----------------------------
(***************************************************************************)
(* From a log to the monitors: the file and journal observers              *)
(* (pkg/observer), their subscribers' buffered channels, and the channel   *)
(* handlers (util/subscription.go) that run a monitor's handler for every  *)
(* line.  A behaviour follows one source, with all monitors subscribed to  *)
(* it; its observer, its handlers, the writer of the log and the rotation  *)
(* of the log are concurrent.                                              *)
(***************************************************************************)
EXTENDS LogHandlers, SequencesExt

CONSTANTS
    Sources,        \* the sources followed, one per behaviour
    Monitors,       \* the monitors that are enabled
    Contents,       \* the patterns that the n-th line of a source matches
    BufferSize,     \* the capacity of a subscriber's channel (1000)
    MaxLines, MaxRotations, MaxRefreshes

ASSUME BufferSizeAssumption == BufferSize \in Nat \ {0}

VARIABLES
    source,
    file,       \* the log's files: of each, the sequence of writes
    path,       \* the file at the observer's path, 0 if there is none
    written,    \* how many lines have been begun
    watching,   \* the watcher has been added to the directory
    events,     \* pending Create events of the watcher
    reader,     \* fileHandle and fileReader, or the journal handle
    reading,    \* the file observer is in readAll
    due,        \* the journal's refresh interval has passed
    refreshes,
    buf,        \* the subscribers' channels
    busy,       \* the line a handler is at work on: at most one
    done,       \* the lines a handler has returned from
    sent,       \* the conditions the handlers have notified
    read,       \* history: what the observer has broadcast
    full,       \* history: subscribers that missed a line
    unreadable, \* history: journal entries GetEntry failed on
    announced,  \* history: files whose creation the watcher saw
    unopened,   \* history: files that could not be opened when that was told
    cut         \* history: lines of which a part was there at an end of the file

logVars == <<source, file, path, written>>
obsVars == <<watching, events, reader, reading, due, refreshes>>
subVars == <<busy, done, sent>>
histVars == <<read, full, unreadable, announced, unopened, cut>>
vars == <<logVars, obsVars, buf, subVars, histVars>>

Journal == source \in {"kubelet", "systemd"}
Rotated == ~Journal /\ source # "dmesg"
Subs == Handlers(source) \cap Monitors
NoReader == [st |-> "none", gen |-> 0, from |-> 0, pos |-> 0]
Latest == Len(file)
Half == file[Latest] # <<>> /\ ~Last(file[Latest]).end

-----------------------------------------------------------------------------
(* The log *)

\* A line is written at once or, in an ordinary file, in two writes.
Write(head, end) ==
    /\ IF Half THEN ~head ELSE head /\ written < MaxLines
    /\ head /\ ~end => Rotated
    /\ written' = IF head THEN written + 1 ELSE written
    /\ file' = [file EXCEPT ![Latest] = Append(@, [n |-> written', head |-> head, end |-> end])]
    /\ UNCHANGED <<source, path, obsVars, buf, subVars, histVars>>

\* The log is rotated: renamed away, and created anew.  /dev/kmsg and the
\* journal are not.
Rename ==
    /\ Rotated /\ path # 0 /\ ~Half /\ Latest <= MaxRotations
    /\ path' = 0
    /\ UNCHANGED <<source, file, written, obsVars, buf, subVars, histVars>>
Create ==
    /\ path = 0
    /\ file' = Append(file, <<>>)
    /\ path' = Latest + 1
    /\ events' = IF watching THEN events + 1 ELSE events
    /\ announced' = IF watching THEN announced \cup {Latest + 1} ELSE announced
    /\ UNCHANGED <<source, written, watching, reader, reading, due, refreshes, buf, subVars, read, full, unreadable, unopened, cut>>

-----------------------------------------------------------------------------
(* Broadcasting *)

\* Mutant: a full subscriber ends the loop over the subscribers.
Broadcast_Stops(m) ==
    LET stop == \E s \in Subs : Len(buf[s]) >= BufferSize
    IN  /\ buf' = [s \in Subs |-> IF stop THEN buf[s] ELSE Append(buf[s], m)]
        /\ full' = full \cup {s \in Subs : Len(buf[s]) >= BufferSize}
        /\ read' = Append(read, m)
\* BaseObserver.Broadcast: a subscriber whose buffer is full misses the line.
Broadcast(m) ==
    /\ buf' = [s \in Subs |-> IF Len(buf[s]) < BufferSize THEN Append(buf[s], m) ELSE buf[s]]
    /\ full' = full \cup {s \in Subs : Len(buf[s]) >= BufferSize}
    /\ read' = Append(read, m)

-----------------------------------------------------------------------------
(* The file observer *)

\* openReader: the old handle is closed first.  If the file is not there, or
\* Open or Seek fails for another reason, fileReader stays on the closed handle.
openReader(ok) ==
    IF ok THEN [st |-> "open", gen |-> path, from |-> Len(file[path]), pos |-> Len(file[path])]
    ELSE [reader EXCEPT !.st = "closed"]

\* The line that is being written to file g, if any.
BeingWritten(g) == IF g = Latest /\ Half THEN {written} ELSE {}

\* watchLoop polls until the reader is open: an error is a further attempt ...
OpenFirst ==
    /\ ~Journal /\ reader.st = "none" /\ path # 0
    /\ reader' = openReader(TRUE)
    /\ cut' = cut \cup BeingWritten(path)
    /\ UNCHANGED <<logVars, watching, events, reading, due, refreshes, buf, subVars, read, full, unreadable, announced, unopened>>

\* ... and then adds the watcher (reconcileWatcher).
reconcileWatcher ==
    /\ ~Journal /\ reader.st # "none" /\ ~watching
    /\ watching' = TRUE
    /\ UNCHANGED <<logVars, events, reader, reading, due, refreshes, buf, subVars, histVars>>

\* Mutant: Create events are taken for other operations.
CreateEvent_Ignored ==
    /\ watching /\ ~reading /\ events > 0
    /\ events' = events - 1
    /\ UNCHANGED <<logVars, watching, reader, reading, due, refreshes, buf, subVars, histVars>>
\* An event comes before reading; a file that cannot be opened is not tried
\* again before the next one.
CreateEvent ==
    /\ watching /\ ~reading /\ events > 0
    /\ events' = events - 1
    /\ \E ok \in (IF path = 0 THEN {FALSE} ELSE BOOLEAN) :
           /\ reader' = openReader(ok)
           /\ unopened' = IF ok THEN unopened ELSE unopened \cup {path}
           /\ cut' = IF ok THEN cut \cup BeingWritten(path) ELSE cut
    /\ UNCHANGED <<logVars, watching, reading, due, refreshes, buf, subVars, read, full, unreadable, announced>>

\* The default case: readAll, line by line until nothing is left.
StartRead ==
    /\ watching /\ ~reading /\ events = 0
    /\ reader.st = "open" /\ reader.pos < Len(file[reader.gen])
    /\ reading' = TRUE
    /\ UNCHANGED <<logVars, watching, events, reader, due, refreshes, buf, subVars, histVars>>

\* The ends of the lines beyond the reader's position.
Ends == {i \in DOMAIN file[reader.gen] : i > reader.pos /\ file[reader.gen][i].end}
\* The line up to the write at i: it is whole unless its head was consumed.
LineAt(i) ==
    LET n == file[reader.gen][i].n
    IN  [n |-> n, whole |-> \E j \in DOMAIN file[reader.gen] :
                               j > reader.pos /\ file[reader.gen][j].n = n /\ file[reader.gen][j].head]
\* Mutant: of all that was read, only the first line is passed on.
ReadLine_Chunk ==
    /\ reading /\ Ends # {}
    /\ Broadcast(LineAt(Min(Ends)))
    /\ reader' = [reader EXCEPT !.pos = Max(Ends)]
    /\ UNCHANGED <<logVars, watching, events, reading, due, refreshes, subVars, unreadable, announced, unopened, cut>>
ReadLine ==
    /\ reading /\ Ends # {}
    /\ Broadcast(LineAt(Min(Ends)))
    /\ reader' = [reader EXCEPT !.pos = Min(Ends)]
    /\ UNCHANGED <<logVars, watching, events, reading, due, refreshes, subVars, unreadable, announced, unopened, cut>>
\* ReadString returns what there is of an unfinished line with io.EOF: it is
\* dropped.
ReadEOF ==
    /\ reading /\ Ends = {}
    /\ reader' = [reader EXCEPT !.pos = Len(file[reader.gen])]
    /\ reading' = FALSE
    /\ cut' = cut \cup BeingWritten(reader.gen)
    /\ UNCHANGED <<logVars, watching, events, due, refreshes, buf, subVars, read, full, unreadable, announced, unopened>>

-----------------------------------------------------------------------------
(* The journal observer *)

\* openJournal seeks to now.  If that fails at the start, Init returns and the
\* observer is never started again.
openJournal == [st |-> "open", gen |-> 1, from |-> Len(file[1]), pos |-> Len(file[1])]
JournalInit ==
    /\ Journal /\ reader.st = "none"
    /\ reader' \in {openJournal, [NoReader EXCEPT !.st = "dead"]}
    /\ UNCHANGED <<logVars, watching, events, reading, due, refreshes, buf, subVars, histVars>>

JournalTick ==
    /\ Journal /\ reader.st = "open" /\ ~due /\ refreshes < MaxRefreshes
    /\ due' = TRUE /\ refreshes' = refreshes + 1
    /\ UNCHANGED <<logVars, watching, events, reader, reading, buf, subVars, histVars>>

\* The refresh at the head of an iteration; if it fails, the handle is kept
\* until the next interval.
JournalRefresh ==
    /\ due
    /\ due' = FALSE
    /\ reader' \in {reader, [openJournal EXCEPT !.from = reader.from]}
    /\ UNCHANGED <<logVars, watching, events, reading, refreshes, buf, subVars, histVars>>

\* One entry per iteration; an entry that GetEntry fails on is passed over.
NextEntry == file[1][reader.pos + 1]
JournalNext ==
    /\ Journal /\ reader.st = "open" /\ ~due /\ reader.pos < Len(file[1])
    /\ reader' = [reader EXCEPT !.pos = @ + 1]
    /\ \/ Broadcast([n |-> NextEntry.n, whole |-> TRUE]) /\ UNCHANGED unreadable
       \/ unreadable' = unreadable \cup {NextEntry.n} /\ UNCHANGED <<buf, full, read>>
    /\ UNCHANGED <<logVars, watching, events, reading, due, refreshes, subVars, announced, unopened, cut>>

-----------------------------------------------------------------------------
(* The channel handlers *)

\* Mutant: the handler's loop ends after one line.
Receive_Once(s) ==
    /\ busy[s] = <<>> /\ buf[s] # <<>> /\ done[s] = <<>>
    /\ busy' = [busy EXCEPT ![s] = <<Head(buf[s])>>]
    /\ buf' = [buf EXCEPT ![s] = Tail(@)]
    /\ UNCHANGED <<logVars, obsVars, done, sent, histVars>>
\* channelHandler.Start takes a line and calls the handler.
Receive(s) ==
    /\ busy[s] = <<>> /\ buf[s] # <<>>
    /\ busy' = [busy EXCEPT ![s] = <<Head(buf[s])>>]
    /\ buf' = [buf EXCEPT ![s] = Tail(@)]
    /\ UNCHANGED <<logVars, obsVars, done, sent, histVars>>

\* The handler returns, its notifications accepted.  What is left of a line may
\* match any of its patterns.
HandlerReturns(s) ==
    /\ busy[s] # <<>>
    /\ LET m == busy[s][1]
       IN  \E line \in IF m.whole THEN {Contents[source][m.n]} ELSE SUBSET Contents[source][m.n] :
              sent' = sent \cup {<<s, m.n, c>> : c \in Handle(s, source, line)}
    /\ busy' = [busy EXCEPT ![s] = <<>>]
    /\ done' = [done EXCEPT ![s] = Append(@, busy[s][1])]
    /\ UNCHANGED <<logVars, obsVars, buf, histVars>>

-----------------------------------------------------------------------------
\* A log that is rotated may not exist yet when the observer starts.
PipelineInit ==
    /\ source \in Sources
    /\ file = <<<<>>>> /\ path \in (IF Rotated THEN {0, 1} ELSE {1}) /\ written = 0
    /\ watching = FALSE /\ events = 0 /\ reader = NoReader /\ reading = FALSE
    /\ due = FALSE /\ refreshes = 0
    /\ buf = [s \in Subs |-> <<>>] /\ busy = [s \in Subs |-> <<>>] /\ done = [s \in Subs |-> <<>>]
    /\ sent = {} /\ read = <<>> /\ full = {} /\ unreadable = {} /\ announced = {} /\ unopened = {} /\ cut = {}

ObserverStep ==
    \/ OpenFirst \/ reconcileWatcher \/ CreateEvent \/ StartRead \/ ReadLine \/ ReadEOF
    \/ JournalRefresh \/ JournalNext
PipelineNext ==
    \/ Write(TRUE, TRUE) \/ Write(TRUE, FALSE) \/ Write(FALSE, TRUE)
    \/ Rename \/ Create
    \/ ObserverStep \/ JournalInit \/ JournalTick
    \/ \E s \in Subs : Receive(s) \/ HandlerReturns(s)

PipelineSpec == PipelineInit /\ [][PipelineNext]_vars

\* The loops of the observer and the handlers never block: Broadcast does not,
\* and Notify returns (NotifyReturns of the manager).
LiveSpec ==
    /\ PipelineSpec /\ WF_vars(ObserverStep)
    /\ \A s \in Monitors : WF_vars(s \in Subs /\ (Receive(s) \/ HandlerReturns(s)))

-----------------------------------------------------------------------------
(* Properties *)

Message == [n : 1..MaxLines, whole : BOOLEAN]
PipelineTypeOK ==
    /\ source \in Sources /\ path \in 0..Latest /\ Latest \in 1..MaxRotations + 1
    /\ written \in 0..MaxLines /\ events \in 0..MaxRotations
    /\ reader.st \in {"none", "open", "closed", "dead"} /\ reader.gen \in 0..Latest
    /\ reader.st = "open" => reader.from <= reader.pos /\ reader.pos <= Len(file[reader.gen])
    /\ \A s \in Subs :
           /\ Len(buf[s]) <= BufferSize /\ Len(busy[s]) <= 1
           /\ \A i \in DOMAIN done[s] : done[s][i] \in Message

\* What a subscriber has got or will get, in order.
Stream(s) == done[s] \o busy[s] \o buf[s]
Numbers(seq) == [i \in DOMAIN seq |-> seq[i].n]
Increasing(seq) == \A i, j \in DOMAIN seq : i < j => seq[i] < seq[j]
Lines(seq) == {seq[i].n : i \in DOMAIN seq}

\* Across rotations, refreshes, overflows and half-written lines, no monitor
\* handles a line twice or out of order; and a monitor that never let its
\* buffer overflow gets every line that was read, however slow the other
\* subscribers are (observer.go, Broadcast).
StreamsAreFaithful ==
    /\ Increasing(Numbers(read))
    /\ \A s \in Subs :
           /\ Increasing(Numbers(Stream(s)))
           /\ Lines(Stream(s)) \subseteq Lines(read)
           /\ s \notin full => Stream(s) = read

\* The finished lines between where the reader started in its file and where it
\* is now that were neither broadcast nor unreadable.
Skipped ==
    {file[reader.gen][i].n : i \in {k \in DOMAIN file[reader.gen] :
        reader.from < k /\ k <= reader.pos /\ file[reader.gen][k].end}} \ (Lines(read) \cup unreadable)

NoGap == (~Journal /\ reader.st = "open") => Skipped = {}
WholeUnlessCut == \A i \in DOMAIN read : read[i].whole <=> read[i].n \notin cut

\* While one file is followed, something of every finished line of it is
\* broadcast, however writes and reads interleave; and it is the whole line,
\* except for exactly the lines that were being written when the observer got
\* to an end of the file: of those readAll drops the beginning and passes on
\* the rest as if it were a line (file.go, readAll).
FollowedFileReadCompletely == NoGap /\ WholeUnlessCut

\* The refresh of the journal handle "loses at most the window between close
\* and reopen" (journald.go): here the new handle is opened before the old one
\* is closed, so nothing should be lost.
RefreshKeepsBacklog == (Journal /\ reader.st = "open") => Skipped = {}

\* A log file created while the directory is watched is followed in the end,
\* unless it has been rotated away itself, or opening it failed when its Create
\* event was handled: that is not tried again (file.go, watchLoop).
RotationFollowed ==
    \A g \in 2..MaxRotations + 1 :
        (path = g /\ g \in announced) ~> ((reader.st = "open" /\ reader.gen = g) \/ path # g \/ g \in unopened)

\* A line of the followed file, or its rest if it was cut, reaches every monitor
\* that keeps up, unless the observer moves on to another file, or refreshes its
\* handle, before reading it.
Pending(n) ==
    /\ reader.st = "open" /\ (watching \/ Journal)
    /\ \E i \in DOMAIN file[reader.gen] : i > reader.pos /\ file[reader.gen][i].n = n /\ file[reader.gen][i].end
LinesReachMonitors ==
    \A n \in 1..MaxLines : \A s \in Monitors :
        (Pending(n) /\ s \in Subs) ~> (s \notin Subs \/ n \in Lines(done[s]) \/ s \in full \/ (~Pending(n) /\ n \notin Lines(read)))
=============================================================================
