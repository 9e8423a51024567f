------------------------ MODULE PacketCaptureProofs -------------------------
(***************************************************************************)
(* Proofs about one packet capture, for any number of rotated files and    *)
(* without the bound of the run.                                           *)
(***************************************************************************)
EXTENDS PacketCapture, TLAPS

(***************************************************************************)
(* CaptureAndUpload leaves its waits only with tcpdump's exit status, so   *)
(* no file is opened once the shutdown sequence is under way.              *)
(***************************************************************************)
TcpdumpEnded ==
  cmdDoneCh # "empty" \/ phase \in {"stop", "join", "upload", "done"} => tcpdump # "running"

(***************************************************************************)
(* The watcher is joined before the remaining files are compressed, so     *)
(* what is left raw from then on has a compressed copy or was passed over. *)
(***************************************************************************)
WatcherJoined ==
  /\ phase \in {"upload", "done"} => watcher = "returned"
  /\ phase = "upload" => pcap \subseteq gz \cup passedOver

\* Without an upload error no file is left behind but the ones passed over.
ErrorsRecorded ==
  phase = "done" /\ ~uploadErrors => pcap \cup gz \subseteq uploaded \cup cut \cup passedOver

CaptureInv ==
  /\ written \in Nat \ {0}
  /\ TcpdumpEnded
  /\ WatcherJoined
  /\ ErrorsRecorded
  /\ NothingLost

(***************************************************************************)
(* At the start tcpdump writes its first file.                             *)
(***************************************************************************)
LEMMA CaptureInitInv == CaptureInit => CaptureInv
BY DEF CaptureInit, CaptureInv, TcpdumpEnded, WatcherJoined, ErrorsRecorded, NothingLost

(***************************************************************************)
(* Rotation, compression, the end of tcpdump and a cancellation.           *)
(***************************************************************************)
LEMMA SurroundingsInv == CaptureInv /\ Surroundings => CaptureInv'
<1> SUFFICES ASSUME CaptureInv, Surroundings PROVE CaptureInv'
  OBVIOUS
<1>1. CASE Rotate
  <2>1. /\ tcpdump = "running" /\ written' = written + 1
        /\ pcap' = pcap \cup {written'} /\ gz' = gz \cup {written}
        /\ UNCHANGED <<tcpdump, cmdDoneCh, phase, uploaded, cut>>
    BY <1>1 DEF Rotate, procVars, mainVars
  <2>2. phase \notin {"stop", "join", "upload", "done"}
    BY <2>1 DEF CaptureInv, TcpdumpEnded
  <2>3. NothingLost'
    BY <2>1 DEF CaptureInv, NothingLost
  <2>4. QED
    BY <2>1, <2>2, <2>3 DEF CaptureInv, TcpdumpEnded, WatcherJoined, ErrorsRecorded
<1>2. ASSUME NEW f \in Files, IgzipDone(f) PROVE CaptureInv'
  BY <1>2 DEF IgzipDone, CaptureInv, TcpdumpEnded, WatcherJoined, ErrorsRecorded, NothingLost,
     procVars, mainVars, watchVars
<1>3. ASSUME NEW s \in ExitStatus, TcpdumpExits(s) PROVE CaptureInv'
  BY <1>3 DEF TcpdumpExits, ExitStatus, CaptureInv, TcpdumpEnded, WatcherJoined,
     ErrorsRecorded, NothingLost, mainVars, watchVars, fileVars
<1>4. CASE Cancel
  BY <1>4 DEF Cancel, CaptureInv, TcpdumpEnded, WatcherJoined, ErrorsRecorded, NothingLost,
     mainVars, watchVars, fileVars
<1>5. QED
  BY <1>1, <1>2, <1>3, <1>4 DEF Surroundings

(***************************************************************************)
(* The file watcher: it acts before it is joined, and whatever it deletes  *)
(* it uploaded.                                                            *)
(***************************************************************************)
LEMMA WatcherInv == CaptureInv /\ startFileWatcher => CaptureInv'
<1> SUFFICES ASSUME CaptureInv, startFileWatcher PROVE CaptureInv'
  OBVIOUS
<1>1. /\ phase \notin {"upload", "done"}
      /\ UNCHANGED <<tcpdump, cmdDoneCh, phase, written>>
  BY DEF CaptureInv, WatcherJoined, startFileWatcher, WatcherTick, WatcherUpload, WatcherDisk,
     WatcherStop, procVars, mainVars
<1>2. TcpdumpEnded' /\ WatcherJoined' /\ ErrorsRecorded'
  BY <1>1 DEF CaptureInv, TcpdumpEnded, WatcherJoined, ErrorsRecorded
<1>3. ASSUME NEW U, Uploaded(U) PROVE NothingLost'
  BY <1>1, <1>3 DEF CaptureInv, Uploaded, NothingLost
<1>4. UNCHANGED fileVars => NothingLost'
  BY <1>1 DEF CaptureInv, NothingLost, fileVars
<1>5. NothingLost'
  BY <1>3, <1>4 DEF startFileWatcher, WatcherTick, WatcherUpload, WatcherDisk, WatcherStop
<1>6. QED
  BY <1>1, <1>2, <1>5 DEF CaptureInv

(***************************************************************************)
(* CaptureAndUpload itself: select, wait, join, compress and upload.       *)
(***************************************************************************)
LEMMA MainInv == CaptureInv /\ CaptureAndUpload => CaptureInv'
<1> SUFFICES ASSUME CaptureInv, CaptureAndUpload PROVE CaptureInv'
  OBVIOUS
<1>1. CASE Select \/ WaitForTcpdump \/ StopWatcher
  <2>1. /\ UNCHANGED <<fileVars, written, tcpdump>>
        /\ phase' \in {"wait", "stop", "join"}
        /\ \/ phase' = "wait" /\ cmdDoneCh' \in {cmdDoneCh, "empty"}
           \/ cmdDoneCh # "empty" /\ cmdDoneCh' = "empty"
           \/ phase = "stop"
    BY <1>1 DEF Select, WaitForTcpdump, StopWatcher, Terminate, procVars
  <2>2. TcpdumpEnded'
    BY <2>1 DEF CaptureInv, TcpdumpEnded
  <2>3. QED
    BY <2>1, <2>2 DEF CaptureInv, WatcherJoined, ErrorsRecorded, NothingLost, fileVars
<1>2. CASE CompressRemaining
  <2>1. /\ phase = "join" /\ phase' = "upload" /\ watcher' = "returned"
        /\ UNCHANGED <<tcpdump, cmdDoneCh, uploaded, cut, written>>
    BY <1>2 DEF CompressRemaining, procVars, watchVars
  <2>2. /\ pcap' \subseteq gz' \cup passedOver'
        /\ pcap \cup gz \subseteq pcap' \cup gz'
    BY <1>2 DEF CompressRemaining
  <2>3. NothingLost'
    BY <2>1, <2>2 DEF CaptureInv, NothingLost
  <2>4. QED
    BY <2>1, <2>2, <2>3 DEF CaptureInv, TcpdumpEnded, WatcherJoined, ErrorsRecorded
<1>3. CASE UploadRemaining
  <2>1. /\ phase = "upload" /\ phase' = "done"
        /\ UNCHANGED <<pcap, tcpdump, cmdDoneCh, watcher, written>>
    BY <1>3 DEF UploadRemaining, procVars, watchVars
  <2>2. pcap \subseteq gz \cup passedOver
    BY <2>1 DEF CaptureInv, WatcherJoined
  <2>3. ASSUME NEW U \in SUBSET gz,
               uploaded' = uploaded \cup (U \ compressing),
               cut' = cut \cup (U \cap compressing),
               gz' = gz \ U,
               uploadErrors' = (uploadErrors \/ U # gz),
               UNCHANGED passedOver
        PROVE  NothingLost' /\ ErrorsRecorded'
    <3>1. U # gz => uploadErrors'
      BY <2>3, Zenon
    <3>2. ErrorsRecorded'
      BY <2>1, <2>2, <2>3, <3>1 DEF ErrorsRecorded
    <3>3. NothingLost'
      BY <2>1, <2>3 DEF CaptureInv, NothingLost
    <3>4. QED
      BY <3>2, <3>3
  <2>4. ASSUME passedOver' = passedOver \cup gz, UNCHANGED <<uploaded, cut, gz, uploadErrors>>
        PROVE  NothingLost' /\ ErrorsRecorded'
    BY <2>1, <2>2, <2>4 DEF CaptureInv, NothingLost, ErrorsRecorded
  <2>5. NothingLost' /\ ErrorsRecorded'
    BY <1>3, <2>3, <2>4 DEF UploadRemaining
  <2>6. QED
    BY <2>1, <2>5 DEF CaptureInv, TcpdumpEnded, WatcherJoined
<1>4. QED
  BY <1>1, <1>2, <1>3 DEF CaptureAndUpload

(***************************************************************************)
(* The inductive invariant holds in every state of a capture.              *)
(***************************************************************************)
THEOREM CaptureInvariant == CaptureSpec => []CaptureInv
<1>1. CaptureInv /\ UNCHANGED captureVars => CaptureInv'
  BY DEF CaptureInv, TcpdumpEnded, WatcherJoined, ErrorsRecorded, NothingLost, captureVars,
     procVars, mainVars, watchVars, fileVars
<1>2. CaptureInv /\ [CaptureNext]_captureVars => CaptureInv'
  BY <1>1, SurroundingsInv, WatcherInv, MainInv DEF CaptureNext
<1>3. QED
  BY <1>2, CaptureInitInv, PTL DEF CaptureSpec

(***************************************************************************)
(* Whatever fails and whenever the capture stops, the content of each file *)
(* is in the directory or was uploaded (startFileWatcher, uploadFiles,     *)
(* CaptureAndUpload).                                                      *)
(***************************************************************************)
THEOREM NoFileIsLost == CaptureSpec => []NothingLost
<1>1. CaptureInv => NothingLost
  BY DEF CaptureInv
<1>2. QED
  BY <1>1, CaptureInvariant, PTL

(***************************************************************************)
(* A capture that returns no error, which the controller publishes as      *)
(* Success, has uploaded every file but the ones passed over by an error   *)
(* that is only logged and the ones taken while igzip wrote them           *)
(* (CaptureAndUpload).                                                     *)
(***************************************************************************)
THEOREM SuccessIsComplete == CaptureSpec => []SuccessMeansUploaded
<1>1. CaptureInv => SuccessMeansUploaded
  BY DEF CaptureInv, WatcherJoined, ErrorsRecorded, NothingLost, SuccessMeansUploaded
<1>2. QED
  BY <1>1, CaptureInvariant, PTL
=============================================================================
