--------------------------- MODULE PacketCapture ----------------------------
(***************************************************************************)
(* One packet capture (pkg/packet_capture/tcpdump.go): CaptureAndUpload    *)
(* waits for the first reason to stop, ends tcpdump, joins the file        *)
(* watcher and uploads what is left, while tcpdump rotates its files,      *)
(* igzip compresses them and the watcher uploads and deletes them.         *)
(***************************************************************************)
EXTENDS Integers, Sequences, FiniteSets, SequencesExt

CONSTANT MaxFiles  \* bound: files one capture writes

ASSUME CaptureAssumption == MaxFiles \in Nat \ {0}

VARIABLES
  tcpdump,       \* "running", or how it ended
  sigterm,       \* SIGTERM was sent
  cmdDoneCh,     \* the exit status not yet received, "empty" if none
  ctxDone,       \* the capture is cancelled
  phase,         \* where CaptureAndUpload is
  tcpdumpErr,    \* the error it returns
  terminateCh, stopCh,       \* closed?
  watcher, pending,          \* the file watcher and the files of its round
  uploadErrors,              \* some upload failed for good
  written,                   \* files 1..written were opened by tcpdump
  pcap, gz,                  \* raw files and compressed files in the directory
  compressing,               \* files igzip is working on
  uploaded,                  \* files whose whole content was uploaded
  quietExit,                 \* history: tcpdump ended unasked, with status 0
  cut,                       \* history: files uploaded before igzip was done
  passedOver                 \* history: files left behind by an error that is only logged

procVars == <<tcpdump, sigterm, cmdDoneCh, ctxDone, quietExit>>
mainVars == <<phase, tcpdumpErr, stopCh>>
watchVars == <<watcher, pending, terminateCh>>
fileVars == <<pcap, gz, compressing, uploaded, cut, passedOver>>
captureVars == <<procVars, mainVars, watchVars, fileVars, written, uploadErrors>>

Files == 1..MaxFiles

ExitStatus == {"ok", "error", "killed"}

-----------------------------------------------------------------------------
(* tcpdump and igzip *)

\* A file is full: the next one is opened, igzip starts on this one and may
\* be done at once or later.
Rotate ==
  /\ tcpdump = "running"
  /\ written < MaxFiles
  /\ written' = written + 1
  /\ pcap' = pcap \cup {written'}
  /\ gz' = gz \cup {written}
  /\ compressing' \in {compressing, compressing \cup {written}}
  /\ UNCHANGED <<uploaded, cut, passedOver, uploadErrors, procVars, mainVars, watchVars>>

IgzipDone(f) ==
  /\ f \in compressing
  /\ compressing' = compressing \ {f}
  /\ UNCHANGED <<pcap, gz, uploaded, cut, passedOver, written, uploadErrors, procVars,
                 mainVars, watchVars>>

\* tcpdump ends and the goroutine in cmd.Wait passes its status on: on
\* SIGTERM, killed with the context, or by itself.
TcpdumpExits(status) ==
  /\ tcpdump = "running"
  /\ status = "killed" => ctxDone
  /\ tcpdump' = status
  /\ cmdDoneCh' = status
  /\ quietExit' = (status = "ok" /\ ~sigterm)
  /\ UNCHANGED <<sigterm, ctxDone, mainVars, watchVars, fileVars, written, uploadErrors>>

\* The controller cancels the capture.
Cancel ==
  /\ ~ctxDone
  /\ phase # "done"
  /\ ctxDone' = TRUE
  /\ UNCHANGED <<tcpdump, sigterm, cmdDoneCh, quietExit, mainVars, watchVars, fileVars,
                 written, uploadErrors>>

-----------------------------------------------------------------------------
(* startFileWatcher *)

\* An upload can succeed only while the capture is not cancelled.
CanUpload == ~ctxDone

\* The files in U are uploaded, and deleted with their raw files; one that
\* is still being written is uploaded as far as it got.
Uploaded(U) ==
  /\ U # {} => CanUpload
  /\ uploaded' = uploaded \cup (U \ compressing)
  /\ cut' = cut \cup (U \cap compressing)
  /\ gz' = gz \ U
  /\ pcap' = pcap \ U
  /\ UNCHANGED <<compressing, passedOver>>

\* A tick: the watcher lists the compressed files.  If it cannot, nothing
\* happens until the next tick.
WatcherTick ==
  /\ watcher = "poll"
  /\ watcher' = "upload"
  /\ pending' = SetToSortSeq(gz, <)
  /\ UNCHANGED <<terminateCh, procVars, mainVars, fileVars, written, uploadErrors>>

\* A file the upload failed for twice is deleted all the same.
WatcherUpload_Delete ==
  /\ watcher = "upload"
  /\ pending # <<>>
  /\ gz' = gz \ {Head(pending)}
  /\ pcap' = pcap \ {Head(pending)}
  /\ \/ /\ CanUpload
        /\ uploaded' = uploaded \cup {Head(pending)}
        /\ pending' = Tail(pending)
        /\ UNCHANGED <<watcher, terminateCh, uploadErrors>>
     \/ /\ uploadErrors' = TRUE
        /\ terminateCh' = TRUE
        /\ watcher' = "returned"
        /\ pending' = <<>>
        /\ UNCHANGED uploaded
  /\ UNCHANGED <<compressing, cut, passedOver, procVars, mainVars, written>>

\* The next file is uploaded, at once or on the retry; if the retry fails
\* too the watcher asks for termination and returns.
WatcherUpload ==
  /\ watcher = "upload"
  /\ pending # <<>>
  /\ \/ /\ Uploaded({Head(pending)})
        /\ pending' = Tail(pending)
        /\ UNCHANGED <<watcher, terminateCh, uploadErrors>>
     \/ /\ uploadErrors' = TRUE
        /\ terminateCh' = TRUE
        /\ watcher' = "returned"
        /\ pending' = <<>>
        /\ UNCHANGED fileVars
  /\ UNCHANGED <<procVars, mainVars, written>>

\* After the files, the disk: a full one ends the capture without an error.
WatcherDisk ==
  /\ watcher = "upload"
  /\ pending = <<>>
  /\ \/ watcher' = "poll" /\ UNCHANGED terminateCh
     \/ watcher' = "returned" /\ terminateCh' = TRUE
  /\ UNCHANGED <<pending, procVars, mainVars, fileVars, written, uploadErrors>>

\* Told to stop: the remaining files are tried once each, or none is if
\* they cannot be listed.
WatcherStop ==
  /\ watcher = "poll"
  /\ stopCh
  /\ watcher' = "returned"
  /\ \/ \E U \in SUBSET gz :
          /\ Uploaded(U)
          /\ uploadErrors' = (uploadErrors \/ U # gz)
     \/ UNCHANGED <<fileVars, uploadErrors>>   \* findGzipFiles failed
  /\ UNCHANGED <<pending, terminateCh, procVars, mainVars, written>>

-----------------------------------------------------------------------------
(* CaptureAndUpload *)

\* SIGTERM is sent and the status awaited.
Terminate ==
  /\ sigterm' = TRUE
  /\ phase' = "wait"
  /\ UNCHANGED tcpdumpErr

\* A select without the duration.
Select_NoTimer ==
  /\ phase = "select"
  /\ \/ /\ terminateCh \/ ctxDone
        /\ Terminate
        /\ UNCHANGED cmdDoneCh
     \/ /\ cmdDoneCh # "empty"
        /\ cmdDoneCh' = "empty"
        /\ tcpdumpErr' = TRUE
        /\ phase' = "stop"
        /\ UNCHANGED sigterm
  /\ UNCHANGED <<tcpdump, ctxDone, quietExit, stopCh, watchVars, fileVars, written, uploadErrors>>

\* The select: duration elapsed, termination requested, tcpdump gone, or
\* context cancelled.
Select ==
  /\ phase = "select"
  /\ \/ Terminate /\ UNCHANGED cmdDoneCh   \* time.After(duration)
     \/ /\ terminateCh \/ ctxDone
        /\ Terminate
        /\ UNCHANGED cmdDoneCh
     \/ /\ cmdDoneCh # "empty"
        /\ cmdDoneCh' = "empty"
        /\ \/ /\ cmdDoneCh # "ok"
              /\ tcpdumpErr' = TRUE
              /\ phase' = "stop"
              /\ UNCHANGED sigterm
           \/ /\ cmdDoneCh = "ok"
              /\ Terminate
  /\ UNCHANGED <<tcpdump, ctxDone, quietExit, stopCh, watchVars, fileVars, written, uploadErrors>>

\* <-cmdDoneCh
WaitForTcpdump ==
  /\ phase = "wait"
  /\ cmdDoneCh # "empty"
  /\ cmdDoneCh' = "empty"
  /\ tcpdumpErr' = (cmdDoneCh # "ok")
  /\ phase' = "stop"
  /\ UNCHANGED <<tcpdump, sigterm, ctxDone, quietExit, stopCh, watchVars, fileVars, written,
                 uploadErrors>>

\* close(stopCh)
StopWatcher ==
  /\ phase = "stop"
  /\ stopCh' = TRUE
  /\ phase' = "join"
  /\ UNCHANGED <<tcpdumpErr, procVars, watchVars, fileVars, written, uploadErrors>>

\* The remaining files are uploaded without compressing the raw ones first.
CompressRemaining_Skip ==
  /\ phase = "join"
  /\ watcher = "returned"
  /\ phase' = "upload"
  /\ UNCHANGED <<tcpdumpErr, stopCh, procVars, watchVars, fileVars, written, uploadErrors>>

\* wg.Wait() returns; every raw file is compressed and removed, or stays
\* and loses its compressed copy.  An error, also of listing the files, is
\* only logged.
CompressRemaining ==
  /\ phase = "join"
  /\ watcher = "returned"
  /\ phase' = "upload"
  /\ \/ \E F \in SUBSET pcap :
          /\ passedOver' = F
          /\ gz' = (gz \ F) \cup (pcap \ F)
          /\ pcap' = F
     \/ passedOver' = pcap \ gz /\ UNCHANGED <<gz, pcap>>   \* findNonGzipFiles failed
  /\ UNCHANGED <<uploaded, cut, compressing, tcpdumpErr, stopCh, procVars, watchVars, written,
                 uploadErrors>>

\* Every compressed file is tried once, unless they cannot be listed, which
\* is only logged.
UploadRemaining ==
  /\ phase = "upload"
  /\ phase' = "done"
  /\ \/ \E U \in SUBSET gz :
          /\ U # {} => CanUpload
          /\ uploaded' = uploaded \cup (U \ compressing)
          /\ cut' = cut \cup (U \cap compressing)
          /\ gz' = gz \ U
          /\ uploadErrors' = (uploadErrors \/ U # gz)
          /\ UNCHANGED passedOver
     \/ /\ passedOver' = passedOver \cup gz   \* findGzipFiles failed
        /\ UNCHANGED <<uploaded, cut, gz, uploadErrors>>
  /\ UNCHANGED <<pcap, compressing, tcpdumpErr, stopCh, procVars, watchVars, written>>

-----------------------------------------------------------------------------
(* Specification *)

CaptureInit ==
  /\ tcpdump = "running" /\ sigterm = FALSE /\ cmdDoneCh = "empty" /\ ctxDone = FALSE
  /\ quietExit = FALSE /\ cut = {} /\ passedOver = {}
  /\ phase = "select" /\ tcpdumpErr = FALSE
  /\ terminateCh = FALSE /\ stopCh = FALSE
  /\ watcher = "poll" /\ pending = <<>> /\ uploadErrors = FALSE
  /\ written = 1 /\ pcap = {1} /\ gz = {} /\ compressing = {} /\ uploaded = {}

Surroundings ==
  \/ Rotate
  \/ \E f \in Files : IgzipDone(f)
  \/ \E s \in ExitStatus : TcpdumpExits(s)
  \/ Cancel

startFileWatcher == WatcherTick \/ WatcherUpload \/ WatcherDisk \/ WatcherStop

CaptureAndUpload ==
  Select \/ WaitForTcpdump \/ StopWatcher \/ CompressRemaining \/ UploadRemaining

CaptureNext == Surroundings \/ startFileWatcher \/ CaptureAndUpload

CaptureSpec == CaptureInit /\ [][CaptureNext]_captureVars

(***************************************************************************)
(* The goroutines run, the duration elapses, a process that got SIGTERM    *)
(* ends, and the watcher's select does not ignore a closed channel for     *)
(* ever.                                                                   *)
(***************************************************************************)
FairCaptureSpec ==
  /\ CaptureSpec
  /\ WF_captureVars(CaptureAndUpload)
  /\ WF_captureVars(WatcherUpload \/ WatcherDisk)
  /\ SF_captureVars(WatcherStop)
  /\ WF_captureVars(sigterm /\ \E s \in ExitStatus : TcpdumpExits(s))

-----------------------------------------------------------------------------
(* Properties *)

CaptureTypeOK ==
  /\ tcpdump \in ExitStatus \cup {"running"} /\ cmdDoneCh \in ExitStatus \cup {"empty"}
  /\ {sigterm, ctxDone, quietExit, tcpdumpErr, terminateCh, stopCh, uploadErrors} \subseteq BOOLEAN
  /\ phase \in {"select", "wait", "stop", "join", "upload", "done"}
  /\ watcher \in {"poll", "upload", "returned"}
  /\ pending \in Seq(Files) /\ ToSet(pending) \subseteq gz
  /\ written \in Files
  /\ pcap \cup gz \cup compressing \cup uploaded \cup cut \cup passedOver \subseteq 1..written

(***************************************************************************)
(* Whatever fails and whenever the capture is stopped, the content of each *)
(* file is in the directory or was uploaded: the watcher and the shutdown  *)
(* sequence delete a file only after its upload.  The files the watcher    *)
(* takes while igzip still writes them are the only ones cut short.        *)
(***************************************************************************)
NothingLost ==
  \A f \in 1..written : f \in pcap \cup gz \cup uploaded \cup cut

(***************************************************************************)
(* A capture that returns without errors, which the controller publishes   *)
(* as Success, has uploaded every file, except the ones an error that is   *)
(* only logged made it pass over (compressing a file, listing the          *)
(* directory) and the ones the watcher took while igzip wrote them: an     *)
(* upload that failed, in whichever of the three places, is never among    *)
(* the exceptions.                                                         *)
(***************************************************************************)
SuccessMeansUploaded ==
  phase = "done" /\ ~uploadErrors /\ ~tcpdumpErr =>
    1..written \subseteq uploaded \cup cut \cup passedOver

(***************************************************************************)
(* What docs/packet-capture.adoc:57 says of Success: "Capture finished and *)
(* all files uploaded".  CaptureAndUpload does not keep it, because of     *)
(* those exceptions; no run checks it.                                     *)
(***************************************************************************)
SuccessMeansAllUploaded ==
  phase = "done" /\ ~uploadErrors /\ ~tcpdumpErr => 1..written \subseteq uploaded

(***************************************************************************)
(* CaptureAndUpload returns: the worker of the controller is not blocked   *)
(* for good, whichever reason to stop comes first.                         *)
(***************************************************************************)
CaptureReturns == <>(phase = "done")

(***************************************************************************)
(* The same unless tcpdump ends unasked with status 0: that status may be  *)
(* taken by the select and is then awaited a second time.                  *)
(***************************************************************************)
CaptureReturnsWhenAsked == <>(phase = "done" \/ quietExit)
=============================================================================
