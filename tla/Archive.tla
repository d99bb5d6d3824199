------------------------------- MODULE Archive -------------------------------
(***************************************************************************)
(* The session archive: a folder with the audio and video of every interval*)
(* and clipsort.log, which lists them (startSessionArchive and             *)
(* stopSessionArchive of ninjamclientAdapter.cpp, and in njclient.cpp the  *)
(* work dir, the log and the places that save and list).  The app turns it *)
(* on and off while the network thread opens files and the audio thread    *)
(* lists the intervals it plays; only the log has a lock.                  *)
(* Each archive has a folder of its own, the n-th one folder n.            *)
(***************************************************************************)
EXTENDS Naturals, Sequences

CONSTANTS MaxArchives,   \* bound: archives in a run
          MaxSaved       \* bound: intervals that are saved or could be

ASSUME ArchiveAssumption == MaxArchives \in Nat /\ MaxSaved \in Nat

Folders == 1 .. MaxArchives
NoFolder == 0

VARIABLES desk,       \* what the app's call does next
          archives,   \* archives so far
          saving,     \* config_savelocalaudio > 0
          savevideo,  \* config_savevideo
          workdir,    \* m_workdir
          logfile,    \* the folder of m_logFile
          last,       \* the last line of the log in each folder
          net,        \* what the network thread has left to do for a new interval
          audio,      \* and the audio thread for what it lists
          saved,      \* intervals so far, and the folders they went to
          filed       \* (their files)

archiveVars == <<desk, archives, saving, savevideo, workdir, logfile, last, net, audio, saved, filed>>
threads  == <<net, audio, saved, filed>>

ArchiveInit ==
  /\ desk = "idle" /\ archives = 0 /\ saving = FALSE /\ savevideo = FALSE
  /\ workdir = NoFolder /\ logfile = NoFolder /\ last = [f \in Folders |-> "none"]
  /\ net = <<>> /\ audio = <<>> /\ saved = 0 /\ filed = {}
-----------------------------------------------------------------------------
(* startSessionArchive: the work dir first, its name and then its folders; *)
(* the log; and saving last.                                               *)
StartArchiveMutant ==               \* saving first
  /\ desk = "idle" /\ ~saving /\ archives < MaxArchives
  /\ archives' = archives + 1 /\ desk' = "dir" /\ saving' = TRUE
  /\ UNCHANGED <<savevideo, workdir, logfile, last, threads>>
StartArchive ==
  /\ desk = "idle" /\ ~saving /\ archives < MaxArchives
  /\ archives' = archives + 1 /\ desk' = "dir"
  /\ UNCHANGED <<saving, savevideo, workdir, logfile, last, threads>>

SetWorkDir ==
  /\ desk = "dir" /\ desk' = "log" /\ workdir' = archives
  /\ UNCHANGED <<archives, saving, savevideo, logfile, last, threads>>

OpenLog ==
  /\ desk = "log" /\ desk' = "video" /\ logfile' = workdir
  /\ UNCHANGED <<archives, saving, savevideo, workdir, last, threads>>

SaveVideo ==
  /\ desk = "video" /\ desk' = "save" /\ savevideo' \in BOOLEAN
  /\ UNCHANGED <<archives, saving, workdir, logfile, last, threads>>

SaveAudio ==
  /\ desk = "save" /\ desk' = "idle" /\ saving' = TRUE
  /\ UNCHANGED <<archives, savevideo, workdir, logfile, last, threads>>

(* stopSessionArchive: saving off first; the log closed; its end added.    *)
StopArchive ==
  /\ desk = "idle" /\ saving /\ desk' = "novideo" /\ saving' = FALSE
  /\ UNCHANGED <<archives, savevideo, workdir, logfile, last, threads>>

StopVideo ==
  /\ desk = "novideo" /\ desk' = "close" /\ savevideo' = FALSE
  /\ UNCHANGED <<archives, saving, workdir, logfile, last, threads>>

CloseLog ==
  /\ desk = "close" /\ desk' = "end" /\ logfile' = NoFolder
  /\ UNCHANGED <<archives, saving, savevideo, workdir, last, threads>>

AddEnd ==
  /\ desk = "end" /\ desk' = "idle" /\ last' = [last EXCEPT ![workdir] = "end"]
  /\ UNCHANGED <<archives, saving, savevideo, workdir, logfile, threads>>

(* ~NJClient, when no thread is left, ends a log that is still open.       *)
EndClient ==
  /\ desk = "idle" /\ desk' = "gone" /\ net = <<>> /\ audio = <<>>
  /\ last' = IF logfile = NoFolder THEN last ELSE [last EXCEPT ![logfile] = "end"]
  /\ logfile' = NoFolder
  /\ UNCHANGED <<archives, saving, savevideo, workdir, threads>>
-----------------------------------------------------------------------------
(* What a thread has left to do is a sequence of steps.  writeLog looks for*)
(* a log before it takes the lock, and again after.                        *)
LineMutant == [last EXCEPT ![workdir] = "line"]     \* goes by the first look
Line == IF logfile = NoFolder THEN last ELSE [last EXCEPT ![logfile] = "line"]
Listing == <<"look", "list">>
Look(todo) == IF logfile = NoFolder THEN Tail(Tail(todo)) ELSE Tail(todo)

(* An interval of ours is listed, then saved; one of another user is saved,*)
(* and listed by the audio thread when it plays; video is saved, and listed*)
(* if it is.  Chat and session messages are listed.                        *)
Message == Listing
Saving(kind) ==
  CASE kind = "local"    -> Listing \o <<"save", "open">>
    [] kind = "download" -> <<"save", "open">>
    [] kind = "video"    -> <<"savevideo", "open">> \o Listing
    [] kind = "message"  -> Message

BeginSaving(kind) ==
  /\ desk # "gone" /\ net = <<>> /\ saved < MaxSaved
  /\ net' = Saving(kind)
  /\ saved' = saved + 1
  /\ UNCHANGED <<desk, archives, saving, savevideo, workdir, logfile, last, audio, filed>>

(* The file's name is built from the work dir (makeFilenameFromGuid).      *)
FilePlace == workdir

NetSaves ==
  /\ net # <<>>
  /\ \/ Head(net) = "look" /\ net' = Look(net) /\ UNCHANGED <<last, filed>>
     \/ Head(net) = "list" /\ net' = Tail(net) /\ last' = Line /\ UNCHANGED filed
     \/ /\ Head(net) = "save" /\ net' = IF saving THEN Tail(net) ELSE <<>>
        /\ UNCHANGED <<last, filed>>
     \/ /\ Head(net) = "savevideo" /\ net' = IF saving /\ savevideo THEN Tail(net) ELSE <<>>
        /\ UNCHANGED <<last, filed>>
     \/ Head(net) = "open" /\ net' = Tail(net) /\ filed' = filed \union {FilePlace} /\ UNCHANGED last
  /\ UNCHANGED <<desk, archives, saving, savevideo, workdir, logfile, audio, saved>>

(* on_new_interval lists the interval and what plays in it                 *)
(* (writeUserChanLog).                                                     *)
AudioLists ==
  /\ desk # "gone" /\ audio = <<>> /\ audio' = Listing
  /\ UNCHANGED <<desk, archives, saving, savevideo, workdir, logfile, last, net, saved, filed>>

AudioWrites ==
  /\ audio # <<>>
  /\ \/ Head(audio) = "look" /\ audio' = Look(audio) /\ UNCHANGED last
     \/ Head(audio) = "list" /\ audio' = Tail(audio) /\ last' = Line
  /\ UNCHANGED <<desk, archives, saving, savevideo, workdir, logfile, net, saved, filed>>
-----------------------------------------------------------------------------
DeskSteps ==
  \/ StartArchive \/ SetWorkDir \/ OpenLog \/ SaveVideo \/ SaveAudio
  \/ StopArchive \/ StopVideo \/ CloseLog \/ AddEnd \/ EndClient
ArchiveNext ==
  \/ DeskSteps
  \/ \E kind \in {"local", "download", "video", "message"} : BeginSaving(kind)
  \/ NetSaves \/ AudioLists \/ AudioWrites

(* An app that does not turn the archive off and on again while the network*)
(* thread, having seen it on, is about to open a file.                     *)
Unhurried == desk = "idle" /\ desk' = "dir" => ~(net # <<>> /\ Head(net) = "open")

ArchiveSpec == ArchiveInit /\ [][ArchiveNext /\ Unhurried]_archiveVars

ArchiveTypeOK ==
  /\ archives \in 0 .. MaxArchives /\ {workdir, logfile} \subseteq Folders \union {NoFolder}
  /\ last \in [Folders -> {"none", "line", "end"}] /\ filed \subseteq Folders
  /\ saving => workdir = archives

(* No thread builds a file's name while the app replaces the work dir ("the*)
(* audio and network threads read the work dir only while                  *)
(* config_savelocalaudio > 0"), and nothing is added to a log after its    *)
(* end.  The first holds for an app that does not turn the archive off and *)
(* on again between a thread's look at the setting and its file.           *)
ArchiveKept ==
  /\ [](desk = "dir" => net = <<>> \/ Head(net) # "open")
  /\ [][\A f \in Folders : last[f] = "end" => last'[f] = "end"]_archiveVars
=============================================================================
