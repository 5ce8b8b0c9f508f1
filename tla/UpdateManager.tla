--------------------------- MODULE UpdateManager ---------------------------
(***************************************************************************)
(* UpdateManager with its UpdateCheckWorker, and the update dialogs of     *)
(* SettingsView.qml that drive it.                                         *)
(*                                                                         *)
(* The worker checks for an update on a thread of its own; requests to it  *)
(* and its results are queued signals.  Downloads and installers run in    *)
(* the background of the GUI thread and end with signals that the dialogs  *)
(* react to, as long as the settings view exists: leaving it, or a phone   *)
(* that disconnects (Journey.qml then goes home), destroys the view with   *)
(* its dialogs, and nothing else listens.                                  *)
(*                                                                         *)
(* Versions are abstracted to whether the offered one is new, the bundle   *)
(* to whether its file exists; desktop mode, which turns checks off, and   *)
(* the progress shown are left out.                                        *)
(***************************************************************************)
EXTENDS Naturals, Sequences

CONSTANTS
  MaxAttempts,  \* MAX_ATTEMPTS of a check
  MaxDownloads  \* bound: downloads, and installers, at the same time

ASSUME UpdateAssumption == /\ MaxAttempts \in Nat \ {0}
                           /\ MaxDownloads \in Nat \ {0}

VARIABLES
  deferred,   \* the singleShot(0) check of the constructor is to come
  checking,   \* m_checking
  updateUrl,  \* m_updateUrl is not empty
  requests,   \* startCheckRequested signals queued to the worker
  worker,     \* what the worker's thread is doing
  attempt,    \* attempts of the check that runs, or ran last
  results,    \* checkResult and checkFailed signals queued to the GUI thread
  downloads,  \* replies that write to the bundle
  bundle,     \* the bundle's file exists
  installers, \* rauc processes
  settings,   \* the settings view exists
  dialogs,    \* the update dialogs that are open
  quitting    \* the destructor has asked the worker's thread to stop

checkVars == <<deferred, checking, requests, worker, attempt, results>>
installVars == <<downloads, bundle, installers>>
viewVars == <<settings, dialogs>>
vars == <<checkVars, updateUrl, installVars, viewVars, quitting>>

TypeOK ==
  /\ deferred \in BOOLEAN /\ checking \in BOOLEAN /\ updateUrl \in BOOLEAN
  /\ requests \in Nat
  /\ worker \in {"idle", "sleeping", "ready", "requesting", "finished"}
  /\ attempt \in 0 .. MaxAttempts
  /\ results \in Seq({"found", "failed"})
  /\ downloads \in 0 .. MaxDownloads /\ installers \in 0 .. MaxDownloads
  /\ bundle \in BOOLEAN
  /\ settings \in BOOLEAN
  /\ dialogs \subseteq {"found", "downloading", "installing", "error"}
  /\ quitting \in BOOLEAN

Init ==
  /\ deferred = TRUE /\ checking = FALSE /\ updateUrl = FALSE
  /\ requests = 0 /\ worker = "idle" /\ attempt = 0 /\ results = <<>>
  /\ downloads = 0 /\ installers = 0
  /\ bundle \in BOOLEAN
  /\ settings = FALSE /\ dialogs = {}
  /\ quitting = FALSE

-----------------------------------------------------------------------------
(* The worker's thread. *)

Report(result) ==
  /\ results' = Append(results, result)
  /\ worker' = "idle"
  /\ UNCHANGED attempt

(* Fault: one attempt too many, and no delay is scheduled for it. *)
AttemptFailsLate ==
  IF attempt > MaxAttempts
  THEN Report("failed")
  ELSE worker' = "sleeping" /\ attempt' = attempt + 1 /\ UNCHANGED results

AttemptFails ==
  IF attempt = MaxAttempts
  THEN Report("failed")
  ELSE worker' = "sleeping" /\ attempt' = attempt + 1 /\ UNCHANGED results

(* run() starts.  A request that came while a loop.exec() of run() waits   *)
(* for the network would be taken there, inside the check that is running. *)
TakeRequest ==
  /\ worker \in {"idle", "requesting"} /\ requests > 0
  /\ requests' = requests - 1
  /\ worker' = "ready" /\ attempt' = 1
  /\ UNCHANGED results

(* interruptibleSleep() is over, or was interrupted. *)
Wake ==
  /\ worker = "sleeping"
  /\ IF quitting THEN Report("failed")
     ELSE worker' = "ready" /\ UNCHANGED <<attempt, results>>
  /\ UNCHANGED requests

(* The manifest is asked for, unless there is no usable network. *)
Request ==
  /\ worker = "ready"
  /\ \/ AttemptFails
     \/ worker' = "requesting" /\ UNCHANGED <<attempt, results>>
  /\ UNCHANGED requests

(* The reply: an error, something that is not a manifest, or a manifest.   *)
Reply ==
  /\ worker = "requesting"
  /\ IF quitting THEN Report("failed")
     ELSE AttemptFails \/ Report("found")
  /\ UNCHANGED requests

(* Fault: run() does not report what it caught. *)
ThrowsSilently ==
  /\ worker \in {"ready", "requesting"}
  /\ worker' = "idle"
  /\ UNCHANGED <<requests, attempt, results>>

(* Something throws, and run() catches it. *)
Throws ==
  /\ worker \in {"ready", "requesting"}
  /\ Report("failed")
  /\ UNCHANGED requests

(* The thread's event loop exits. *)
Finish ==
  /\ worker = "idle" /\ quitting
  /\ worker' = "finished"
  /\ UNCHANGED <<requests, attempt, results>>

WorkerThread ==
  /\ TakeRequest \/ Wake \/ Request \/ Reply \/ Throws \/ Finish
  /\ UNCHANGED <<deferred, checking, updateUrl>>
  /\ UNCHANGED <<installVars, viewVars, quitting>>

-----------------------------------------------------------------------------
(* Checks, on the GUI thread. *)

(* Fault: a check is started beside the one that is running. *)
CheckForUpdateAlways ==
  /\ ~quitting /\ requests < 2
  /\ \/ deferred /\ deferred' = FALSE
     \/ settings /\ dialogs = {} /\ UNCHANGED deferred
  /\ checking' = TRUE /\ requests' = requests + 1
  /\ UNCHANGED <<worker, attempt, results, updateUrl>>
  /\ UNCHANGED <<installVars, viewVars, quitting>>

(* The constructor's timer, or a click, which needs the dialogs closed. *)
CheckForUpdate ==
  /\ ~quitting
  /\ \/ deferred /\ deferred' = FALSE
     \/ settings /\ dialogs = {} /\ UNCHANGED deferred
  /\ IF checking THEN UNCHANGED <<checking, requests>>
     ELSE checking' = TRUE /\ requests' = requests + 1
  /\ UNCHANGED <<worker, attempt, results, updateUrl>>
  /\ UNCHANGED <<installVars, viewVars, quitting>>

TakeResult(result) ==
  /\ ~quitting
  /\ results # <<>> /\ Head(results) = result
  /\ results' = Tail(results)
  /\ checking' = FALSE
  /\ UNCHANGED <<deferred, requests, worker, attempt, installVars>>
  /\ UNCHANGED <<settings, quitting>>

(* What the view does when a signal of the manager reaches it. *)
Show(close, open) ==
  dialogs' = IF settings THEN (dialogs \ close) \cup open ELSE dialogs

(* The version offered is the current one, or an update is available. *)
OnCheckResult ==
  /\ TakeResult("found")
  /\ updateUrl' = TRUE
  /\ \E open \in {{}, {"found"}} : Show({}, open)

OnCheckFailed == TakeResult("failed") /\ UNCHANGED <<updateUrl, dialogs>>

-----------------------------------------------------------------------------
(* Downloads and installers, on the GUI thread. *)

OnErrorOccurred == Show({"downloading", "installing"}, {"error"})

(* The update found is accepted: the dialog is opened before the download  *)
(* is, which may start (over a file another download may be writing), fail *)
(* at once or be refused without a word.  Which of several dialogs is on   *)
(* top, and must be closed first, is not modelled.                         *)
DownloadUpdate ==
  /\ ~quitting /\ settings /\ "found" \in dialogs
  /\ LET shown == (dialogs \ {"found"}) \cup {"downloading"}
     IN  \/ /\ updateUrl /\ downloads < MaxDownloads
            /\ downloads' = downloads + 1 /\ bundle' = TRUE
            /\ dialogs' = shown
         \/ /\ updateUrl
            /\ dialogs' = {"error"}
            /\ UNCHANGED <<downloads, bundle>>
         \/ /\ ~updateUrl
            /\ dialogs' = shown
            /\ UNCHANGED <<downloads, bundle>>
  /\ UNCHANGED <<checkVars, updateUrl, installers, settings, quitting>>

(* The transfer fails: the bundle is removed, whoever wrote it. *)
DownloadFails ==
  /\ ~quitting /\ downloads > 0
  /\ downloads' = downloads - 1 /\ bundle' = FALSE
  /\ OnErrorOccurred
  /\ UNCHANGED <<checkVars, updateUrl, installers, settings, quitting>>

(* downloadFinished: the view, if it is there, calls applyUpdate(), which  *)
(* starts an installer or does not find the bundle.                        *)
DownloadFinishes ==
  /\ ~quitting /\ downloads > 0
  /\ downloads' = downloads - 1
  /\ IF settings /\ bundle
     THEN /\ installers < MaxDownloads /\ installers' = installers + 1
          /\ Show({"downloading"}, {"installing"})
     ELSE OnErrorOccurred /\ UNCHANGED installers
  /\ UNCHANGED <<checkVars, updateUrl, bundle, settings, quitting>>

(* Fault: a failed installer shows its error over the dialog. *)
InstallerEndsBelow ==
  /\ ~quitting /\ installers > 0
  /\ installers' = installers - 1
  /\ Show({}, {"error"})
  /\ UNCHANGED <<checkVars, updateUrl, downloads, bundle, settings, quitting>>

(* rauc ends, or could not be started: installFinished.  A reboot follows  *)
(* on success.                                                             *)
InstallerEnds ==
  /\ ~quitting /\ installers > 0
  /\ installers' = installers - 1
  /\ \E open \in {{}, {"error"}} : Show({"installing"}, open)
  /\ UNCHANGED <<checkVars, updateUrl, downloads, bundle, settings, quitting>>

-----------------------------------------------------------------------------
(* The user, phones, and the end of the program. *)

OpenSettings ==
  /\ ~quitting /\ ~settings
  /\ settings' = TRUE
  /\ UNCHANGED <<checkVars, updateUrl, installVars, dialogs, quitting>>

(* Back, or a phone that disconnects: home, whatever dialog is open. *)
LeaveSettings ==
  /\ ~quitting /\ settings
  /\ settings' = FALSE /\ dialogs' = {}
  /\ UNCHANGED <<checkVars, updateUrl, installVars, quitting>>

Dismiss ==
  /\ ~quitting
  /\ \E d \in dialogs \cap {"found", "error"} : dialogs' = dialogs \ {d}
  /\ UNCHANGED <<checkVars, updateUrl, installVars, settings, quitting>>

Quit ==
  /\ ~quitting
  /\ quitting' = TRUE
  /\ UNCHANGED <<checkVars, updateUrl, installVars, viewVars>>

Signals == OnCheckResult \/ OnCheckFailed

Transfers == DownloadFails \/ DownloadFinishes

Next ==
  \/ WorkerThread \/ Signals \/ Transfers \/ InstallerEnds
  \/ CheckForUpdate \/ DownloadUpdate
  \/ OpenSettings \/ LeaveSettings \/ Dismiss \/ Quit

Spec == Init /\ [][Next]_vars

(* Both threads run, transfers time out (setTransferTimeout), installers   *)
(* end; users and phones owe nothing.                                      *)
Fairness ==
  /\ WF_vars(WorkerThread) /\ WF_vars(Signals)
  /\ WF_vars(Transfers) /\ WF_vars(InstallerEnds)

FairSpec == Spec /\ Fairness

-----------------------------------------------------------------------------
(* Properties. *)

Running == IF worker \in {"idle", "finished"} THEN 0 ELSE 1

(* m_checking is true exactly while one check is somewhere: queued to the  *)
(* worker, running there, or reported and not yet handled.  Two of them    *)
(* would nest run() inside the event loop of run().                        *)
OneCheckAtATime ==
  requests + Running + Len(results) = IF checking THEN 1 ELSE 0

(* Every check ends, whatever the network answers or throws, so that the   *)
(* next one is not refused for good; and so does the worker's thread when  *)
(* the destructor asks it to, in the middle of any check.                  *)
CheckEnds ==
  /\ checking ~> (~checking \/ quitting)
  /\ quitting ~> (worker = "finished")

(* And those dialogs do go away. *)
DialogsClose ==
  \A d \in {"downloading", "installing"} :
    d \in dialogs ~> (d \notin dialogs \/ quitting)

(* The dialog shown while the bundle is downloading, "not dismissable"     *)
(* according to SettingsView.qml, is there as long as a download runs.     *)
DownloadingShown == downloads > 0 => "downloading" \in dialogs
=============================================================================
