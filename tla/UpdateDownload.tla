--------------------------- MODULE UpdateDownload ---------------------------
(***************************************************************************)
(* The download of a new release (frontend/electron/main.ts and the update *)
(* dialog of frontend/src/App.tsx).  The check of a start finds a release, *)
(* the dialog offers it, and the main process fetches the checksum, looks  *)
(* for a file of the downloads folder that has it, or downloads one and    *)
(* compares.  Other programs put files into that folder, change them and   *)
(* take them away meanwhile, reading and removing a file may fail, and the *)
(* application may end at any step.                                        *)
(***************************************************************************)
EXTENDS Naturals, FiniteSets

CONSTANTS
  Tags,        \* tags of releases
  Triple,      \* tag -> its first three numbers, as one; what follows them is dropped
  Current,     \* the version that runs
  NoTag,
  MaxSuffix,   \* names a download may take: the asset's own, and "(1)" to "(99)"
  MaxRuns      \* bound: starts of the application

VARIABLES
  release,     \* GitHub: the latest release and whether it has a zip and its checksum
  files,       \* the downloads folder: name -> what the file holds
  checked,     \* the check of this start is over
  cached,      \* cachedUpdateCheck
  job,         \* downloadLatestUpdateZip
  info,        \* updateInfo
  open,        \* updateDialogOpen
  downloading, \* updateDownloading
  path,        \* updateDownloadedPath
  error,       \* updateError
  dismissed,   \* the version whose dialog was dismissed (kept over restarts)
  runs,        \* starts so far
  abandoned,   \* history: files of downloads that nobody removed: the application ended, or
               \* the file could not be read or removed
  exchanged    \* history: another program changed the file that is shown

dialog == <<info, open, downloading, path, error>>
vars == <<release, files, checked, cached, job, dialog, dismissed, runs, abandoned,
          exchanged>>

\* A name of the folder: the asset's name holds the version.
Names == Tags \X (0..MaxSuffix)
NoName == <<NoTag, 0>>

\* What a file holds: nothing (there is none), the zip of a release, or something else; and
\* whether the application wrote it.
Absent == [holds |-> "nothing", ours |-> FALSE]
Foreign == [holds |-> "other", ours |-> FALSE]
Partial == [holds |-> "other", ours |-> TRUE]
Zip(tag, ours) == [holds |-> tag, ours |-> ours]

NoRelease == [tag |-> NoTag, zip |-> FALSE, sha |-> FALSE]
Idle == [at |-> "idle", tag |-> NoTag, name |-> NoName]

Init ==
  /\ release \in [tag : Tags, zip : BOOLEAN, sha : BOOLEAN]
  /\ files \in {[n \in Names |-> Absent], [n \in Names |-> IF n[2] = 0 THEN Foreign ELSE Absent]}
  /\ checked = FALSE /\ cached = NoRelease /\ job = Idle
  /\ info = NoRelease /\ open = FALSE /\ downloading = FALSE /\ path = NoName /\ error = FALSE
  /\ dismissed = NoTag /\ runs = 1 /\ abandoned = {} /\ exchanged = FALSE

\* compareVersions(latestVersion, currentVersion) > 0
UpdateAvailable(tag) == Triple[tag] > Triple[Current]

\* checkForUpdates, findWindowsZipAsset: a checksum counts only beside its zip.
Found(r) == [r EXCEPT !.sha = r.zip /\ r.sha]

\* The check of a start, 2.2 s after the window has loaded, and what the window does with it.
CheckSucceeds ==
  /\ ~checked /\ checked' = TRUE
  /\ cached' = Found(release)
  /\ IF UpdateAvailable(release.tag) /\ dismissed # release.tag
     THEN info' = Found(release) /\ open' = TRUE /\ path' = NoName /\ error' = FALSE
     ELSE UNCHANGED <<info, open, path, error>>
  /\ UNCHANGED <<release, files, job, downloading, dismissed, runs, abandoned, exchanged>>

CheckFails ==
  /\ ~checked /\ checked' = TRUE
  /\ UNCHANGED <<release, files, cached, job, dialog, dismissed, runs, abandoned, exchanged>>

\* dismissUpdateDialog; a dialog that downloads stays.
Dismiss ==
  /\ open /\ ~downloading
  /\ dismissed' = info.tag
  /\ open' = FALSE /\ path' = NoName /\ error' = FALSE
  /\ UNCHANGED <<release, files, checked, cached, job, info, downloading, runs, abandoned,
                 exchanged>>

\* The rejection of app:install-update.
Reject ==
  /\ job' = Idle
  /\ downloading' = FALSE /\ error' = TRUE /\ path' = NoName
  /\ UNCHANGED <<info, open, exchanged>>

\* Its answer: the file is shown in its folder and in the dialog.
Answer(name) ==
  /\ job' = Idle
  /\ downloading' = FALSE /\ error' = FALSE /\ path' = name /\ exchanged' = FALSE
  /\ UNCHANGED <<info, open>>

\* handleInstallUpdate, and downloadLatestUpdateZip up to its first await.  The check that
\* opened the dialog has filled the cache.
Install ==
  /\ open /\ info.zip /\ ~downloading
  /\ IF job # Idle \/ ~UpdateAvailable(cached.tag) \/ ~cached.zip \/ ~cached.sha
     THEN Reject
     ELSE /\ job' = [at |-> "checksum", tag |-> cached.tag, name |-> NoName]
          /\ downloading' = TRUE /\ error' = FALSE /\ path' = NoName
          /\ UNCHANGED <<info, open, exchanged>>
  /\ UNCHANGED <<release, files, checked, cached, dismissed, runs, abandoned>>

\* What the steps of a download leave alone.
InFolder == UNCHANGED <<release, checked, cached, dismissed, runs>>
Goes == UNCHANGED <<dialog, abandoned, exchanged>> /\ InFolder

\* requestUpdateText and parseExpectedSha256.
ChecksumArrives ==
  /\ job.at = "checksum"
  /\ job' = [job EXCEPT !.at = "look"]
  /\ UNCHANGED files /\ Goes

\* A redirect too many, a status, a timeout, more than 64 KiB, or no checksum in the text.
ChecksumFails ==
  job.at = "checksum" /\ Reject /\ UNCHANGED <<files, abandoned>> /\ InFolder

NamesOf(tag) == {n \in Names : n[1] = tag}
FirstName(S) == CHOOSE n \in S : \A m \in S : n[2] <= m[2]

\* findExistingVerifiedDownload: the first that has the checksum, of those that can be read.
Verified(tag) == {n \in NamesOf(tag) : files[n].holds = tag}

LookFinds ==
  /\ job.at = "look"
  /\ \E n \in Verified(job.tag) : Answer(n)
  /\ UNCHANGED <<files, abandoned>> /\ InFolder

\* resolveDownloadDestination: the first name that is free.
Free(tag) == {n \in NamesOf(tag) : files[n] = Absent}

Resolve ==
  /\ job.at = "look" /\ Free(job.tag) # {}
  /\ job' = [job EXCEPT !.at = "request", !.name = FirstName(Free(job.tag))]
  /\ UNCHANGED files /\ Goes

\* Every name is taken, or the folder cannot be made.
ResolveFails == job.at = "look" /\ Reject /\ UNCHANGED <<files, abandoned>> /\ InFolder

\* fs.rm, whose failure nobody hears of.
Removed(n) ==
  \/ files' = [files EXCEPT ![n] = Absent] /\ UNCHANGED abandoned
  \/ UNCHANGED files /\ abandoned' = abandoned \cup {n}

\* The response of downloadToFile: the file is created.
ResponseArrives ==
  /\ job.at = "request" /\ files[job.name] = Absent
  /\ files' = [files EXCEPT ![job.name] = Partial]
  /\ job' = [job EXCEPT !.at = "body"]
  /\ Goes

\* A file that another program has put there since makes the creation fail; the handler of
\* the failure removes it.
ResponseTooLate ==
  /\ job.at = "request" /\ files[job.name] # Absent
  /\ Removed(job.name) /\ Reject /\ InFolder

\* A redirect too many or to another host, a status, a timeout, or a file that cannot be made.
RequestFails == job.at = "request" /\ Reject /\ UNCHANGED <<files, abandoned>> /\ InFolder

\* The end of the body: the release's zip or, after a transfer that went wrong unnoticed,
\* something else.
BodyEnds ==
  /\ job.at = "body"
  /\ \E content \in {Zip(job.tag, TRUE), Partial} : files' = [files EXCEPT ![job.name] = content]
  /\ job' = [job EXCEPT !.at = "verify"]
  /\ Goes

\* An error of the stream or of the file.
BodyFails == job.at = "body" /\ Removed(job.name) /\ Reject /\ InFolder

\* Mutant: any file that is there will do.
AnyFile == files[job.name] # Absent

Matches == files[job.name].holds = job.tag

VerifySucceeds ==
  job.at = "verify" /\ Matches /\ Answer(job.name) /\ UNCHANGED <<files, abandoned>> /\ InFolder

VerifyFails == job.at = "verify" /\ ~Matches /\ Removed(job.name) /\ Reject /\ InFolder

\* hashFileSha256 is rejected: the file cannot be read, and nobody removes it.
HashFails ==
  /\ job.at = "verify"
  /\ abandoned' = abandoned \cup {job.name}
  /\ Reject /\ UNCHANGED files /\ InFolder

\* A browser puts the release's zip there, a file of the user has its name, or a file is
\* exchanged or taken away; the one that is being written is left alone.
OtherProgram ==
  /\ \E n \in Names :
       /\ UpdateAvailable(n[1]) /\ ~(job.at = "body" /\ n = job.name)
       /\ \E content \in {Zip(n[1], FALSE), Foreign, Absent} \ {files[n]} :
            files' = [files EXCEPT ![n] = content]
       /\ abandoned' = abandoned \ {n}
       /\ exchanged' = (exchanged \/ n = path)
  /\ UNCHANGED <<release, checked, cached, job, dialog, dismissed, runs>>

NewRelease ==
  /\ release' \in {r \in [tag : Tags, zip : {TRUE}, sha : {TRUE}] : Triple[r.tag] > Triple[release.tag]}
  /\ UNCHANGED <<files, checked, cached, job, dialog, dismissed, runs, abandoned, exchanged>>

\* The application quits or crashes and is started again: nothing of a download is cleaned up.
Restart ==
  /\ runs < MaxRuns /\ runs' = runs + 1
  /\ checked' = FALSE /\ cached' = NoRelease /\ job' = Idle
  /\ info' = NoRelease /\ open' = FALSE /\ downloading' = FALSE /\ path' = NoName /\ error' = FALSE
  /\ abandoned' = IF job.at \in {"body", "verify"} THEN abandoned \cup {job.name} ELSE abandoned
  /\ exchanged' = FALSE
  /\ UNCHANGED <<release, files, dismissed>>

Download ==
  \/ ChecksumArrives \/ ChecksumFails \/ LookFinds \/ Resolve \/ ResolveFails
  \/ ResponseArrives \/ ResponseTooLate \/ RequestFails
  \/ BodyEnds \/ BodyFails \/ VerifySucceeds \/ VerifyFails \/ HashFails

Next ==
  \/ CheckSucceeds \/ CheckFails \/ Dismiss \/ Install \/ Download
  \/ OtherProgram \/ NewRelease \/ Restart

Spec == Init /\ [][Next]_vars

-----------------------------------------------------------------------------

TypeOK ==
  /\ release \in [tag : Tags, zip : BOOLEAN, sha : BOOLEAN]
  /\ files \in [Names -> [holds : {"nothing", "other"} \cup Tags, ours : BOOLEAN]]
  /\ {cached, info} \subseteq [tag : Tags \cup {NoTag}, zip : BOOLEAN, sha : BOOLEAN]
  /\ {path, job.name} \subseteq Names \cup {NoName}
  /\ job.at \in {"idle", "checksum", "look", "request", "body", "verify"}
  /\ {checked, open, downloading, error, exchanged} \subseteq BOOLEAN
  /\ dismissed \in Tags \cup {NoTag} /\ abandoned \subseteq Names

\* The file that the dialog shows as downloaded holds the zip of the release that the dialog
\* offers, whether it was downloaded or found, whatever the folder held before, what other
\* programs put there, exchanged or took away until it was checked, and which releases appeared
\* since; only a file that is changed after its check may be shown as what it is not any more.
ShownIsVerified == path # NoName /\ ~exchanged => files[path].holds = info.tag

\* Whatever goes wrong with a download, the application keeps no unverified file of it in the
\* downloads folder, but for those that nobody could remove or that nobody tries to remove:
\* the removal failed (silently), the file could not be read for its checksum, or the
\* application ended.
NoLeftovers ==
  \A n \in Names :
    files[n].ours /\ files[n].holds = "other" => n = job.name \/ n \in abandoned

=============================================================================
