------------------------------- MODULE Updater --------------------------------
(***************************************************************************)
(* The updater of the DLL itself (updater/updater.cpp and the start in     *)
(* platform.cpp): the check that the game makes when it starts, with the   *)
(* answer kept in a file between starts, and the exchange of the DLL, two  *)
(* renames by way of <dll>.new and <dll>.old.                              *)
(*                                                                         *)
(* Network and exchange run in processes of their own, rundll32 with this  *)
(* same DLL.  They outlive a start that no longer waits for them, and any  *)
(* of the processes may end at any point.  What holds it together is the   *)
(* rule of Windows that the file of a loaded DLL can be renamed but not    *)
(* removed.                                                                *)
(***************************************************************************)
EXTENDS Naturals, FiniteSets

CONSTANTS Kids, NoKid,    \* rundll32 processes
          Game,           \* the game's process
          Versions,       \* DLLs, with their SBLT_VERSION
          Fork,           \* the DLL the player has installed by hand
          Signed,         \* DLLs with a signature for PRODUCTION_PUBKEY
          None, Partial,  \* no file; a file that was not written to its end
          ErrorPage       \* an answer of the server that is not a version

ASSUME UpdaterAssumption == /\ NoKid \notin Kids
                            /\ Game \notin Kids
                            /\ Fork \in Versions
                            /\ Signed \subseteq Versions
                            /\ None \notin Versions
                            /\ Partial \notin Versions
                            /\ None \notin {Partial, "dll", "old"}
                            /\ ErrorPage \notin Versions \union {None}

VARIABLES
  dll, new, old,     \* the three files
  cache, recent,     \* server-version and last-check of LAST_UPDATE_PATH
  server,            \* what the server has to offer
  image,             \* the file that a process has loaded as the DLL
  pc,                \* where the game is: "off", in its start, or "running"
  SBLT_VERSION,      \* the version of the DLL the game has loaded
  timeoutMS,         \* "INFINITE" or "1500"
  child,             \* the process the game waits for
  kid,               \* where the other processes are
  got,               \* what they got from the server
  answered,          \* history of a start: the answer its check has saved
  meddled,           \* history of a start: another check has saved its own
  spoiled            \* history: <dll>.new was lost without a word

files    == <<dll, new, old>>
cacheVars == <<cache, recent>>
gameVars == <<pc, SBLT_VERSION, timeoutMS, child>>
kidVars  == <<kid, got>>
history  == <<answered, meddled, spoiled>>
updaterVars ==
  <<files, cacheVars, server, image, gameVars, kidVars, history>>

Procs == Kids \union {Game}
Whole(f) == f \in Versions

UpdaterInit ==
  /\ dll = Fork /\ new = None /\ old = None
  /\ cache = None /\ recent = FALSE
  /\ server \in Versions
  /\ image = [p \in Procs |-> None]
  /\ pc = "off"
  /\ SBLT_VERSION = None
  /\ timeoutMS = "1500"
  /\ child = NoKid
  /\ kid = [k \in Kids |-> "none"]
  /\ got = [k \in Kids |-> None]
  /\ answered = None
  /\ meddled = FALSE
  /\ spoiled = FALSE

-----------------------------------------------------------------------------
(* What lies outside. *)

\* Somebody uploads another version.
Publish(v) ==
  /\ server' = v
  /\ UNCHANGED <<files, cacheVars, image, gameVars, kidVars, history>>

\* An hour passes, or the clock is set back.
HourPasses ==
  /\ recent' = FALSE
  /\ UNCHANGED <<files, cache, server, image, gameVars, kidVars, history>>

\* Windows does not remove the file of a DLL that a process has loaded.
InUse(f) == \E p \in Procs : image[p] = f

\* A process ends, and forgets the image and its work.
GameEnds == /\ pc' = "off"
            /\ image' = [image EXCEPT ![Game] = None]
            /\ child' = NoKid

KidEnds(k) == /\ kid' = [kid EXCEPT ![k] = "none"]
              /\ got' = [got EXCEPT ![k] = None]
              /\ image' = [image EXCEPT ![k] = None]
              /\ child' = IF child = k THEN NoKid ELSE child

\* The player leaves the game, or ends it, or it crashes.
Quit ==
  /\ pc # "off"
  /\ GameEnds
  /\ UNCHANGED <<files, cacheVars, server, SBLT_VERSION, timeoutMS, kidVars, history>>

\* A rundll32 process comes to its end, is ended, or crashes.
Ends(k) ==
  /\ kid[k] # "none"
  /\ KidEnds(k)
  /\ UNCHANGED <<files, cacheVars, server, pc, SBLT_VERSION, timeoutMS, history>>

-----------------------------------------------------------------------------
(* The start of the game. *)

\* With a DLL that cannot be loaded there is no SuperBLT to take part.
Start ==
  /\ pc = "off" /\ Whole(dll)
  /\ pc' = "init"
  /\ image' = [image EXCEPT ![Game] = "dll"]
  /\ SBLT_VERSION' = dll
  /\ answered' = None
  /\ meddled' = FALSE
  /\ UNCHANGED <<files, cacheVars, server, timeoutMS, child, kidVars, spoiled>>

\* InitPlatform.  std::filesystem::remove throws if it cannot, and nobody
\* catches that.
RemoveLeftOver ==
  /\ pc = "init"
  /\ IF old # None /\ InUse("old")
     THEN GameEnds /\ UNCHANGED files
     ELSE pc' = "read" /\ old' = None /\ UNCHANGED <<dll, new, image, child>>
  /\ UNCHANGED <<cacheVars, server, SBLT_VERSION, timeoutMS, kidVars, history>>

\* Mutant of Pending: a later version is not told from an earlier one.
PendingUnknown == cache # None

\* ReadCachedUpdateState = UPDATE_PENDING, and UP_TO_DATE.
Pending == cache # None /\ cache # SBLT_VERSION
UpToDate == cache = SBLT_VERSION /\ recent

\* RunUpdateProcess up to the wait; rundll32 cannot load a DLL that is not there.
Run(k, entry) ==
  IF Whole(dll)
  THEN /\ kid[k] = "none"
       /\ kid' = [kid EXCEPT ![k] = entry]
       /\ image' = [image EXCEPT ![k] = "dll"]
       /\ child' = k
  ELSE UNCHANGED <<kid, image, child>>

\* CheckForUpdates: disabled, not due, or not to be run.
SkipCheck ==
  /\ pc = "read"
  /\ pc' = "running"
  /\ UNCHANGED <<files, cacheVars, server, image, SBLT_VERSION, timeoutMS, child, kidVars, history>>

Check(k) ==
  /\ pc = "read"
  /\ ~UpToDate
  /\ pc' = "checking"
  /\ timeoutMS' = IF Pending THEN "INFINITE" ELSE "1500"
  /\ Run(k, "check")
  /\ UNCHANGED <<files, cacheVars, server, SBLT_VERSION, got, answered, meddled, spoiled>>

\* The game starts; the process stays.
CheckTimesOut ==
  /\ pc = "checking" /\ timeoutMS = "1500" /\ child # NoKid
  /\ pc' = "running"
  /\ child' = NoKid
  /\ UNCHANGED <<files, cacheVars, server, image, SBLT_VERSION, timeoutMS, kidVars, history>>

\* Whatever became of the check, the file is read again.
CheckEnds ==
  /\ pc = "checking" /\ child = NoKid
  /\ pc' = IF Pending THEN "prompt" ELSE "running"
  /\ UNCHANGED <<files, cacheVars, server, image, SBLT_VERSION, timeoutMS, child, kidVars, history>>

\* No, or the process cannot be made.
Decline ==
  /\ pc = "prompt"
  /\ pc' = "running"
  /\ UNCHANGED <<files, cacheVars, server, image, SBLT_VERSION, timeoutMS, child, kidVars, history>>

Accept(k) ==
  /\ pc = "prompt"
  /\ pc' = "installing"
  /\ Run(k, "install")
  /\ UNCHANGED <<files, cacheVars, server, SBLT_VERSION, timeoutMS, got, history>>

\* "Restart the game to complete the update process.", whatever became of it.
InstallEnds ==
  /\ pc = "installing" /\ child = NoKid
  /\ GameEnds
  /\ UNCHANGED <<files, cacheVars, server, SBLT_VERSION, timeoutMS, kidVars, history>>

-----------------------------------------------------------------------------
(* RUNDLL_DoUpdateCheck. *)

Go(k, from, to) == kid[k] = from /\ kid' = [kid EXCEPT ![k] = to]

\* The page of an error is as good as a version.  With no answer the process ends.
Answer(k) ==
  /\ Go(k, "check", "save")
  /\ \E v \in {server, ErrorPage} : got' = [got EXCEPT ![k] = v]
  /\ UNCHANGED <<files, cacheVars, server, image, gameVars, history>>

\* The file is emptied when it is opened and written when it is closed.
OpenCache(k) ==
  /\ Go(k, "save", "saving")
  /\ cache' = None
  /\ recent' = FALSE
  /\ meddled' = (meddled \/ k # child)
  /\ UNCHANGED <<files, server, image, gameVars, got, answered, spoiled>>

SaveCache(k) ==
  /\ Go(k, "saving", "over")
  /\ cache' = got[k]
  /\ recent' = TRUE
  /\ answered' = IF k = child THEN got[k] ELSE answered
  /\ meddled' = (meddled \/ k # child)
  /\ UNCHANGED <<files, server, image, gameVars, got, spoiled>>

-----------------------------------------------------------------------------
(* RUNDLL_InstallUpdate.  A step that fails leaves the process waiting for *)
(* the player to press enter, as does the last one, and if it was in the   *)
(* middle of the new file it still has that open.                          *)

Fails(k) == /\ kid[k] \in {"install", "clear", "open", "write", "aside", "into"}
            /\ kid' = [kid EXCEPT ![k] = IF @ = "write" THEN "holding" ELSE "over"]

\* Mutant of Valid: the signature is not looked at.
ValidAlways(v) == TRUE

\* VerifySignature.
Valid(v) == v \in Signed

Download(k) ==
  /\ Go(k, "install", "clear")
  /\ Valid(server)
  /\ got' = [got EXCEPT ![k] = server]
  /\ UNCHANGED <<files, cacheVars, server, image, gameVars, history>>

ClearOld(k) ==
  /\ Go(k, "clear", "open")
  /\ old = None \/ ~InUse("old")
  /\ old' = None
  /\ UNCHANGED <<dll, new, cacheVars, server, image, gameVars, got, history>>

\* Those who have opened the new file and may still rename it.
AtNew == {k \in Kids : kid[k] \in {"write", "holding", "aside", "into"}}

OpenNew(k) ==
  /\ Go(k, "open", "write")
  /\ new' = Partial
  /\ spoiled' = (spoiled \/ AtNew # {})
  /\ UNCHANGED <<dll, old, cacheVars, server, image, gameVars, got, answered, meddled>>

\* fail() is looked at before the file is closed, and what cannot be written
\* by then is lost without a word.
WriteNew(k) ==
  /\ Go(k, "write", "aside")
  /\ \/ new' = got[k] /\ UNCHANGED spoiled
     \/ new' = Partial /\ spoiled' = TRUE
  /\ UNCHANGED <<dll, old, cacheVars, server, image, gameVars, got, answered, meddled>>

\* Mutant of OldIsFree: the rename replaces what is there.
OldReplaced == TRUE

\* There is no old file again.
OldIsFree == old = None

\* rename(dllFilename, dllFilenameOld), which takes every process that has
\* loaded the file along.
MoveAside(k) ==
  /\ Go(k, "aside", "into")
  /\ dll # None /\ OldIsFree
  /\ old' = dll
  /\ dll' = None
  /\ image' = [p \in Procs |-> IF image[p] = "dll" THEN "old" ELSE image[p]]
  /\ UNCHANGED <<new, cacheVars, server, gameVars, got, history>>

\* Nobody writes the new file, and there is none in its place.
Free == dll = None /\ \A k \in Kids : kid[k] \notin {"write", "holding"}

\* rename(dllFilenameNew, dllFilename).
MoveInto(k) ==
  /\ Go(k, "into", "over")
  /\ new # None /\ Free
  /\ dll' = new
  /\ new' = None
  /\ UNCHANGED <<old, cacheVars, server, image, gameVars, got, history>>

InstallFails(k) ==
  /\ Fails(k)
  /\ UNCHANGED <<files, cacheVars, server, image, gameVars, got, history>>

KidNext(k) == \/ Ends(k)
              \/ Check(k)
              \/ Accept(k)
              \/ Answer(k)
              \/ OpenCache(k)
              \/ SaveCache(k)
              \/ Download(k)
              \/ ClearOld(k)
              \/ OpenNew(k)
              \/ WriteNew(k)
              \/ MoveAside(k)
              \/ MoveInto(k)
              \/ InstallFails(k)

GameNext == \/ Start
            \/ RemoveLeftOver
            \/ SkipCheck
            \/ CheckTimesOut
            \/ CheckEnds
            \/ Decline
            \/ InstallEnds
            \/ Quit

UpdaterNext ==
  \/ GameNext
  \/ \E k \in Kids : KidNext(k)
  \/ \E v \in Versions : Publish(v)
  \/ HourPasses

UpdaterSpec == UpdaterInit /\ [][UpdaterNext]_updaterVars

-----------------------------------------------------------------------------
(* Properties. *)

\* The variables hold values of their kinds.
UpdaterTypeOK ==
  /\ {dll, new, old} \subseteq Versions \union {None, Partial}
  /\ cache \in Versions \union {None, ErrorPage}
  /\ recent \in BOOLEAN
  /\ server \in Versions
  /\ image \in [Procs -> {None, "dll", "old"}]
  /\ pc \in {"off", "init", "read", "checking", "prompt", "installing", "running"}
  /\ SBLT_VERSION \in Versions \union {None}
  /\ timeoutMS \in {"INFINITE", "1500"}
  /\ child \in Kids \union {NoKid}
  /\ kid \in [Kids -> {"none", "check", "save", "saving", "install", "clear", "open", "write",
                       "holding", "aside", "into", "over"}]
  /\ got \in [Kids -> Versions \union {None, ErrorPage}]
  /\ answered \in Versions \union {None, ErrorPage}
  /\ meddled \in BOOLEAN
  /\ spoiled \in BOOLEAN

\* Wherever processes end and however many installers there are, the player is
\* left with a DLL that works under its own name or with ".old" behind it ("if
\* we can't move on from here we've broken the install").
WorkingDllInReach == Whole(dll) \/ Whole(old)

\* What is installed has been verified, whichever installer wrote the new file
\* and whichever renamed it; and it is whole, unless the end of the file was
\* lost when it was closed or two installers wrote it at a time.
OnlyWholeSignedInstalled ==
  /\ dll \in Signed \union {Fork, None, Partial}
  /\ dll = Partial => spoiled

\* A start whose check has saved an answer offers an update if and only if that
\* answer is not its own version, unless the process of another check, of an
\* earlier start that did not wait for it, has touched the file meanwhile.
OfferIsCurrent ==
  [][pc = "checking" /\ child = NoKid /\ pc' \in {"prompt", "running"}
     /\ answered # None /\ ~meddled
       => (pc' = "prompt" <=> answered # SBLT_VERSION)]_updaterVars
=============================================================================
