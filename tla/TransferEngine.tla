--------------------------- MODULE TransferEngine ---------------------------
(***************************************************************************)
(* The transfer engines of the two Beacon daemons of one migration         *)
(* (beacon/internal/transfer/protocol.go and the handlers of               *)
(* beacon/internal/server/transfer_protocol.go): the metadata files, the   *)
(* archive on the source, the upload, the staging, previous and canonical  *)
(* directories on the destination, and the requests that work on them.     *)
(*                                                                         *)
(* One critical section of e.mu, one rename or one removal is one step; a  *)
(* long part runs outside the lock and saves the copy of the metadata that *)
(* it took at its start.  An archive is the version of the files it holds, *)
(* which is also its checksum; it is sent in Chunks pieces.  Any save, file *)
(* operation or rename may fail: a save before or after its own rename, so *)
(* that an error does not tell whether the new metadata are there.  Removals *)
(* succeed.  Requests come with the current credential; expiry is not      *)
(* modelled.                                                               *)
(***************************************************************************)
EXTENDS Integers, Sequences

CONSTANTS
    Requests,     \* handler goroutines of the two daemons
    Chunks,       \* pieces of an archive
    MaxVersions,  \* bound: states of the source's files
    MaxCrashes,   \* bound: daemons that end and start again
    MaxCancels,   \* bound: calls of Cancel
    None

ASSUME TransferAssumption ==
    /\ Chunks \in Nat \ {0}
    /\ MaxVersions \in Nat \ {0}
    /\ MaxCrashes \in Nat
    /\ MaxCancels \in Nat
    /\ None \notin Requests

VARIABLES
    files,                  \* version of the source's server directory
    smeta, archive, tmp,    \* source: metadata, source.tar.gz, its .tmp is there
    dmeta, incoming,        \* destination: metadata, pieces of incoming.tar.gz
    staging, previous,      \* destination: the directories restored and previous
    canonical, discarded,   \* destination: the server directory, cancelled-current
    sactive, dactive,       \* e.active of each daemon
    pc, copy,               \* where a request is, and its copy of the metadata
    cut, linked,            \* requests cancelled; with a file that is still there
    overtaken,              \* history: Cancel and another request met
    lost,                   \* history: what was done and not recorded
    crashes, cancels

sourceVars == <<files, smeta, archive, tmp, sactive>>
uploadVars == <<dmeta, incoming, dactive, linked>>
treeVars == <<staging, previous, canonical, discarded>>
reqVars == <<pc, copy, cut>>
boundVars == <<crashes, cancels>>
historyVars == <<overtaken, lost>>
vars == <<sourceVars, uploadVars, treeVars, reqVars, boundVars, historyVars>>

Version == 1..MaxVersions
\* Directory trees: a version of the source's files, or one of these.
NoTree == 0
OldTree == -1
Partial == -2
Tree == Version \cup {NoTree, OldTree, Partial}

SPhase == {"absent", "authorized", "archiving", "archived", "failed", "cancelled", "cleaned"}
DPhase == {"absent", "authorized", "uploading", "verified", "restoring", "restored", "failed",
           "activated", "cancelled"}
Preparing == {"create", "tar", "archived", "unarchived"}
Uploading == {"upload"}
\* The trees are exchanged, or are being, and the metadata do not say so yet.
Swapping == {"swapIn", "restored", "unsynced"}
Restoring == {"extract", "swapOut", "swapInFresh", "unrestored"} \cup Swapping
Cancelling == {"rollback", "rollbackIn", "removeDest"}
Place == {"idle", "removeSource", "tidy"} \cup Preparing \cup Uploading \cup Restoring \cup Cancelling

Sum == 0..MaxVersions
SMeta == [ph : SPhase, sum : Sum, used : BOOLEAN]
DMeta == [ph : DPhase, sum : Sum, off : 0..Chunks, used : BOOLEAN]
Copy == [sum : Sum, off : 0..Chunks]

SourceOK ==
    /\ files \in Version \cup {NoTree}
    /\ smeta \in SMeta
    /\ archive \in Sum
    /\ sactive \in Requests \cup {None}
UploadOK ==
    /\ dmeta \in DMeta
    /\ incoming \in Seq(Version) /\ Len(incoming) <= Chunks
    /\ dactive \in Requests \cup {None}
    /\ linked \subseteq Requests
TreesOK == staging \in Tree /\ previous \in Tree /\ canonical \in Tree /\ discarded \in Tree
RequestsOK ==
    /\ pc \in [Requests -> Place]
    /\ copy \in [Requests -> Copy]
    /\ cut \subseteq Requests
BoundsOK == crashes \in 0..MaxCrashes /\ cancels \in 0..MaxCancels
FlagsOK == tmp \in BOOLEAN /\ overtaken \in BOOLEAN /\ lost \subseteq {"offset", "swap"}

TypeOK == SourceOK /\ UploadOK /\ TreesOK /\ RequestsOK /\ BoundsOK /\ FlagsOK

SAbsent == [ph |-> "absent", sum |-> 0, used |-> FALSE]
DAbsent == [ph |-> "absent", sum |-> 0, off |-> 0, used |-> FALSE]

\* The target may still have a directory of the server from an earlier stay.
Init ==
    /\ files = 1
    /\ smeta = SAbsent /\ archive = 0 /\ tmp = FALSE
    /\ dmeta = DAbsent /\ incoming = <<>>
    /\ staging = NoTree /\ previous = NoTree /\ discarded = NoTree
    /\ canonical \in {NoTree, OldTree}
    /\ sactive = None /\ dactive = None
    /\ pc = [r \in Requests |-> "idle"]
    /\ copy = [r \in Requests |-> [sum |-> 0, off |-> 0]]
    /\ cut = {} /\ linked = {}
    /\ overtaken = FALSE /\ lost = {}
    /\ crashes = 0 /\ cancels = 0

-----------------------------------------------------------------------------
(* Helpers *)

Goto(r, place) ==
    /\ pc' = [pc EXCEPT ![r] = place]
    /\ UNCHANGED <<copy, cut>>

\* The request ends.
Done(r) ==
    /\ pc' = [pc EXCEPT ![r] = "idle"]
    /\ copy' = [copy EXCEPT ![r] = [sum |-> 0, off |-> 0]]
    /\ cut' = cut \ {r}

\* save writes the request's copy over whatever is there.  The save that fails
\* before its rename is UNCHANGED; after it, the error is all there is to tell.
SaveSource(r, ph) == smeta' = [ph |-> ph, sum |-> copy[r].sum, used |-> FALSE]
SaveDest(r, ph) ==
    dmeta' = [ph |-> ph, sum |-> copy[r].sum, off |-> copy[r].off, used |-> FALSE]

Authorized(meta) == meta.ph # "absent" /\ ~meta.used

Whole(pieces, v) == Len(pieces) = Chunks /\ \A i \in 1..Chunks : pieces[i] = v

AtWork(places) == {r \in Requests : pc[r] \in places}

-----------------------------------------------------------------------------
(* Register: a save that fails leaves no trace, or the new metadata. *)

RegisterSource ==
    /\ smeta' = IF smeta.ph = "absent" THEN [SAbsent EXCEPT !.ph = "authorized"]
                ELSE [smeta EXCEPT !.used = FALSE]
    /\ overtaken' = (overtaken \/ smeta.ph = "cancelled")
    /\ UNCHANGED <<files, archive, tmp, sactive, uploadVars, treeVars, reqVars, boundVars, lost>>

RegisterDest ==
    /\ dmeta' = IF dmeta.ph = "absent" THEN [DAbsent EXCEPT !.ph = "authorized"]
                ELSE [dmeta EXCEPT !.used = FALSE]
    /\ overtaken' = (overtaken \/ dmeta.ph = "cancelled")
    /\ UNCHANGED <<sourceVars, incoming, dactive, linked, treeVars, reqVars, boundVars, lost>>

-----------------------------------------------------------------------------
(* PrepareSource *)

\* Mutant: an archive may be made while another is.
PrepareUnguarded(r) ==
    /\ pc[r] = "idle"
    /\ Authorized(smeta) /\ smeta.ph # "archived"
    /\ sactive' = r
    /\ smeta' = [smeta EXCEPT !.ph = "archiving"]
    /\ copy' = [copy EXCEPT ![r].sum = smeta.sum]
    /\ pc' = [pc EXCEPT ![r] = "create"]
    /\ UNCHANGED <<files, archive, tmp, uploadVars, treeVars, cut, boundVars, historyVars>>

\* The metadata that could not be synced may be in place all the same.
PrepareSource(r) ==
    /\ pc[r] = "idle"
    /\ Authorized(smeta) /\ smeta.ph # "archived"
    /\ sactive = None
    /\ smeta' = [smeta EXCEPT !.ph = "archiving"]
    /\ \/ /\ sactive' = r
          /\ copy' = [copy EXCEPT ![r].sum = smeta.sum]
          /\ pc' = [pc EXCEPT ![r] = "create"]
          /\ UNCHANGED cut
       \/ UNCHANGED <<sactive, reqVars>>
    /\ overtaken' = (overtaken \/ AtWork({"removeSource"}) # {})
    /\ UNCHANGED <<files, archive, tmp, uploadVars, treeVars, boundVars, lost>>

\* The temporary file is created exclusively.
CreateArchive(r) ==
    /\ pc[r] = "create"
    /\ \/ ~tmp /\ files # NoTree /\ tmp' = TRUE /\ Goto(r, "tar")
       \/ Goto(r, "unarchived") /\ UNCHANGED tmp
    /\ UNCHANGED <<files, smeta, archive, sactive, uploadVars, treeVars, boundVars, historyVars>>

\* The archive is renamed into place, or the attempt removes what it created.  The
\* directory sync after the rename may fail: the archive is there, the attempt failed.
RenameArchive(r) ==
    /\ pc[r] = "tar"
    /\ \/ /\ tmp /\ files # NoTree
          /\ archive' = files
          /\ \/ /\ copy' = [copy EXCEPT ![r].sum = files]
                /\ pc' = [pc EXCEPT ![r] = "archived"]
                /\ UNCHANGED cut
             \/ Goto(r, "unarchived")
       \/ Goto(r, "unarchived") /\ UNCHANGED archive
    /\ tmp' = FALSE
    /\ UNCHANGED <<files, smeta, sactive, uploadVars, treeVars, boundVars, historyVars>>

PrepareEnds(r) ==
    /\ \/ pc[r] = "archived" /\ SaveSource(r, "archived")
       \/ pc[r] = "unarchived" /\ SaveSource(r, "failed")
       \/ pc[r] \in {"archived", "unarchived"} /\ UNCHANGED smeta
    /\ sactive' = None
    /\ Done(r)
    /\ UNCHANGED <<files, archive, tmp, uploadVars, treeVars, boundVars, historyVars>>

\* The server runs again, by a rollback or an operator, and changes its files.
FilesChange ==
    /\ files \in 1..(MaxVersions - 1)
    /\ files' = files + 1
    /\ UNCHANGED <<smeta, archive, tmp, sactive, uploadVars, treeVars, reqVars, boundVars,
                   historyVars>>

\* The files stay when the save reports an error.
CleanupSource ==
    /\ Authorized(smeta)
    /\ smeta' = [smeta EXCEPT !.ph = "cleaned", !.used = TRUE]
    /\ files' \in {NoTree, files}
    /\ UNCHANGED <<archive, tmp, sactive, uploadVars, treeVars, reqVars, boundVars, historyVars>>

-----------------------------------------------------------------------------
(* pushArchive and AppendDestination *)

\* Mutant: the offset is advanced before the bytes are there.
AppendAnnounces(r) ==
    /\ pc[r] = "idle"
    /\ smeta.ph = "archived" /\ archive # 0
    /\ Authorized(dmeta) /\ dmeta.ph \notin {"restored", "activated"}
    /\ dmeta.sum \in {0, smeta.sum}
    /\ dactive = None
    /\ Len(incoming) = dmeta.off
    /\ dmeta' = [dmeta EXCEPT !.ph = "uploading", !.sum = smeta.sum, !.off = Chunks]
    /\ dactive' = r
    /\ linked' = linked \cup {r}
    /\ copy' = [copy EXCEPT ![r] = [sum |-> smeta.sum, off |-> dmeta.off]]
    /\ pc' = [pc EXCEPT ![r] = "upload"]
    /\ UNCHANGED <<sourceVars, incoming, treeVars, cut, boundVars, historyVars>>

\* Mutant: a transfer that was restored takes another upload.
AppendReopens(r) ==
    /\ pc[r] = "idle"
    /\ smeta.ph = "archived" /\ archive # 0
    /\ Authorized(dmeta)
    /\ dmeta.sum \in {0, smeta.sum}
    /\ dactive = None
    /\ dmeta' = [dmeta EXCEPT !.ph = "uploading", !.sum = smeta.sum]
    /\ \/ /\ Len(incoming) = dmeta.off
          /\ dactive' = r
          /\ linked' = linked \cup {r}
          /\ copy' = [copy EXCEPT ![r] = [sum |-> smeta.sum, off |-> dmeta.off]]
          /\ pc' = [pc EXCEPT ![r] = "upload"]
          /\ UNCHANGED cut
       \/ UNCHANGED <<dactive, linked, reqVars>>
    /\ overtaken' = (overtaken \/ AtWork(Cancelling) # {})
    /\ UNCHANGED <<sourceVars, incoming, treeVars, boundVars, lost>>

\* The source asks for the offset and sends the rest of its archive.  The file is
\* created if need be, and has to end where the metadata says; that, an error of the
\* save or one in opening the file leaves the metadata changed and nothing begun.
AppendDestination(r) ==
    /\ pc[r] = "idle"
    /\ smeta.ph = "archived" /\ archive # 0
    /\ Authorized(dmeta) /\ dmeta.ph \notin {"restored", "activated"}
    /\ dmeta.sum \in {0, smeta.sum}
    /\ dactive = None
    /\ dmeta' = [dmeta EXCEPT !.ph = "uploading", !.sum = smeta.sum]
    /\ \/ /\ Len(incoming) = dmeta.off
          /\ dactive' = r
          /\ linked' = linked \cup {r}
          /\ copy' = [copy EXCEPT ![r] = [sum |-> smeta.sum, off |-> dmeta.off]]
          /\ pc' = [pc EXCEPT ![r] = "upload"]
          /\ UNCHANGED cut
       \/ UNCHANGED <<dactive, linked, reqVars>>
    /\ overtaken' = (overtaken \/ AtWork(Cancelling) # {})
    /\ UNCHANGED <<sourceVars, incoming, treeVars, boundVars, lost>>

\* A piece reaches the file, at the place this request has come to.
Receive(r) ==
    /\ pc[r] = "upload" /\ r \notin cut
    /\ copy[r].off < Chunks
    /\ LET at == copy[r].off + 1
       IN /\ copy' = [copy EXCEPT ![r].off = at]
          /\ incoming' = IF r \notin linked THEN incoming
                         ELSE IF at <= Len(incoming) THEN [incoming EXCEPT ![at] = copy[r].sum]
                         ELSE Append(incoming, copy[r].sum)
    /\ UNCHANGED <<sourceVars, dmeta, dactive, linked, treeVars, pc, cut, boundVars, historyVars>>

\* Mutant: a body that ended is taken for the whole archive.
AppendEndsUnverified(r) ==
    /\ pc[r] = "upload"
    /\ SaveDest(r, "verified")
    /\ dactive' = None
    /\ linked' = linked \ {r}
    /\ Done(r)
    /\ UNCHANGED <<sourceVars, incoming, treeVars, boundVars, historyVars>>

\* Mutant: a request that fails leaves the offset as it was.
AppendEndsUnsaved(r) ==
    /\ pc[r] = "upload"
    /\ \/ UNCHANGED dmeta /\ (copy[r].off = Chunks => r \in cut \/ incoming = <<>>)
       \/ /\ copy[r].off = Chunks /\ incoming # <<>>
          /\ SaveDest(r, IF Whole(incoming, copy[r].sum) THEN "verified" ELSE "failed")
    /\ dactive' = None
    /\ linked' = linked \ {r}
    /\ Done(r)
    /\ UNCHANGED <<sourceVars, incoming, treeVars, boundVars, historyVars>>

\* The body is at its end, or a read, a write or the sync failed, or the request was
\* cancelled.  The checksum is that of the file at the path, whoever wrote it.  The
\* error of the last save is ignored.
AppendEnds(r) ==
    /\ pc[r] = "upload"
    /\ \/ SaveDest(r, "uploading") /\ UNCHANGED lost
       \/ /\ copy[r].off = Chunks /\ incoming # <<>>
          /\ SaveDest(r, IF Whole(incoming, copy[r].sum) THEN "verified" ELSE "failed")
          /\ UNCHANGED lost
       \/ UNCHANGED dmeta /\ lost' = lost \cup {"offset"}
    /\ dactive' = None
    /\ linked' = linked \ {r}
    /\ Done(r)
    /\ UNCHANGED <<sourceVars, incoming, treeVars, boundVars, overtaken>>

-----------------------------------------------------------------------------
(* RestoreDestination *)

\* The error of the save is ignored.
RestoreDestination(r) ==
    /\ pc[r] = "idle"
    /\ Authorized(dmeta) /\ dmeta.ph = "verified"
    /\ dactive = None
    /\ staging = NoTree
    /\ staging' = Partial
    /\ dactive' = r
    /\ dmeta' \in {dmeta, [dmeta EXCEPT !.ph = "restoring"]}
    /\ copy' = [copy EXCEPT ![r] = [sum |-> dmeta.sum, off |-> dmeta.off]]
    /\ pc' = [pc EXCEPT ![r] = "extract"]
    /\ overtaken' = (overtaken \/ AtWork(Cancelling) # {})
    /\ UNCHANGED <<sourceVars, incoming, linked, previous, canonical, discarded, cut, boundVars, lost>>

\* Mutant: an extraction that stops early goes on to the activation.
ExtractUnchecked(r) ==
    /\ pc[r] = "extract"
    /\ \/ /\ r \notin cut /\ staging # NoTree
          /\ \E v \in Version : Whole(incoming, v) /\ staging' = v
       \/ UNCHANGED staging
    /\ Goto(r, "swapOut")
    /\ UNCHANGED <<sourceVars, uploadVars, previous, canonical, discarded, boundVars, historyVars>>

\* A tree that was removed, an archive that is gone or not one archive, a full
\* disk and a cancelled context end the extraction.
Extract(r) ==
    /\ pc[r] = "extract"
    /\ \/ /\ r \notin cut /\ staging # NoTree
          /\ \E v \in Version : Whole(incoming, v) /\ staging' = v
          /\ Goto(r, "swapOut")
       \/ Goto(r, "unrestored") /\ UNCHANGED staging
    /\ UNCHANGED <<sourceVars, uploadVars, previous, canonical, discarded, boundVars, historyVars>>

\* activateWithRollback up to the first rename; the transfer's directory may be
\* gone.
SwapOut(r) ==
    /\ pc[r] = "swapOut"
    /\ \/ /\ previous = NoTree /\ canonical = NoTree
          /\ Goto(r, "swapInFresh")
          /\ UNCHANGED <<previous, canonical>>
       \/ /\ previous = NoTree /\ canonical # NoTree /\ dmeta.ph # "absent"
          /\ previous' = canonical /\ canonical' = NoTree
          /\ Goto(r, "swapIn")
       \/ Goto(r, "unrestored") /\ UNCHANGED <<previous, canonical>>
    /\ UNCHANGED <<sourceVars, uploadVars, staging, discarded, boundVars, historyVars>>

\* The second rename, and the sync of the directory it was made in.  When the rename
\* fails the old directory is put back, which may fail too.
SwapIn(r) ==
    /\ pc[r] \in {"swapIn", "swapInFresh"}
    /\ \/ /\ staging # NoTree /\ canonical = NoTree
          /\ canonical' = staging /\ staging' = NoTree
          /\ Goto(r, "restored") \/ Goto(r, "unsynced")
          /\ UNCHANGED <<previous, lost>>
       \/ /\ pc[r] = "swapIn" /\ previous # NoTree /\ canonical = NoTree
          /\ canonical' = previous /\ previous' = NoTree
          /\ Goto(r, "unrestored")
          /\ UNCHANGED <<staging, lost>>
       \/ /\ Goto(r, "unrestored")
          /\ lost' = IF pc[r] = "swapIn" THEN lost \cup {"swap"} ELSE lost
          /\ UNCHANGED <<staging, canonical, previous>>
    /\ UNCHANGED <<sourceVars, uploadVars, discarded, boundVars, overtaken>>

\* incoming.tar.gz is removed when the save reports no error.
RestoreEnds(r) ==
    /\ \/ /\ pc[r] = "restored"
          /\ SaveDest(r, "restored")
          /\ \/ incoming' = <<>> /\ linked' = {}
             \/ UNCHANGED <<incoming, linked>>
          /\ UNCHANGED lost
       \/ /\ pc[r] \in {"unrestored", "unsynced"}
          /\ SaveDest(r, "failed")
          /\ lost' = IF pc[r] = "unsynced" THEN lost \cup {"swap"} ELSE lost
          /\ UNCHANGED <<incoming, linked>>
       \/ /\ pc[r] \in {"restored", "unrestored", "unsynced"}
          /\ lost' = IF pc[r] = "unrestored" THEN lost ELSE lost \cup {"swap"}
          /\ UNCHANGED <<dmeta, incoming, linked>>
    /\ dactive' = None
    /\ Done(r)
    /\ UNCHANGED <<sourceVars, treeVars, boundVars, overtaken>>

-----------------------------------------------------------------------------
(* FinalizeDestination *)

\* Nothing is removed when the save reports an error.
FinalizeDestination(r) ==
    /\ pc[r] = "idle"
    /\ Authorized(dmeta) /\ dmeta.ph = "restored"
    /\ dmeta' = [dmeta EXCEPT !.ph = "activated", !.used = TRUE]
    /\ Goto(r, "tidy") \/ UNCHANGED reqVars
    /\ overtaken' = (overtaken \/ AtWork(Cancelling) # {})
    /\ UNCHANGED <<sourceVars, incoming, dactive, linked, treeVars, boundVars, lost>>

Tidy(r) ==
    /\ pc[r] = "tidy"
    /\ previous' = NoTree /\ staging' = NoTree
    /\ incoming' = <<>> /\ linked' = {}
    /\ Done(r)
    /\ UNCHANGED <<sourceVars, dmeta, dactive, canonical, discarded, boundVars, historyVars>>

-----------------------------------------------------------------------------
(* Cancel: the error of the save is ignored. *)

CancelSource(r) ==
    /\ pc[r] = "idle" /\ cancels < MaxCancels
    /\ Authorized(smeta)
    /\ cancels' = cancels + 1
    /\ smeta' \in {smeta, [smeta EXCEPT !.ph = "cancelled", !.used = TRUE]}
    /\ sactive' = None
    /\ cut' = cut \cup ({sactive} \cap Requests)
    /\ pc' = [pc EXCEPT ![r] = "removeSource"]
    /\ overtaken' = (overtaken \/ AtWork(Preparing) # {})
    /\ UNCHANGED <<files, archive, tmp, uploadVars, treeVars, copy, crashes, lost>>

RemoveSource(r) ==
    /\ pc[r] = "removeSource"
    /\ smeta' = SAbsent /\ archive' = 0 /\ tmp' = FALSE
    /\ overtaken' = (overtaken \/ AtWork(Preparing) # {})
    /\ Done(r)
    /\ UNCHANGED <<files, sactive, uploadVars, treeVars, boundVars, lost>>

\* Mutant: a restored transfer is cancelled like any other.
CancelDestKeepsNew(r) ==
    /\ pc[r] = "idle" /\ cancels < MaxCancels
    /\ Authorized(dmeta)
    /\ cancels' = cancels + 1
    /\ dmeta' \in {dmeta, [dmeta EXCEPT !.ph = "cancelled", !.used = TRUE]}
    /\ dactive' = None
    /\ cut' = cut \cup ({dactive} \cap Requests)
    /\ pc' = [pc EXCEPT ![r] = "removeDest"]
    /\ overtaken' = (overtaken \/ AtWork(Uploading \cup Restoring \cup Cancelling \cup {"tidy"}) # {})
    /\ UNCHANGED <<sourceVars, incoming, linked, treeVars, copy, crashes, lost>>

\* The active request is told to stop, not waited for.  Only a transfer that was
\* restored is rolled back.
CancelDest(r) ==
    /\ pc[r] = "idle" /\ cancels < MaxCancels
    /\ Authorized(dmeta)
    /\ cancels' = cancels + 1
    /\ dmeta' \in {dmeta, [dmeta EXCEPT !.ph = "cancelled", !.used = TRUE]}
    /\ dactive' = None
    /\ cut' = cut \cup ({dactive} \cap Requests)
    /\ pc' = [pc EXCEPT ![r] = IF dmeta.ph \in {"restored", "activated"} THEN "rollback"
                               ELSE "removeDest"]
    /\ overtaken' = (overtaken \/ AtWork(Uploading \cup Restoring \cup Cancelling \cup {"tidy"}) # {})
    /\ UNCHANGED <<sourceVars, incoming, linked, treeVars, copy, crashes, lost>>

\* What the restore put in place is moved to cancelled-current.
Rollback(r) ==
    /\ pc[r] = "rollback"
    /\ \/ /\ previous = NoTree
          /\ Goto(r, "removeDest")
          /\ UNCHANGED <<canonical, discarded, lost>>
       \/ /\ previous # NoTree
          /\ discarded' = canonical /\ canonical' = NoTree
          /\ lost' = IF dmeta.ph = "cancelled" THEN lost ELSE lost \cup {"swap"}
          /\ Goto(r, "rollbackIn")
       \/ /\ previous # NoTree
          /\ discarded' = NoTree
          /\ Done(r)
          /\ UNCHANGED <<canonical, lost>>
    /\ UNCHANGED <<sourceVars, uploadVars, staging, previous, boundVars, overtaken>>

\* When the directory cannot be put back, the other one is, or that fails too, and
\* nothing is removed.
RollbackIn(r) ==
    /\ pc[r] = "rollbackIn"
    /\ \/ /\ previous # NoTree /\ canonical = NoTree
          /\ canonical' = previous /\ previous' = NoTree /\ discarded' = NoTree
          /\ Goto(r, "removeDest")
       \/ /\ discarded # NoTree /\ canonical = NoTree
          /\ canonical' = discarded /\ discarded' = NoTree
          /\ Done(r)
          /\ UNCHANGED previous
       \/ Done(r) /\ UNCHANGED <<canonical, previous, discarded>>
    /\ UNCHANGED <<sourceVars, uploadVars, staging, boundVars, historyVars>>

RemoveDest(r) ==
    /\ pc[r] = "removeDest"
    /\ dmeta' = DAbsent
    /\ incoming' = <<>> /\ linked' = {}
    /\ staging' = NoTree /\ previous' = NoTree /\ discarded' = NoTree
    /\ overtaken' = (overtaken \/ AtWork(Uploading \cup Restoring) # {})
    /\ lost' = {}
    /\ Done(r)
    /\ UNCHANGED <<sourceVars, dactive, canonical, boundVars>>

-----------------------------------------------------------------------------
(* The daemons *)

EndRequests(places) ==
    LET ended == AtWork(places)
    IN /\ pc' = [r \in Requests |-> IF r \in ended THEN "idle" ELSE pc[r]]
       /\ copy' = [r \in Requests |-> IF r \in ended THEN [sum |-> 0, off |-> 0] ELSE copy[r]]
       /\ cut' = cut \ ended
       /\ linked' = linked \ ended

\* What is on disk stays, the .tmp of an archive too.
CrashSource ==
    /\ crashes < MaxCrashes
    /\ crashes' = crashes + 1
    /\ sactive' = None
    /\ EndRequests(Preparing \cup {"removeSource"})
    /\ UNCHANGED <<files, smeta, archive, tmp, dmeta, incoming, dactive, treeVars, cancels,
                   historyVars>>

CrashDest ==
    /\ crashes < MaxCrashes
    /\ crashes' = crashes + 1
    /\ dactive' = None
    /\ lost' = lost \cup (IF AtWork(Uploading) # {} THEN {"offset"} ELSE {})
                    \cup (IF AtWork(Swapping) # {} THEN {"swap"} ELSE {})
    /\ EndRequests(Uploading \cup Restoring \cup Cancelling \cup {"tidy"})
    /\ UNCHANGED <<sourceVars, dmeta, incoming, treeVars, cancels, overtaken>>

SourceStep(r) ==
    PrepareSource(r) \/ CreateArchive(r) \/ RenameArchive(r) \/ PrepareEnds(r)

UploadStep(r) == AppendDestination(r) \/ Receive(r) \/ AppendEnds(r)

RestoreStep(r) ==
    RestoreDestination(r) \/ Extract(r) \/ SwapOut(r) \/ SwapIn(r) \/ RestoreEnds(r)

CancelStep(r) ==
    \/ CancelSource(r) \/ RemoveSource(r)
    \/ CancelDest(r) \/ Rollback(r) \/ RollbackIn(r) \/ RemoveDest(r)

Next ==
    \/ RegisterSource \/ RegisterDest \/ FilesChange \/ CleanupSource
    \/ CrashSource \/ CrashDest
    \/ \E r \in Requests :
         \/ SourceStep(r) \/ UploadStep(r) \/ RestoreStep(r)
         \/ FinalizeDestination(r) \/ Tidy(r)
         \/ CancelStep(r)

Spec == Init /\ [][Next]_vars

-----------------------------------------------------------------------------
(* Properties *)
(* overtaken marks that Cancel and another request met on one transfer: Cancel *)
(* came upon a request at work, which then saves its copy and renames by path  *)
(* in a directory that was removed, or a request began on what was being       *)
(* removed.  lost has what was done to the files and is not in the   *)
(* metadata, because the daemon died or a save, a sync or the renaming back    *)
(* failed: "offset", the end of an upload; "swap", the exchange of the trees.   *)

\* An archive on the source that is announced as ready is the one whose checksum is
\* announced (PrepareSource saves the checksum after the rename).
ArchiveMatches == ~overtaken /\ smeta.ph = "archived" => archive = smeta.sum

\* A transfer reads verified, is extracted and reads restored only with the whole
\* archive, however often the upload broke off, was resumed at the offset, or the
\* daemon died, and whichever archive the source has made since.
VerifiedIsWhole ==
    ~overtaken /\ dmeta.ph \in {"verified", "restoring"} => Whole(incoming, dmeta.sum)

\* The offset that the source resumes at never passes the bytes that are there
\* (AppendDestination syncs the file before it saves the offset).
OffsetBacked ==
    ~overtaken /\ dmeta.ph = "uploading" => dmeta.off <= Len(incoming)

\* An upload that broke off can be resumed, unless its end was not recorded: the file
\* ends at the offset that the source is told (the error paths of AppendDestination
\* save the offset too).
Resumable ==
    ~overtaken /\ "offset" \notin lost /\ dmeta.ph = "uploading" /\ AtWork(Uploading) = {}
        => Len(incoming) = dmeta.off

\* The server directory is never a tree that was extracted in part
\* (RestoreDestination extracts aside and renames), and once the transfer reads
\* restored it holds the files of the archive that was announced and verified, unless
\* a Cancel that could not be recorded took them away.
CanonicalWhole ==
    ~overtaken => /\ canonical # Partial
                  /\ dmeta.ph = "restored" /\ "swap" \notin lost => canonical = dmeta.sum

\* Until the transfer is finalized the directory that the restore replaced is kept,
\* in its place or aside, unless the exchange of the two was not recorded or Cancel
\* came in the middle of a restore.
OldFilesKept ==
    [][~overtaken' /\ "swap" \notin lost /\ OldTree \in {canonical, previous}
         => \/ OldTree \in {canonical', previous'}
            \/ dmeta.ph = "activated"]_vars

-----------------------------------------------------------------------------
(* What the destination promises *)

ContractPhase ==
    IF dmeta.ph \in {"uploading", "failed"} THEN "authorized"
    ELSE IF dmeta.ph = "restoring" THEN "verified"
    ELSE dmeta.ph
ContractSum ==
    IF dmeta.ph \in {"verified", "restoring", "restored", "activated"} THEN dmeta.sum ELSE NoTree
\* Between the two renames of the activation the old directory counts as in place, and
\* between the two of the rollback the new one.
ContractTree ==
    IF canonical # NoTree THEN canonical ELSE IF discarded # NoTree THEN discarded ELSE previous
ContractAside == IF canonical = NoTree /\ discarded = NoTree THEN NoTree ELSE previous
Torn == "swap" \in lost

Contract == INSTANCE TransferContract WITH
    phase <- ContractPhase, sum <- ContractSum, tree <- ContractTree, aside <- ContractAside,
    torn <- Torn, void <- overtaken

\* Seen from the control plane, uploads that break off and are resumed, extraction
\* aside and the two renames of activateWithRollback are the steps of the contract:
\* the server directory changes at once and only to the archive that was verified,
\* and Cancel forgets a transfer only when what it replaced is back.
KeepsContract == Contract!Spec
=============================================================================
