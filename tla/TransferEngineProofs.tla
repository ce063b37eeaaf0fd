------------------------ MODULE TransferEngineProofs ------------------------
(***************************************************************************)
(* TLAPS proofs about TransferEngine: for any number of requests, archives *)
(* of any number of pieces, and however often the daemons end and start    *)
(* again, what the engine announces, resumes, extracts and puts in place   *)
(* is whole, and the directory it replaces is kept.                        *)
(***************************************************************************)
EXTENDS TransferEngine, TLAPS

\* What the types do not say of sums, of trees and of a transfer that is not there.
Named ==
    /\ smeta.ph = "archived" => smeta.sum \in Version
    /\ \A r \in Requests : pc[r] \in {"archived", "upload"} => copy[r].sum \in Version
    /\ staging # OldTree /\ discarded # OldTree
    /\ canonical = OldTree => previous = NoTree
    /\ dmeta.ph = "absent" => dmeta.off = 0

TInv == TypeOK /\ Named

\* Requests at work on the destination, and the phases in which the upload is over.
DestPlaces == Uploading \cup Restoring \cup Cancelling \cup {"tidy"}
Over == {"restored", "activated", "cancelled"}

\* Whoever prepares the archive is registered, and nothing is announced meanwhile.
SourceInv ==
    /\ smeta.ph = "archived" => archive = smeta.sum
    /\ \A r \in Requests : pc[r] \in Preparing => sactive = r /\ smeta.ph # "archived"
    /\ \A r \in Requests : pc[r] = "archived" => archive = copy[r].sum

\* Each place of a request is bound to phases, and a request that cancels is alone, so
\* that no two kinds of request are at work on the destination together.
Owners ==
    /\ \A r \in Requests : pc[r] \in Uploading \cup Restoring => dactive = r
    /\ \A r \in Requests : pc[r] \in Uploading => dmeta.ph = "uploading" /\ r \in linked
    /\ \A r \in Requests : pc[r] \in Restoring => dmeta.ph \in {"verified", "restoring"}
    /\ \A r \in Requests : pc[r] \in Cancelling => dmeta.ph # "absent"
    /\ \A r \in Requests : pc[r] \in {"rollback", "rollbackIn"} => dmeta.ph \in Over
    /\ \A q, r \in Requests : pc[q] \in DestPlaces /\ pc[r] \in Cancelling => q = r
    /\ \A r \in Requests : pc[r] = "tidy" => dmeta.ph = "activated"
    /\ dmeta.ph = "cancelled" => dmeta.used

\* The copy that a request will save agrees with what is on disk.
Copies ==
    /\ \A r \in Requests : pc[r] \in Uploading =>
            copy[r].sum = dmeta.sum /\ copy[r].off = Len(incoming)
    /\ \A r \in Requests : pc[r] \in Restoring =>
            copy[r].sum = dmeta.sum /\ copy[r].off = dmeta.off

\* What the upload file holds, and where it ends unless an offset was not recorded.
Bytes ==
    /\ dmeta.ph \in {"verified", "restoring"} => Whole(incoming, dmeta.sum)
    /\ dmeta.ph \notin Over => dmeta.off <= Len(incoming)
    /\ "offset" \notin lost /\ dmeta.ph \notin Over =>
            Len(incoming) = dmeta.off \/ \E r \in Requests : pc[r] \in Uploading

\* Which trees the directories may hold.
Trees ==
    /\ canonical # Partial /\ previous # Partial /\ discarded # Partial
    /\ \A r \in Requests : pc[r] \in {"swapOut", "swapIn", "swapInFresh"} =>
            staging \in {dmeta.sum, NoTree}
    /\ \A r \in Requests : pc[r] \in {"restored", "unsynced"} => canonical = dmeta.sum
    /\ discarded # NoTree => dmeta.ph \in Over /\ canonical = NoTree

\* Where a directory that was moved aside may be, as long as no exchange of the two
\* went unrecorded.
Aside ==
    /\ ~Torn /\ previous # NoTree =>
         \/ dmeta.ph \in Over
         \/ \E r \in Requests : pc[r] \in Swapping
    /\ ~Torn => \A r \in Requests : pc[r] = "removeDest" => previous = NoTree
    /\ ~Torn /\ discarded # NoTree => previous # NoTree

\* What a transfer that reads restored has put in place, and what is known of it while
\* it is rolled back.
Installed ==
    /\ dmeta.ph \in {"restored", "activated"} => dmeta.sum \in Version
    /\ ~Torn /\ dmeta.ph \in {"restored", "activated"} => canonical = dmeta.sum
    /\ \A r \in Requests : pc[r] = "rollbackIn" => Torn \/ dmeta.ph = "cancelled"

DestInv == Owners /\ Copies /\ Bytes /\ Trees /\ Aside /\ Installed

-----------------------------------------------------------------------------
\* The values that checksums and trees take.
LEMMA Values ==
    /\ \A v \in Version : v \in Sum
    /\ 0 \in Sum /\ 0 \in 0..Chunks /\ 0 \notin Version
    /\ \A s \in Sum : s # 0 => s \in Version
    /\ \A v \in Version : v \in Tree /\ v # OldTree /\ v # NoTree /\ v # Partial
    /\ NoTree \in Tree /\ OldTree \in Tree /\ Partial \in Tree
    /\ NoTree # OldTree /\ NoTree # Partial /\ OldTree # Partial
BY TransferAssumption DEF Version, Sum, Tree, NoTree, OldTree, Partial

\* A transfer that is not there has metadata of the right type.
LEMMA MetaAbsent == SAbsent \in SMeta /\ DAbsent \in DMeta
BY Values DEF SAbsent, SMeta, SPhase, DAbsent, DMeta, DPhase

\* So has one that Register has just created.
LEMMA Fresh ==
    /\ [SAbsent EXCEPT !.ph = "authorized"] \in SMeta
    /\ [SAbsent EXCEPT !.ph = "authorized"].ph = "authorized"
    /\ [DAbsent EXCEPT !.ph = "authorized"] \in DMeta
    /\ [DAbsent EXCEPT !.ph = "authorized"].ph = "authorized"
    /\ [DAbsent EXCEPT !.ph = "authorized"].off = 0
<1>1. [SAbsent EXCEPT !.ph = "authorized"] \in SMeta BY MetaAbsent DEF SMeta, SPhase
<1>2. [DAbsent EXCEPT !.ph = "authorized"] \in DMeta BY MetaAbsent DEF DMeta, DPhase
<1>3. [SAbsent EXCEPT !.ph = "authorized"].ph = "authorized" BY MetaAbsent DEF SMeta
<1>4. /\ [DAbsent EXCEPT !.ph = "authorized"].ph = "authorized"
      /\ [DAbsent EXCEPT !.ph = "authorized"].off = DAbsent.off
  BY MetaAbsent DEF DMeta
<1>5. DAbsent.off = 0 BY DEF DAbsent
<1> QED BY <1>1, <1>2, <1>3, <1>4, <1>5

\* The copy of a request that is over.
LEMMA CopyNil == [sum |-> 0, off |-> 0] \in Copy
BY Values DEF Copy

\* A request that ends forgets its copy.
LEMMA DoneOK ==
    ASSUME RequestsOK, NEW r \in Requests, Done(r)
    PROVE  RequestsOK'
BY CopyNil DEF Done, RequestsOK, Place

\* A write inside the file, or at its end, leaves a sequence of versions.
LEMMA WriteType ==
    ASSUME NEW s \in Seq(Version), Len(s) <= Chunks, NEW at \in 1..Chunks, NEW v \in Version
    PROVE  LET t == IF at <= Len(s) THEN [s EXCEPT ![at] = v] ELSE Append(s, v)
           IN  t \in Seq(Version) /\ Len(t) <= Chunks
<1>1. CASE at <= Len(s)
  <2>1. [s EXCEPT ![at] = v] \in Seq(Version) /\ Len([s EXCEPT ![at] = v]) = Len(s)
    BY <1>1
  <2> QED BY <1>1, <2>1
<1>2. CASE ~(at <= Len(s))
  <2>1. Len(s) \in Nat BY DEF Version
  <2>2. Append(s, v) \in Seq(Version) /\ Len(Append(s, v)) = Len(s) + 1 OBVIOUS
  <2> QED BY <1>2, <2>1, <2>2, TransferAssumption
<1> QED BY <1>1, <1>2

\* Initially the types hold.
LEMMA InitType == Init => TInv
<1> SUFFICES ASSUME Init PROVE TInv
  OBVIOUS
<1>1. SourceOK BY TransferAssumption, MetaAbsent, Values DEF Init, SourceOK, Version, Sum
<1>2. UploadOK BY TransferAssumption, MetaAbsent DEF Init, UploadOK
<1>3. TreesOK BY Values DEF Init, TreesOK
<1>4. RequestsOK BY Values DEF Init, RequestsOK, Place, Copy
<1>5. BoundsOK BY TransferAssumption DEF Init, BoundsOK
<1>6. FlagsOK BY DEF Init, FlagsOK
<1>7. Named BY Values DEF Init, Named, SAbsent, DAbsent
<1> QED BY <1>1, <1>2, <1>3, <1>4, <1>5, <1>6, <1>7 DEF TInv, TypeOK

-----------------------------------------------------------------------------
(* Types *)

\* Register, cleanup, the server and the ends of the daemons keep the types.
LEMMA EngineType ==
    ASSUME TInv, RegisterSource \/ RegisterDest \/ FilesChange \/ CleanupSource
                 \/ CrashSource \/ CrashDest
    PROVE  TInv'
<1> USE DEF TInv, TypeOK, sourceVars, uploadVars, treeVars, reqVars, boundVars, historyVars
<1>1. CASE RegisterSource
  <2>1. [smeta EXCEPT !.used = FALSE] \in SMeta /\ [smeta EXCEPT !.used = FALSE].ph = smeta.ph
        /\ [smeta EXCEPT !.used = FALSE].sum = smeta.sum
    BY DEF SourceOK, SMeta
  <2>2. smeta' \in SMeta /\ (smeta'.ph = "archived" => smeta'.sum \in Version)
    BY <1>1, <2>1, Fresh DEF RegisterSource, Named
  <2>3. SourceOK' BY <1>1, <2>2 DEF RegisterSource, SourceOK
  <2>4. UploadOK' /\ TreesOK' /\ RequestsOK' /\ BoundsOK'
    BY <1>1 DEF RegisterSource, UploadOK, TreesOK, RequestsOK, BoundsOK
  <2>5. FlagsOK' BY <1>1 DEF RegisterSource, FlagsOK
  <2>6. Named' BY <1>1, <2>2 DEF RegisterSource, Named
  <2> QED BY <2>3, <2>4, <2>5, <2>6
<1>2. CASE RegisterDest
  <2>1. [dmeta EXCEPT !.used = FALSE] \in DMeta /\ [dmeta EXCEPT !.used = FALSE].ph = dmeta.ph
    BY DEF UploadOK, DMeta
  <2>2. dmeta' \in DMeta /\ dmeta'.ph # "absent"
    BY <1>2, <2>1, Fresh DEF RegisterDest
  <2>3. UploadOK' BY <1>2, <2>2 DEF RegisterDest, UploadOK
  <2>4. SourceOK' /\ TreesOK' /\ RequestsOK' /\ BoundsOK'
    BY <1>2 DEF RegisterDest, SourceOK, TreesOK, RequestsOK, BoundsOK
  <2>5. FlagsOK' BY <1>2 DEF RegisterDest, FlagsOK
  <2>6. Named' BY <1>2, <2>2 DEF RegisterDest, Named
  <2> QED BY <2>3, <2>4, <2>5, <2>6
<1>3. CASE FilesChange
  <2>1. SourceOK' BY <1>3, TransferAssumption DEF FilesChange, SourceOK, Version
  <2>2. UploadOK' /\ TreesOK' /\ RequestsOK' /\ BoundsOK' /\ Named'
    BY <1>3 DEF FilesChange, UploadOK, TreesOK, RequestsOK, BoundsOK, Named
  <2>3. FlagsOK' BY <1>3 DEF FilesChange, FlagsOK
  <2> QED BY <2>1, <2>2, <2>3
<1>4. CASE CleanupSource
  <2>1. SourceOK' BY <1>4 DEF CleanupSource, SourceOK, SMeta, SPhase
  <2>2. UploadOK' /\ TreesOK' /\ RequestsOK' /\ BoundsOK'
    BY <1>4 DEF CleanupSource, UploadOK, TreesOK, RequestsOK, BoundsOK
  <2>3. FlagsOK' BY <1>4 DEF CleanupSource, FlagsOK
  <2>4. Named' BY <1>4 DEF CleanupSource, Named, SourceOK, SMeta
  <2> QED BY <2>1, <2>2, <2>3, <2>4
<1>5. CASE CrashSource
  <2>1. SourceOK' /\ UploadOK' /\ TreesOK'
    BY <1>5 DEF CrashSource, EndRequests, SourceOK, UploadOK, TreesOK
  <2>2. RequestsOK' BY <1>5, CopyNil DEF CrashSource, EndRequests, RequestsOK, Place
  <2>3. BoundsOK' BY <1>5, TransferAssumption DEF CrashSource, BoundsOK
  <2>4. FlagsOK' BY <1>5 DEF CrashSource, FlagsOK
  <2>5. Named' BY <1>5 DEF CrashSource, EndRequests, Named
  <2> QED BY <2>1, <2>2, <2>3, <2>4, <2>5
<1>6. CASE CrashDest
  <2>1. SourceOK' /\ UploadOK' /\ TreesOK'
    BY <1>6 DEF CrashDest, EndRequests, SourceOK, UploadOK, TreesOK
  <2>2. RequestsOK' BY <1>6, CopyNil DEF CrashDest, EndRequests, RequestsOK, Place
  <2>3. BoundsOK' BY <1>6, TransferAssumption DEF CrashDest, BoundsOK
  <2>4. FlagsOK' BY <1>6 DEF CrashDest, FlagsOK
  <2>5. Named' BY <1>6 DEF CrashDest, EndRequests, Named
  <2> QED BY <2>1, <2>2, <2>3, <2>4, <2>5
<1> QED BY <1>1, <1>2, <1>3, <1>4, <1>5, <1>6

\* The requests on the source keep the types.
LEMMA SourceType ==
    ASSUME TInv, NEW r \in Requests, SourceStep(r) \/ CancelSource(r) \/ RemoveSource(r)
    PROVE  TInv'
<1> USE DEF TInv, TypeOK, sourceVars, uploadVars, treeVars, reqVars, boundVars, historyVars
<1>1. CASE PrepareSource(r)
  <2>1. SourceOK' BY <1>1 DEF PrepareSource, SourceOK, SPhase, SMeta
  <2>2. RequestsOK'
    BY <1>1 DEF PrepareSource, RequestsOK, Place, Preparing, SourceOK, SMeta, Copy
  <2>3. UploadOK' /\ TreesOK' /\ BoundsOK'
    BY <1>1 DEF PrepareSource, UploadOK, TreesOK, BoundsOK
  <2>4. FlagsOK' BY <1>1 DEF PrepareSource, FlagsOK
  <2>5. Named' BY <1>1 DEF PrepareSource, Named, SourceOK, SMeta, RequestsOK, Copy
  <2> QED BY <2>1, <2>2, <2>3, <2>4, <2>5
<1>2. CASE CreateArchive(r)
  <2>1. SourceOK' /\ UploadOK' /\ TreesOK' /\ BoundsOK'
    BY <1>2 DEF CreateArchive, SourceOK, UploadOK, TreesOK, BoundsOK
  <2>2. RequestsOK' BY <1>2 DEF CreateArchive, Goto, RequestsOK, Place, Preparing
  <2>3. FlagsOK' BY <1>2 DEF CreateArchive, FlagsOK
  <2>4. Named' BY <1>2 DEF CreateArchive, Goto, Named, RequestsOK
  <2> QED BY <2>1, <2>2, <2>3, <2>4
<1>3. CASE RenameArchive(r)
  <2>1. SourceOK' BY <1>3, Values DEF RenameArchive, SourceOK
  <2>2. UploadOK' /\ TreesOK' /\ BoundsOK'
    BY <1>3 DEF RenameArchive, UploadOK, TreesOK, BoundsOK
  <2>3. RequestsOK'
    BY <1>3, Values DEF RenameArchive, Goto, RequestsOK, Place, Preparing, SourceOK, Copy
  <2>4. FlagsOK' BY <1>3 DEF RenameArchive, FlagsOK
  <2>5. Named' BY <1>3 DEF RenameArchive, Goto, Named, RequestsOK, Copy, SourceOK
  <2> QED BY <2>1, <2>2, <2>3, <2>4, <2>5
<1>4. CASE PrepareEnds(r)
  <2>1. smeta' \in SMeta /\ (smeta'.ph = "archived" => smeta'.sum \in Version)
    <3>1. CASE pc[r] = "archived" /\ SaveSource(r, "archived")
      BY <3>1 DEF SaveSource, SMeta, SPhase, RequestsOK, Copy, Named
    <3>2. CASE pc[r] = "unarchived" /\ SaveSource(r, "failed")
      BY <3>2 DEF SaveSource, SMeta, SPhase, RequestsOK, Copy
    <3>3. CASE UNCHANGED smeta
      BY <3>3 DEF SourceOK, Named
    <3> QED BY <1>4, <3>1, <3>2, <3>3 DEF PrepareEnds
  <2>2. SourceOK' BY <1>4, <2>1 DEF PrepareEnds, SourceOK
  <2>3. UploadOK' /\ TreesOK' /\ BoundsOK'
    BY <1>4 DEF PrepareEnds, UploadOK, TreesOK, BoundsOK
  <2>4. RequestsOK' BY <1>4, DoneOK DEF PrepareEnds
  <2>5. FlagsOK' BY <1>4 DEF PrepareEnds, FlagsOK
  <2>6. Named' BY <1>4, <2>1 DEF PrepareEnds, Done, Named, RequestsOK
  <2> QED BY <2>2, <2>3, <2>4, <2>5, <2>6
<1>5. CASE CancelSource(r)
  <2>1. SourceOK' BY <1>5 DEF CancelSource, SourceOK, SPhase, SMeta
  <2>2. UploadOK' /\ TreesOK' BY <1>5 DEF CancelSource, UploadOK, TreesOK
  <2>3. RequestsOK' BY <1>5 DEF CancelSource, RequestsOK, Place
  <2>4. BoundsOK' BY <1>5, TransferAssumption DEF CancelSource, BoundsOK
  <2>5. FlagsOK' BY <1>5 DEF CancelSource, FlagsOK
  <2>6. Named' BY <1>5 DEF CancelSource, Named, SourceOK, SMeta, RequestsOK
  <2> QED BY <2>1, <2>2, <2>3, <2>4, <2>5, <2>6
<1>6. CASE RemoveSource(r)
  <2>1. SourceOK' BY <1>6, MetaAbsent, Values DEF RemoveSource, SourceOK
  <2>2. UploadOK' /\ TreesOK' /\ BoundsOK'
    BY <1>6 DEF RemoveSource, UploadOK, TreesOK, BoundsOK
  <2>3. RequestsOK' BY <1>6, DoneOK DEF RemoveSource
  <2>4. FlagsOK' BY <1>6 DEF RemoveSource, FlagsOK
  <2>5. Named' BY <1>6 DEF RemoveSource, Done, SAbsent, Named, RequestsOK
  <2> QED BY <2>1, <2>2, <2>3, <2>4, <2>5
<1> QED BY <1>1, <1>2, <1>3, <1>4, <1>5, <1>6 DEF SourceStep

\* The upload keeps the types: a piece is written at or before the end of the file.
LEMMA UploadType ==
    ASSUME TInv, NEW r \in Requests, UploadStep(r)
    PROVE  TInv'
<1> USE DEF TInv, TypeOK, sourceVars, uploadVars, treeVars, reqVars, boundVars, historyVars
<1>1. CASE AppendDestination(r)
  <2>1. dmeta' \in DMeta /\ dmeta'.ph = "uploading"
    BY <1>1 DEF AppendDestination, UploadOK, DMeta, DPhase, SourceOK, SMeta
  <2>2. UploadOK' BY <1>1, <2>1 DEF AppendDestination, UploadOK
  <2>3. SourceOK' /\ TreesOK' /\ BoundsOK'
    BY <1>1 DEF AppendDestination, SourceOK, TreesOK, BoundsOK
  <2>4. RequestsOK'
    <3>1. [sum |-> smeta.sum, off |-> dmeta.off] \in Copy
      BY DEF Copy, SourceOK, SMeta, UploadOK, DMeta
    <3>2. CASE pc' = [pc EXCEPT ![r] = "upload"]
      BY <1>1, <3>1, <3>2 DEF AppendDestination, RequestsOK, Place, Uploading
    <3>3. CASE UNCHANGED reqVars
      BY <3>3 DEF RequestsOK
    <3> QED BY <1>1, <3>2, <3>3 DEF AppendDestination
  <2>5. FlagsOK' BY <1>1 DEF AppendDestination, FlagsOK
  <2>6. Named' BY <1>1, <2>1 DEF AppendDestination, Named, RequestsOK, Copy
  <2> QED BY <2>2, <2>3, <2>4, <2>5, <2>6
<1>2. CASE Receive(r)
  <2>1. incoming' \in Seq(Version) /\ Len(incoming') <= Chunks
    <3>1. copy[r].off + 1 \in 1..Chunks /\ copy[r].sum \in Version
      BY <1>2, TransferAssumption DEF Receive, RequestsOK, Copy, Named
    <3> QED BY <1>2, <3>1, WriteType DEF Receive, UploadOK
  <2>2. UploadOK' BY <1>2, <2>1 DEF Receive, UploadOK
  <2>3. SourceOK' /\ TreesOK' /\ BoundsOK'
    BY <1>2 DEF Receive, SourceOK, TreesOK, BoundsOK
  <2>4. RequestsOK' BY <1>2, TransferAssumption DEF Receive, RequestsOK, Copy
  <2>5. FlagsOK' BY <1>2 DEF Receive, FlagsOK
  <2>6. Named' BY <1>2 DEF Receive, Named, RequestsOK, Copy
  <2> QED BY <2>2, <2>3, <2>4, <2>5, <2>6
<1>3. CASE AppendEnds(r)
  <2>1. UNCHANGED dmeta \/ \E ph \in {"uploading", "verified", "failed"} : SaveDest(r, ph)
    BY <1>3 DEF AppendEnds
  <2>2. dmeta' \in DMeta /\ (dmeta'.ph = "absent" => dmeta'.off = 0)
    <3>1. CASE UNCHANGED dmeta BY <3>1 DEF UploadOK, Named
    <3>2. ASSUME NEW ph \in {"uploading", "verified", "restored", "failed"}, SaveDest(r, ph)
          PROVE  dmeta' \in DMeta /\ dmeta'.ph # "absent"
      BY <3>2 DEF SaveDest, DMeta, DPhase, RequestsOK, Copy
    <3> QED BY <2>1, <3>1, <3>2
  <2>3. UploadOK' BY <1>3, <2>2 DEF AppendEnds, UploadOK
  <2>4. SourceOK' /\ TreesOK' /\ BoundsOK'
    BY <1>3 DEF AppendEnds, SourceOK, TreesOK, BoundsOK
  <2>5. RequestsOK' BY <1>3, DoneOK DEF AppendEnds
  <2>6. FlagsOK' BY <1>3 DEF AppendEnds, FlagsOK
  <2>7. Named' BY <1>3, <2>2 DEF AppendEnds, Done, Named, RequestsOK
  <2> QED BY <2>3, <2>4, <2>5, <2>6, <2>7
<1> QED BY <1>1, <1>2, <1>3 DEF UploadStep

\* The restore and the finalization keep the types.
LEMMA RestoreType ==
    ASSUME TInv, NEW r \in Requests, RestoreStep(r) \/ FinalizeDestination(r) \/ Tidy(r)
    PROVE  TInv'
<1> USE DEF TInv, TypeOK, sourceVars, uploadVars, treeVars, reqVars, boundVars, historyVars
<1>1. CASE RestoreDestination(r)
  <2>1. dmeta' \in DMeta /\ dmeta'.ph # "absent"
    BY <1>1 DEF RestoreDestination, UploadOK, DMeta, DPhase
  <2>2. UploadOK' BY <1>1, <2>1 DEF RestoreDestination, UploadOK
  <2>3. SourceOK' /\ BoundsOK' BY <1>1 DEF RestoreDestination, SourceOK, BoundsOK
  <2>4. TreesOK' BY <1>1, Values DEF RestoreDestination, TreesOK
  <2>5. RequestsOK'
    <3>1. [sum |-> dmeta.sum, off |-> dmeta.off] \in Copy BY DEF Copy, UploadOK, DMeta
    <3> QED BY <1>1, <3>1 DEF RestoreDestination, RequestsOK, Place, Restoring
  <2>6. FlagsOK' BY <1>1 DEF RestoreDestination, FlagsOK
  <2>7. Named' BY <1>1, <2>1, Values DEF RestoreDestination, Named, RequestsOK, Copy
  <2> QED BY <2>2, <2>3, <2>4, <2>5, <2>6, <2>7
<1>2. CASE Extract(r)
  <2>1. SourceOK' /\ UploadOK' /\ BoundsOK'
    BY <1>2 DEF Extract, SourceOK, UploadOK, BoundsOK
  <2>2. TreesOK' BY <1>2, Values DEF Extract, TreesOK
  <2>3. RequestsOK' BY <1>2 DEF Extract, Goto, RequestsOK, Place, Restoring
  <2>4. FlagsOK' BY <1>2 DEF Extract, FlagsOK
  <2>5. Named' BY <1>2, Values DEF Extract, Goto, Named, RequestsOK
  <2> QED BY <2>1, <2>2, <2>3, <2>4, <2>5
<1>3. CASE SwapOut(r)
  <2>1. SourceOK' /\ UploadOK' /\ BoundsOK'
    BY <1>3 DEF SwapOut, SourceOK, UploadOK, BoundsOK
  <2>2. TreesOK' BY <1>3, Values DEF SwapOut, TreesOK
  <2>3. RequestsOK' BY <1>3 DEF SwapOut, Goto, RequestsOK, Place, Restoring, Swapping
  <2>4. FlagsOK' BY <1>3 DEF SwapOut, FlagsOK
  <2>5. Named' BY <1>3, Values DEF SwapOut, Goto, Named, RequestsOK
  <2> QED BY <2>1, <2>2, <2>3, <2>4, <2>5
<1>4. CASE SwapIn(r)
  <2>1. SourceOK' /\ UploadOK' /\ BoundsOK'
    BY <1>4 DEF SwapIn, SourceOK, UploadOK, BoundsOK
  <2>2. TreesOK' BY <1>4, Values DEF SwapIn, TreesOK
  <2>3. RequestsOK' BY <1>4 DEF SwapIn, Goto, RequestsOK, Place, Restoring, Swapping
  <2>4. FlagsOK' BY <1>4 DEF SwapIn, FlagsOK
  <2>5. Named' BY <1>4, Values DEF SwapIn, Goto, Named, RequestsOK
  <2> QED BY <2>1, <2>2, <2>3, <2>4, <2>5
<1>5. CASE RestoreEnds(r)
  <2>1. UNCHANGED dmeta \/ \E ph \in {"restored", "failed"} : SaveDest(r, ph)
    BY <1>5 DEF RestoreEnds
  <2>2. dmeta' \in DMeta /\ (dmeta'.ph = "absent" => dmeta'.off = 0)
    <3>1. CASE UNCHANGED dmeta BY <3>1 DEF UploadOK, Named
    <3>2. ASSUME NEW ph \in {"uploading", "verified", "restored", "failed"}, SaveDest(r, ph)
          PROVE  dmeta' \in DMeta /\ dmeta'.ph # "absent"
      BY <3>2 DEF SaveDest, DMeta, DPhase, RequestsOK, Copy
    <3> QED BY <2>1, <3>1, <3>2
  <2>3. UploadOK'
    <3>1. CASE incoming' = <<>> /\ linked' = {}
      BY <1>5, <2>2, <3>1, TransferAssumption DEF RestoreEnds, UploadOK
    <3>2. CASE UNCHANGED <<incoming, linked>>
      BY <1>5, <2>2, <3>2 DEF RestoreEnds, UploadOK
    <3> QED BY <1>5, <3>1, <3>2 DEF RestoreEnds
  <2>4. SourceOK' /\ TreesOK' /\ BoundsOK'
    BY <1>5 DEF RestoreEnds, SourceOK, TreesOK, BoundsOK
  <2>5. RequestsOK' BY <1>5, DoneOK DEF RestoreEnds
  <2>6. FlagsOK' BY <1>5 DEF RestoreEnds, FlagsOK
  <2>7. Named' BY <1>5, <2>2 DEF RestoreEnds, Done, Named, RequestsOK
  <2> QED BY <2>3, <2>4, <2>5, <2>6, <2>7
<1>6. CASE FinalizeDestination(r)
  <2>1. dmeta' \in DMeta /\ dmeta'.ph = "activated"
    BY <1>6 DEF FinalizeDestination, UploadOK, DMeta, DPhase
  <2>2. UploadOK' BY <1>6, <2>1 DEF FinalizeDestination, UploadOK
  <2>3. SourceOK' /\ TreesOK' /\ BoundsOK'
    BY <1>6 DEF FinalizeDestination, SourceOK, TreesOK, BoundsOK
  <2>4. RequestsOK' BY <1>6 DEF FinalizeDestination, Goto, RequestsOK, Place
  <2>5. FlagsOK' BY <1>6 DEF FinalizeDestination, FlagsOK
  <2>6. Named' BY <1>6, <2>1 DEF FinalizeDestination, Goto, Named, RequestsOK
  <2> QED BY <2>2, <2>3, <2>4, <2>5, <2>6
<1>7. CASE Tidy(r)
  <2>1. SourceOK' /\ BoundsOK' BY <1>7 DEF Tidy, SourceOK, BoundsOK
  <2>2. UploadOK' BY <1>7, TransferAssumption DEF Tidy, UploadOK
  <2>3. TreesOK' BY <1>7, Values DEF Tidy, TreesOK
  <2>4. RequestsOK' BY <1>7, DoneOK DEF Tidy
  <2>5. FlagsOK' BY <1>7 DEF Tidy, FlagsOK
  <2>6. Named' BY <1>7, Values DEF Tidy, Done, Named, RequestsOK
  <2> QED BY <2>1, <2>2, <2>3, <2>4, <2>5, <2>6
<1> QED BY <1>1, <1>2, <1>3, <1>4, <1>5, <1>6, <1>7 DEF RestoreStep

\* Cancel on the destination keeps the types.
LEMMA CancelType ==
    ASSUME TInv, NEW r \in Requests, CancelDest(r) \/ Rollback(r) \/ RollbackIn(r) \/ RemoveDest(r)
    PROVE  TInv'
<1> USE DEF TInv, TypeOK, sourceVars, uploadVars, treeVars, reqVars, boundVars, historyVars
<1>1. CASE CancelDest(r)
  <2>1. dmeta' \in DMeta /\ (dmeta'.ph = "absent" => dmeta'.off = 0)
    BY <1>1 DEF CancelDest, UploadOK, DMeta, DPhase, Named
  <2>2. UploadOK' BY <1>1, <2>1 DEF CancelDest, UploadOK
  <2>3. SourceOK' /\ TreesOK' BY <1>1 DEF CancelDest, SourceOK, TreesOK
  <2>4. BoundsOK' BY <1>1, TransferAssumption DEF CancelDest, BoundsOK
  <2>5. RequestsOK' BY <1>1 DEF CancelDest, RequestsOK, Place, Cancelling
  <2>6. FlagsOK' BY <1>1 DEF CancelDest, FlagsOK
  <2>7. Named' BY <1>1, <2>1 DEF CancelDest, Named, RequestsOK
  <2> QED BY <2>2, <2>3, <2>4, <2>5, <2>6, <2>7
<1>2. CASE Rollback(r)
  <2>1. SourceOK' /\ UploadOK' /\ BoundsOK'
    BY <1>2 DEF Rollback, SourceOK, UploadOK, BoundsOK
  <2>2. TreesOK' BY <1>2, Values DEF Rollback, TreesOK
  <2>3. RequestsOK'
    <3>1. CASE Done(r) BY <3>1, DoneOK
    <3>2. CASE ~Done(r) BY <1>2, <3>2 DEF Rollback, Goto, RequestsOK, Place, Cancelling
    <3> QED BY <3>1, <3>2
  <2>4. FlagsOK' BY <1>2 DEF Rollback, FlagsOK
  <2>5. Named' BY <1>2, Values DEF Rollback, Goto, Done, Named, RequestsOK
  <2> QED BY <2>1, <2>2, <2>3, <2>4, <2>5
<1>3. CASE RollbackIn(r)
  <2>1. SourceOK' /\ UploadOK' /\ BoundsOK'
    BY <1>3 DEF RollbackIn, SourceOK, UploadOK, BoundsOK
  <2>2. TreesOK' BY <1>3, Values DEF RollbackIn, TreesOK
  <2>3. RequestsOK'
    <3>1. CASE Done(r) BY <3>1, DoneOK
    <3>2. CASE ~Done(r) BY <1>3, <3>2 DEF RollbackIn, Goto, RequestsOK, Place, Cancelling
    <3> QED BY <3>1, <3>2
  <2>4. FlagsOK' BY <1>3 DEF RollbackIn, FlagsOK
  <2>5. Named' BY <1>3, Values DEF RollbackIn, Goto, Done, Named, RequestsOK
  <2> QED BY <2>1, <2>2, <2>3, <2>4, <2>5
<1>4. CASE RemoveDest(r)
  <2>1. SourceOK' /\ BoundsOK' BY <1>4 DEF RemoveDest, SourceOK, BoundsOK
  <2>2. UploadOK' BY <1>4, MetaAbsent, TransferAssumption DEF RemoveDest, UploadOK
  <2>3. TreesOK' BY <1>4, Values DEF RemoveDest, TreesOK
  <2>4. RequestsOK' BY <1>4, DoneOK DEF RemoveDest
  <2>5. FlagsOK' BY <1>4 DEF RemoveDest, FlagsOK
  <2>6. Named' BY <1>4, Values DEF RemoveDest, DAbsent, Done, Named, RequestsOK
  <2> QED BY <2>1, <2>2, <2>3, <2>4, <2>5, <2>6
<1> QED BY <1>1, <1>2, <1>3, <1>4

\* Every step keeps the types.
LEMMA StepType == TInv /\ [Next]_vars => TInv'
<1> SUFFICES ASSUME TInv, [Next]_vars PROVE TInv'
  OBVIOUS
<1>1. CASE RegisterSource \/ RegisterDest \/ FilesChange \/ CleanupSource \/ CrashSource \/ CrashDest
  BY <1>1, EngineType
<1>2. CASE \E r \in Requests : SourceStep(r) \/ CancelSource(r) \/ RemoveSource(r)
  BY <1>2, SourceType
<1>3. CASE \E r \in Requests : UploadStep(r)
  BY <1>3, UploadType
<1>4. CASE \E r \in Requests : RestoreStep(r) \/ FinalizeDestination(r) \/ Tidy(r)
  BY <1>4, RestoreType
<1>5. CASE \E r \in Requests : CancelDest(r) \/ Rollback(r) \/ RollbackIn(r) \/ RemoveDest(r)
  BY <1>5, CancelType
<1>6. CASE UNCHANGED vars
  <2> USE <1>6 DEF vars, sourceVars, uploadVars, treeVars, reqVars, boundVars, historyVars
  <2>1. SourceOK' = SourceOK /\ UploadOK' = UploadOK BY DEF SourceOK, UploadOK
  <2>2. TreesOK' = TreesOK /\ RequestsOK' = RequestsOK BY DEF TreesOK, RequestsOK
  <2>3. BoundsOK' = BoundsOK /\ FlagsOK' = FlagsOK BY DEF BoundsOK, FlagsOK
  <2>4. Named' = Named BY DEF Named
  <2> QED BY <2>1, <2>2, <2>3, <2>4 DEF TInv, TypeOK
<1> QED BY <1>1, <1>2, <1>3, <1>4, <1>5, <1>6 DEF Next, CancelStep

\* TypeOK with what makes it inductive.
THEOREM TypesHold == Spec => []TInv
BY InitType, StepType, PTL DEF Spec

\* The metadata, the archives, the directories and the requests keep their types; in
\* particular an upload never grows past the archive that was announced, also after
\* Cancel has met a request at work.
THEOREM TypeCorrect == Spec => []TypeOK
<1>1. TInv => TypeOK BY DEF TInv
<1> QED BY <1>1, TypesHold, PTL

-----------------------------------------------------------------------------
(* Frames *)

\* A step that leaves the destination and its requests alone.
LEMMA DestFrame ==
    ASSUME DestInv, UNCHANGED <<dmeta, incoming, dactive, treeVars, lost>>,
           \A q \in Requests : pc[q] \in DestPlaces \/ pc'[q] \in DestPlaces
                => /\ pc'[q] = pc[q] /\ copy'[q] = copy[q]
                   /\ q \in linked => q \in linked'
    PROVE  DestInv'
<1> USE DEF DestInv, DestPlaces, treeVars, Torn
<1>1. Owners' BY DEF Owners, Uploading, Restoring, Cancelling
<1>2. Copies' BY DEF Copies, Uploading, Restoring
<1>3. Bytes' BY DEF Bytes, Uploading, Whole
<1>4. Trees' BY DEF Trees, Restoring, Swapping
<1>5. Aside' BY DEF Aside, Restoring, Swapping, Cancelling
<1>6. Installed' BY DEF Installed, Cancelling
<1> QED BY <1>1, <1>2, <1>3, <1>4, <1>5, <1>6

\* A step that leaves the source and its requests alone.
LEMMA SourceFrame ==
    ASSUME SourceInv, UNCHANGED <<smeta, archive, sactive>>,
           \A q \in Requests : pc[q] \in Preparing \/ pc'[q] \in Preparing
                => pc'[q] = pc[q] /\ copy'[q] = copy[q]
    PROVE  SourceInv'
BY DEF SourceInv, Preparing

-----------------------------------------------------------------------------
(* The source *)

\* A request of the destination neither starts nor ends an archive.
LEMMA DestStepsFrame ==
    ASSUME TInv, NEW r \in Requests,
           UploadStep(r) \/ RestoreStep(r) \/ FinalizeDestination(r) \/ Tidy(r) \/ CancelDest(r)
           \/ Rollback(r) \/ RollbackIn(r) \/ RemoveDest(r)
    PROVE  /\ UNCHANGED <<smeta, archive, sactive>>
           /\ \A q \in Requests : pc[q] \in Preparing \/ pc'[q] \in Preparing
                => pc'[q] = pc[q] /\ copy'[q] = copy[q]
<1> USE DEF TInv, TypeOK, RequestsOK, sourceVars, reqVars, Preparing
<1>1. CASE UploadStep(r)
  BY <1>1 DEF UploadStep, AppendDestination, Receive, AppendEnds, Done
<1>2. CASE RestoreStep(r)
  BY <1>2 DEF RestoreStep, RestoreDestination, Extract, SwapOut, SwapIn, RestoreEnds, Done, Goto
<1>3. CASE FinalizeDestination(r) \/ Tidy(r)
  BY <1>3 DEF FinalizeDestination, Tidy, Done, Goto
<1>4. CASE CancelDest(r) \/ Rollback(r) \/ RollbackIn(r) \/ RemoveDest(r)
  BY <1>4 DEF CancelDest, Rollback, RollbackIn, RemoveDest, Done, Goto
<1> QED BY <1>1, <1>2, <1>3, <1>4

\* PrepareSource: the one that is registered renames, then announces.
LEMMA SourceStepSafe ==
    ASSUME TInv, SourceInv, NEW r \in Requests, SourceStep(r)
    PROVE  SourceInv'
<1> USE DEF TInv, TypeOK, RequestsOK, SourceOK
<1>1. CASE PrepareSource(r)
  <2>1. smeta'.ph = "archiving" BY <1>1 DEF PrepareSource, SMeta
  <2>2. \A q \in Requests : pc[q] \notin Preparing
    BY <1>1, TransferAssumption DEF PrepareSource, SourceInv
  <2> QED BY <1>1, <2>1, <2>2 DEF PrepareSource, SourceInv, Preparing, reqVars
<1>2. CASE CreateArchive(r)
  BY <1>2 DEF CreateArchive, Goto, SourceInv, Preparing
<1>3. CASE RenameArchive(r)
  BY <1>3 DEF RenameArchive, Goto, SourceInv, Preparing, Copy
<1>4. CASE PrepareEnds(r)
  <2>1. smeta'.ph = "archived" => archive' = smeta'.sum
    BY <1>4 DEF PrepareEnds, SaveSource, SourceInv
  <2>2. \A q \in Requests : pc'[q] \notin Preparing
    BY <1>4 DEF PrepareEnds, Done, SourceInv, Preparing
  <2> QED BY <2>1, <2>2 DEF SourceInv, Preparing
<1> QED BY <1>1, <1>2, <1>3, <1>4 DEF SourceStep

\* Every step keeps SourceInv as long as Cancel meets no request at work.
LEMMA SourceSafe ==
    ASSUME TInv, SourceInv, [Next]_vars, ~overtaken'
    PROVE  SourceInv'
<1> USE DEF TInv, TypeOK
<1>1. CASE RegisterSource
  <2>1. smeta'.ph = "archived" => smeta.ph = "archived" /\ smeta'.sum = smeta.sum
    <3>1. /\ [smeta EXCEPT !.used = FALSE].ph = smeta.ph
          /\ [smeta EXCEPT !.used = FALSE].sum = smeta.sum
      BY DEF SourceOK, SMeta
    <3> QED BY <1>1, <3>1, Fresh DEF RegisterSource
  <2> QED BY <1>1, <2>1 DEF RegisterSource, SourceInv, reqVars
<1>2. CASE RegisterDest \/ FilesChange
  BY <1>2, SourceFrame DEF RegisterDest, FilesChange, reqVars, sourceVars
<1>3. CASE CleanupSource
  <2>1. smeta'.ph = "cleaned" BY <1>3 DEF CleanupSource, SourceOK, SMeta
  <2> QED BY <1>3, <2>1 DEF CleanupSource, SourceInv, reqVars
<1>4. CASE CrashSource
  <2>1. \A q \in Requests : pc'[q] \notin Preparing
    BY <1>4 DEF CrashSource, EndRequests, AtWork, Preparing
  <2> QED BY <1>4, <2>1 DEF CrashSource, SourceInv, Preparing
<1>5. CASE CrashDest
  BY <1>5, SourceFrame
     DEF CrashDest, EndRequests, AtWork, sourceVars, Preparing, Uploading, Restoring,
         Swapping, Cancelling
<1>6. CASE \E r \in Requests : SourceStep(r)
  BY <1>6, SourceStepSafe
<1>7. CASE \E r \in Requests : CancelSource(r)
  <2> PICK r \in Requests : CancelSource(r) BY <1>7
  <2>1. smeta'.ph = "archived" => smeta' = smeta /\ archive' = archive
    BY DEF CancelSource, SourceOK, SMeta
  <2>2. \A q \in Requests : pc'[q] \notin Preparing
    BY DEF CancelSource, AtWork, RequestsOK, Preparing
  <2> QED BY <2>1, <2>2 DEF SourceInv, Preparing
<1>8. CASE \E r \in Requests : RemoveSource(r)
  <2> PICK r \in Requests : RemoveSource(r) BY <1>8
  <2>1. smeta'.ph = "absent" BY DEF RemoveSource, SAbsent
  <2>2. \A q \in Requests : pc'[q] \notin Preparing
    BY DEF RemoveSource, Done, AtWork, RequestsOK, Preparing
  <2> QED BY <2>1, <2>2 DEF SourceInv, Preparing
<1>9. CASE \E r \in Requests :
             UploadStep(r) \/ RestoreStep(r) \/ FinalizeDestination(r) \/ Tidy(r) \/ CancelDest(r)
             \/ Rollback(r) \/ RollbackIn(r) \/ RemoveDest(r)
  BY <1>9, DestStepsFrame, SourceFrame
<1>10. CASE UNCHANGED vars
  BY <1>10, SourceFrame DEF vars, sourceVars, reqVars
<1> QED
  BY <1>1, <1>2, <1>3, <1>4, <1>5, <1>6, <1>7, <1>8, <1>9, <1>10 DEF Next, CancelStep

-----------------------------------------------------------------------------
(* The destination *)

\* A request of the source does nothing to the destination.
LEMMA SourceStepsFrame ==
    ASSUME TInv, NEW r \in Requests, SourceStep(r) \/ CancelSource(r) \/ RemoveSource(r)
    PROVE  /\ UNCHANGED <<dmeta, incoming, dactive, treeVars, lost, linked>>
           /\ \A q \in Requests : pc[q] \in DestPlaces \/ pc'[q] \in DestPlaces
                => pc'[q] = pc[q] /\ copy'[q] = copy[q]
<1> USE DEF TInv, TypeOK, RequestsOK, uploadVars, reqVars, historyVars, DestPlaces, Uploading,
            Restoring, Swapping, Cancelling
<1>1. CASE PrepareSource(r) \/ CreateArchive(r)
  BY <1>1 DEF PrepareSource, CreateArchive, Goto
<1>2. CASE RenameArchive(r) \/ PrepareEnds(r)
  BY <1>2 DEF RenameArchive, PrepareEnds, Goto, Done
<1>3. CASE CancelSource(r) \/ RemoveSource(r)
  BY <1>3 DEF CancelSource, RemoveSource, Done
<1> QED BY <1>1, <1>2, <1>3 DEF SourceStep

\* The checksum of a verified archive names a version.
LEMMA VerifiedSum ==
    ASSUME TInv, Bytes, dmeta.ph \in {"verified", "restoring"}
    PROVE  dmeta.sum \in Version
<1>1. Len(incoming) = Chunks /\ incoming[1] = dmeta.sum /\ 1 \in 1..Len(incoming)
  BY TransferAssumption DEF Bytes, Whole
<1> QED BY <1>1 DEF TInv, TypeOK, UploadOK

\* Register renews the credential of a transfer or begins one from nothing.
LEMMA RegisterDestSafe ==
    ASSUME TInv, DestInv, RegisterDest, ~overtaken'
    PROVE  DestInv'
<1> USE DEF TInv, TypeOK, DestInv, Torn
<1>1. dmeta.ph # "cancelled" BY DEF RegisterDest
<1>2. CASE dmeta.ph = "absent"
  <2>1. dmeta'.ph = "authorized" /\ dmeta'.off = 0 BY <1>2, Fresh DEF RegisterDest
  <2>2. \A q \in Requests : pc[q] \notin DestPlaces
    BY <1>2 DEF Owners, DestPlaces
  <2>3. pc' = pc /\ dmeta.off = 0 /\ UNCHANGED <<incoming, treeVars, lost>>
    BY <1>2 DEF RegisterDest, reqVars, Named
  <2>4. Owners' /\ Copies' BY <2>1, <2>2, <2>3 DEF Owners, Copies, DestPlaces, Uploading, Restoring, Cancelling
  <2>5. Bytes' BY <1>2, <2>1, <2>2, <2>3 DEF Bytes, Over, DestPlaces
  <2>6. Trees' BY <1>2, <2>1, <2>2, <2>3 DEF Trees, Over, DestPlaces, Restoring, Swapping, treeVars
  <2>7. Aside' BY <1>2, <2>1, <2>2, <2>3 DEF Aside, Over, DestPlaces, Restoring, Cancelling, treeVars
  <2>8. Installed' BY <2>1, <2>2, <2>3 DEF Installed, DestPlaces, Cancelling
  <2> QED BY <2>4, <2>5, <2>6, <2>7, <2>8
<1>3. CASE dmeta.ph # "absent"
  <2>1. dmeta'.ph = dmeta.ph /\ dmeta'.off = dmeta.off /\ dmeta'.sum = dmeta.sum
    BY <1>3 DEF RegisterDest, UploadOK, DMeta
  <2>2. UNCHANGED <<pc, copy, incoming, dactive, linked, treeVars, lost>>
    BY DEF RegisterDest, reqVars
  <2>3. Owners' BY <1>1, <2>1, <2>2 DEF Owners
  <2>4. Copies' BY <2>1, <2>2 DEF Copies
  <2>5. Bytes' BY <2>1, <2>2 DEF Bytes, Whole
  <2>6. Trees' BY <2>1, <2>2 DEF Trees, treeVars
  <2>7. Aside' BY <2>1, <2>2 DEF Aside, treeVars
  <2>8. Installed' BY <2>1, <2>2 DEF Installed, treeVars
  <2> QED BY <2>3, <2>4, <2>5, <2>6, <2>7, <2>8
<1> QED BY <1>2, <1>3

\* The daemon of the destination ends, and its requests with it.
LEMMA CrashDestSafe ==
    ASSUME TInv, DestInv, CrashDest
    PROVE  DestInv'
<1> USE DEF TInv, TypeOK, RequestsOK, DestInv
<1>1. \A q \in Requests : pc'[q] \notin DestPlaces
  BY DEF CrashDest, EndRequests, AtWork, DestPlaces, Uploading, Restoring, Swapping, Cancelling
<1>2. "offset" \notin lost' => "offset" \notin lost /\ \A q \in Requests : pc[q] \notin Uploading
  BY DEF CrashDest, AtWork
<1>3. ~Torn' => ~Torn /\ \A q \in Requests : pc[q] \notin Swapping
  BY DEF CrashDest, AtWork, Torn
<1>4. UNCHANGED <<dmeta, incoming, treeVars>>
  BY DEF CrashDest
<1>5. Owners' /\ Copies'
  BY <1>1, <1>4 DEF Owners, Copies, DestPlaces, Cancelling
<1>6. Bytes' BY <1>1, <1>2, <1>4 DEF Bytes, DestPlaces, Whole
<1>7. Trees' BY <1>1, <1>4 DEF Trees, DestPlaces, Restoring, Swapping, treeVars
<1>8. Aside' BY <1>1, <1>3, <1>4 DEF Aside, DestPlaces, Restoring, Cancelling, treeVars
<1>9. Installed' BY <1>1, <1>3, <1>4 DEF Installed, DestPlaces, Cancelling, treeVars
<1> QED BY <1>5, <1>6, <1>7, <1>8, <1>9

\* AppendDestination: the file ends where the request is, and that is what it saves.
LEMMA UploadSafe ==
    ASSUME TInv, DestInv, NEW r \in Requests, UploadStep(r), ~overtaken'
    PROVE  DestInv'
<1> USE DEF TInv, TypeOK, RequestsOK, UploadOK, DestInv
<1>1. CASE AppendDestination(r)
  <2>1. /\ dmeta'.ph = "uploading" /\ dmeta'.sum = smeta.sum /\ dmeta'.off = dmeta.off
        /\ dmeta.ph \notin Over \cup {"absent"} /\ pc[r] = "idle"
    BY <1>1 DEF AppendDestination, Authorized, DMeta, Over, Owners
  <2>2. UNCHANGED <<incoming, treeVars, lost>> BY <1>1 DEF AppendDestination
  <2>3. \A q \in Requests : pc[q] \notin DestPlaces
    <3>1. AtWork(Cancelling) = {} BY <1>1 DEF AppendDestination
    <3>2. \A q \in Requests : pc[q] \notin Cancelling BY <3>1 DEF AtWork
    <3> QED BY <1>1, <2>1, <3>2, TransferAssumption DEF AppendDestination, Owners, DestPlaces, Over
  <2>4. (~Torn => previous = NoTree) /\ discarded = NoTree /\ Torn' = Torn
    BY <2>1, <2>2, <2>3 DEF Aside, Trees, DestPlaces, Restoring, Torn
  <2>5. dmeta.off <= Len(incoming) /\ ("offset" \notin lost => Len(incoming) = dmeta.off)
    BY <2>1, <2>3 DEF Bytes, DestPlaces
  <2>6. CASE UNCHANGED <<dactive, linked, reqVars>>
    <3>1. UNCHANGED <<pc, copy>> BY <2>6 DEF reqVars
    <3>2. Owners' /\ Copies' BY <2>1, <2>3, <3>1 DEF Owners, Copies, DestPlaces, Cancelling
    <3>3. Bytes' BY <2>1, <2>2, <2>5 DEF Bytes
    <3>4. Trees' BY <2>1, <2>2, <2>3, <2>4, <3>1 DEF Trees, DestPlaces, Restoring, Swapping, treeVars
    <3>5. Aside' /\ Installed'
      BY <2>1, <2>2, <2>4, <2>3, <3>1 DEF Aside, Installed, DestPlaces, Cancelling, treeVars
    <3> QED BY <3>2, <3>3, <3>4, <3>5
  <2>7. CASE ~UNCHANGED <<dactive, linked, reqVars>>
    <3>1. /\ dactive' = r /\ linked' = linked \cup {r} /\ pc' = [pc EXCEPT ![r] = "upload"]
          /\ copy' = [copy EXCEPT ![r] = [sum |-> smeta.sum, off |-> dmeta.off]]
          /\ Len(incoming) = dmeta.off
      BY <1>1, <2>7 DEF AppendDestination
    <3>2. \A q \in Requests : pc'[q] \in DestPlaces => q = r /\ pc'[q] = "upload"
      BY <2>3, <3>1
    <3>3. Owners' BY <2>1, <3>1, <3>2 DEF Owners, DestPlaces, Uploading, Restoring, Swapping, Cancelling
    <3>4. Copies' BY <2>1, <2>2, <3>1, <3>2 DEF Copies, DestPlaces, Uploading, Restoring, Swapping
    <3>5. Bytes' BY <2>1, <2>2, <3>1 DEF Bytes, Uploading
    <3>6. Trees' BY <2>1, <2>2, <2>4, <3>2 DEF Trees, DestPlaces, Restoring, Swapping, treeVars
    <3>7. Aside' /\ Installed'
      BY <2>1, <2>2, <2>4, <3>2 DEF Aside, Installed, DestPlaces, Cancelling, treeVars
    <3> QED BY <3>3, <3>4, <3>5, <3>6, <3>7
  <2> QED BY <2>6, <2>7
<1>2. CASE Receive(r)
  <2>1. /\ pc[r] = "upload" /\ r \in linked /\ dmeta.ph = "uploading"
        /\ copy[r].off = Len(incoming) /\ copy[r].sum \in Version /\ dmeta.off <= Len(incoming)
    BY <1>2 DEF Receive, Owners, Copies, Uploading, Named, Bytes, Over
  <2>2. Len(incoming') = Len(incoming) + 1
    <3>1. ~(copy[r].off + 1 <= Len(incoming)) BY <2>1
    <3>2. incoming' = Append(incoming, copy[r].sum) BY <1>2, <2>1, <3>1 DEF Receive
    <3> QED BY <2>1, <3>2
  <2>3. /\ copy' = [copy EXCEPT ![r].off = Len(incoming) + 1]
        /\ UNCHANGED <<dmeta, dactive, linked, treeVars, pc, lost>>
    BY <1>2, <2>1 DEF Receive, historyVars
  <2>4. \A q \in Requests : pc[q] \in Uploading \cup Restoring => q = r
    BY <2>1 DEF Owners, Uploading
  <2>5. Owners' BY <2>3 DEF Owners
  <2>6. Copies'
    BY <2>1, <2>2, <2>3, <2>4 DEF Copies, Copy, Uploading, Restoring, Swapping
  <2>7. Bytes' BY <2>1, <2>2, <2>3, TransferAssumption DEF Bytes, Uploading, DMeta
  <2>8. Trees' /\ Aside' /\ Installed' BY <2>3 DEF Trees, Aside, Installed, Torn, treeVars
  <2> QED BY <2>5, <2>6, <2>7, <2>8
<1>3. CASE AppendEnds(r)
  <2>1. /\ pc[r] = "upload" /\ dmeta.ph = "uploading"
        /\ copy[r].off = Len(incoming) /\ dmeta.off <= Len(incoming)
    BY <1>3 DEF AppendEnds, Owners, Copies, Uploading, Bytes, Over
  <2>2. /\ dmeta'.ph \in {"uploading", "verified", "failed"}
        /\ dmeta'.ph = "verified" => Whole(incoming, dmeta'.sum)
        /\ dmeta'.off <= Len(incoming)
        /\ "offset" \notin lost' => dmeta'.off = Len(incoming)
    BY <1>3, <2>1 DEF AppendEnds, SaveDest
  <2>3. UNCHANGED <<incoming, treeVars>> /\ pc' = [pc EXCEPT ![r] = "idle"] /\ Torn' = Torn
    BY <1>3 DEF AppendEnds, Done, Torn
  <2>4. \A q \in Requests : pc'[q] \notin DestPlaces
    <3>1. "idle" \notin DestPlaces
      BY DEF DestPlaces, Uploading, Restoring, Swapping, Cancelling
    <3>2. \A q \in Requests : q # r => pc[q] \notin Cancelling
      BY <2>1 DEF Owners, DestPlaces, Uploading
    <3>3. \A q \in Requests : q # r => pc[q] \notin Uploading \cup Restoring
      BY <2>1 DEF Owners, Uploading
    <3>4. \A q \in Requests : pc[q] # "tidy" BY <2>1 DEF Owners
    <3> QED BY <2>3, <3>1, <3>2, <3>3, <3>4 DEF DestPlaces
  <2>5. (~Torn => previous = NoTree) /\ discarded = NoTree
    BY <2>1 DEF Aside, Trees, Over, Owners, Restoring
  <2>6. Owners' /\ Copies' BY <2>2, <2>4 DEF Owners, Copies, DestPlaces, Cancelling
  <2>7. Bytes' BY <2>2, <2>3 DEF Bytes, Whole
  <2>8. Trees' BY <2>2, <2>3, <2>4, <2>5 DEF Trees, DestPlaces, Restoring, Swapping, treeVars
  <2>9. Aside' /\ Installed'
    BY <2>2, <2>3, <2>4, <2>5 DEF Aside, Installed, DestPlaces, Cancelling, treeVars
  <2> QED BY <2>6, <2>7, <2>8, <2>9
<1> QED BY <1>1, <1>2, <1>3 DEF UploadStep

\* A request that restores is alone on the destination.
LEMMA RestorerAlone ==
    ASSUME Owners, NEW r \in Requests, pc[r] \in Restoring
    PROVE  /\ dmeta.ph \in {"verified", "restoring"}
           /\ \A q \in Requests : pc[q] \in DestPlaces => q = r
<1>1. dmeta.ph \in {"verified", "restoring"} BY DEF Owners
<1>2. ASSUME NEW q \in Requests, pc[q] \in DestPlaces PROVE q = r
  <2>1. CASE pc[q] \in Cancelling BY <2>1 DEF Owners, DestPlaces
  <2>2. CASE pc[q] \in Uploading \cup Restoring BY <2>2 DEF Owners
  <2>3. CASE pc[q] = "tidy" BY <1>1, <2>3 DEF Owners
  <2> QED BY <1>2, <2>1, <2>2, <2>3 DEF DestPlaces
<1> QED BY <1>1, <1>2

\* So is a request that cancels.
LEMMA CancellerAlone ==
    ASSUME Owners, NEW r \in Requests, pc[r] \in Cancelling
    PROVE  /\ dmeta.ph # "absent"
           /\ \A q \in Requests : pc[q] \in DestPlaces => q = r
BY DEF Owners, DestPlaces

\* A whole archive is the archive of one version.
LEMMA WholeOnce ==
    ASSUME NEW s, NEW u, NEW v, Whole(s, u), Whole(s, v)
    PROVE  u = v
<1>1. 1 \in 1..Chunks BY TransferAssumption
<1> QED BY <1>1 DEF Whole

\* A step of the restoring request that moves directories only.
LEMMA RestoreMoves ==
    ASSUME TInv, DestInv, NEW r \in Requests, pc[r] \in Restoring, NEW next \in Restoring,
           Goto(r, next), UNCHANGED uploadVars, "offset" \in lost => "offset" \in lost',
           Trees', Aside'
    PROVE  DestInv'
<1> USE DEF TInv, TypeOK, RequestsOK, DestInv, Goto, uploadVars
<1>1. /\ dmeta.ph \in {"verified", "restoring"}
      /\ \A q \in Requests : pc[q] \in DestPlaces => q = r
  BY RestorerAlone
<1>2. \A q \in Requests : q # r => pc'[q] = pc[q] /\ pc'[q] \notin DestPlaces
  BY <1>1
<1>3. pc'[r] = next /\ next \notin Uploading \cup Cancelling \cup {"tidy"}
  BY DEF Restoring, Swapping, Uploading, Cancelling
<1>4. Owners' BY <1>1, <1>2, <1>3 DEF Owners, DestPlaces, Cancelling
<1>5. Copies' BY <1>1, <1>2, <1>3 DEF Copies, DestPlaces
<1>6. Bytes'
  <2>1. pc[r] \notin Uploading BY DEF Restoring, Swapping, Uploading
  <2>2. \A q \in Requests : pc[q] \notin Uploading BY <1>1, <2>1 DEF DestPlaces
  <2> QED BY <1>1, <2>2 DEF Bytes, Whole
<1>7. Installed' BY <1>1, <1>2, <1>3 DEF Installed, DestPlaces, Cancelling
<1> QED BY <1>4, <1>5, <1>6, <1>7

\* RestoreDestination, from the extraction to the two renames and the last save.
LEMMA RestoreSafe ==
    ASSUME TInv, DestInv, NEW r \in Requests, RestoreStep(r), ~overtaken'
    PROVE  DestInv'
<1> USE DEF TInv, TypeOK, RequestsOK, UploadOK, DestInv
<1>1. CASE RestoreDestination(r)
  <2>1. /\ dmeta'.ph \in {"verified", "restoring"} /\ dmeta'.sum = dmeta.sum
        /\ dmeta'.off = dmeta.off
        /\ dmeta.ph = "verified" /\ pc[r] = "idle" /\ dactive' = r
        /\ pc' = [pc EXCEPT ![r] = "extract"]
        /\ copy' = [copy EXCEPT ![r] = [sum |-> dmeta.sum, off |-> dmeta.off]]
    BY <1>1 DEF RestoreDestination, DMeta
  <2>2. UNCHANGED <<incoming, linked, previous, canonical, discarded, lost>>
    BY <1>1 DEF RestoreDestination
  <2>3. \A q \in Requests : pc[q] \notin DestPlaces
    <3>1. AtWork(Cancelling) = {} BY <1>1 DEF RestoreDestination
    <3>2. \A q \in Requests : pc[q] \notin Cancelling BY <3>1 DEF AtWork
    <3> QED BY <1>1, <2>1, <3>2, TransferAssumption DEF RestoreDestination, Owners, DestPlaces
  <2>4. \A q \in Requests : pc'[q] \in DestPlaces => q = r /\ pc'[q] = "extract"
    BY <2>1, <2>3
  <2>5. Owners' BY <2>1, <2>4 DEF Owners, DestPlaces, Uploading, Restoring, Cancelling
  <2>6. Copies' BY <2>1, <2>4 DEF Copies, DestPlaces, Uploading, Restoring
  <2>7. Bytes' BY <2>1, <2>2, <2>3 DEF Bytes, Whole, Over, DestPlaces
  <2>8. Trees' BY <2>1, <2>2, <2>4 DEF Trees, Over, DestPlaces, Restoring, Swapping
  <2>9. Aside' BY <2>1, <2>2, <2>3, <2>4 DEF Aside, Over, Torn, DestPlaces, Restoring, Swapping, Cancelling
  <2>10. Installed' BY <2>1, <2>4 DEF Installed, DestPlaces, Cancelling
  <2> QED BY <2>5, <2>6, <2>7, <2>8, <2>9, <2>10
<1>2. CASE Extract(r)
  <2>1. pc[r] = "extract" /\ UNCHANGED <<uploadVars, previous, canonical, discarded, lost>>
    BY <1>2 DEF Extract, historyVars
  <2>2. /\ dmeta.ph \in {"verified", "restoring"}
        /\ \A q \in Requests : pc[q] \in DestPlaces => q = r
    BY <2>1, RestorerAlone DEF Restoring
  <2>3. PICK next \in {"swapOut", "unrestored"} : Goto(r, next)
    BY <1>2 DEF Extract
  <2>4. \A q \in Requests : pc'[q] \in DestPlaces => q = r /\ pc'[q] = next
    BY <2>2, <2>3 DEF Goto
  <2>5. next = "swapOut" => staging' = dmeta.sum
    BY <1>2, <2>1, <2>2, <2>3, WholeOnce DEF Extract, Goto, Bytes
  <2>6. Trees' BY <2>1, <2>2, <2>4, <2>5 DEF Trees, uploadVars, DestPlaces, Restoring, Swapping
  <2>7. Aside'
    <3>1. ~Torn => previous = NoTree
      BY <2>1, <2>2 DEF Aside, Over, DestPlaces, Restoring, Swapping
    <3>2. discarded = NoTree BY <2>2 DEF Trees, Over
    <3> QED BY <2>1, <3>1, <3>2 DEF Aside, Torn
  <2> QED BY <2>1, <2>3, <2>6, <2>7, RestoreMoves DEF Restoring
<1>3. CASE SwapOut(r)
  <2>1. pc[r] = "swapOut" /\ UNCHANGED <<uploadVars, staging, discarded, lost>>
    BY <1>3 DEF SwapOut, historyVars
  <2>2. /\ dmeta.ph \in {"verified", "restoring"}
        /\ \A q \in Requests : pc[q] \in DestPlaces => q = r
    BY <2>1, RestorerAlone DEF Restoring
  <2>3. PICK next \in {"swapInFresh", "swapIn", "unrestored"} : Goto(r, next)
    BY <1>3 DEF SwapOut
  <2>4. \A q \in Requests : pc'[q] \in DestPlaces => q = r /\ pc'[q] = next
    BY <2>2, <2>3 DEF Goto
  <2>5. pc'[r] = next BY <2>3 DEF Goto
  <2>6. (~Torn => previous = NoTree) /\ discarded = NoTree
    BY <2>1, <2>2 DEF Aside, Trees, Over, DestPlaces, Restoring, Swapping
  <2>7. Trees'
    BY <1>3, <2>1, <2>2, <2>4, <2>6, Values DEF SwapOut, Trees, uploadVars, DestPlaces, Restoring, Swapping
  <2>8. Aside'
    <3>1. previous' = previous \/ next = "swapIn"
      BY <1>3, <2>5 DEF SwapOut, Goto
    <3>2. "removeDest" \in DestPlaces BY DEF DestPlaces, Cancelling
    <3> QED BY <2>1, <2>3, <2>4, <2>5, <2>6, <3>1, <3>2 DEF Aside, Torn, Swapping
  <2> QED BY <2>1, <2>3, <2>7, <2>8, RestoreMoves DEF Restoring, Swapping
<1>4. CASE SwapIn(r)
  <2>1. pc[r] \in {"swapIn", "swapInFresh"} /\ UNCHANGED <<uploadVars, discarded>>
        /\ lost \subseteq lost'
    BY <1>4 DEF SwapIn
  <2>2. /\ dmeta.ph \in {"verified", "restoring"}
        /\ \A q \in Requests : pc[q] \in DestPlaces => q = r
    BY <2>1, RestorerAlone DEF Restoring, Swapping
  <2>3. PICK next \in {"restored", "unsynced", "unrestored"} : Goto(r, next)
    BY <1>4 DEF SwapIn
  <2>4. \A q \in Requests : pc'[q] \in DestPlaces => q = r /\ pc'[q] = next
    BY <2>2, <2>3 DEF Goto
  <2>5. pc'[r] = next BY <2>3 DEF Goto
  <2>6. next \in {"restored", "unsynced"} =>
            canonical' = dmeta.sum /\ staging # NoTree /\ canonical' = staging
    BY <1>4, <2>1, <2>5 DEF SwapIn, Goto, Trees
  <2>7. pc[r] = "swapInFresh" /\ ~Torn => previous = NoTree
    BY <2>2 DEF Aside, Over, DestPlaces, Restoring, Swapping
  <2>8. dmeta.sum # Partial /\ discarded = NoTree BY <2>2 DEF DMeta, Sum, Partial, Trees, Over
  <2>9. Trees'
    BY <1>4, <2>1, <2>2, <2>4, <2>6, <2>8, Values DEF SwapIn, Trees, uploadVars, DestPlaces, Restoring, Swapping
  <2>10. Aside'
    <3>1. ~Torn' => previous' = NoTree \/ next \in Swapping
      BY <1>4, <2>1, <2>3, <2>5, <2>7 DEF SwapIn, Goto, Torn, Swapping
    <3>2. "removeDest" \in DestPlaces BY DEF DestPlaces, Cancelling
    <3> QED BY <2>1, <2>3, <2>4, <2>5, <2>8, <3>1, <3>2 DEF Aside
  <2> QED BY <2>1, <2>3, <2>9, <2>10, RestoreMoves DEF Restoring, Swapping
<1>5. CASE RestoreEnds(r)
  <2>1. pc[r] \in {"restored", "unrestored", "unsynced"} /\ pc' = [pc EXCEPT ![r] = "idle"]
        /\ UNCHANGED treeVars
    BY <1>5 DEF RestoreEnds, Done
  <2>2. /\ dmeta.ph \in {"verified", "restoring"}
        /\ \A q \in Requests : pc[q] \in DestPlaces => q = r
    BY <2>1, RestorerAlone DEF Restoring, Swapping
  <2>3. \A q \in Requests : pc'[q] \notin DestPlaces
    BY <2>1, <2>2 DEF DestPlaces, Uploading, Restoring, Swapping, Cancelling
  <2>4. dmeta'.sum = dmeta.sum /\ dmeta'.off = dmeta.off
    BY <1>5, <2>1 DEF RestoreEnds, SaveDest, Copies, Restoring, Swapping
  <2>5. /\ \/ pc[r] = "restored" /\ dmeta'.ph = "restored"
           \/ dmeta'.ph \in {"failed", dmeta.ph} /\ UNCHANGED incoming
        /\ lost \subseteq lost'
        /\ ~Torn' => \/ pc[r] = "restored" /\ dmeta'.ph = "restored"
                     \/ pc[r] = "unrestored"
    BY <1>5 DEF RestoreEnds, SaveDest, Torn
  <2>6. dmeta.sum \in Version /\ discarded = NoTree /\ (pc[r] = "unrestored" /\ ~Torn => previous = NoTree)
    BY <2>1, <2>2, VerifiedSum DEF Trees, Aside, Over, DestPlaces, Restoring, Swapping
  <2>7. Owners' /\ Copies' BY <2>2, <2>3, <2>5 DEF Owners, Copies, DestPlaces, Cancelling
  <2>8. Bytes'
    <3>1. \A q \in Requests : pc[q] \notin Uploading
      BY <2>1, <2>2 DEF DestPlaces, Uploading
    <3> QED BY <2>2, <2>4, <2>5, <3>1 DEF Bytes, Over, Whole
  <2>9. Trees' BY <2>1, <2>3, <2>6 DEF Trees, DestPlaces, Restoring, Swapping, treeVars
  <2>10. ~Torn' => ~Torn BY <2>5 DEF Torn
  <2>11. Aside'
    BY <2>1, <2>3, <2>5, <2>6, <2>10 DEF Aside, Over, DestPlaces, Cancelling, treeVars
  <2>12. Installed'
    BY <2>1, <2>2, <2>3, <2>4, <2>5, <2>6 DEF Installed, Trees, DestPlaces, Cancelling, treeVars
  <2> QED BY <2>7, <2>8, <2>9, <2>11, <2>12
<1> QED BY <1>1, <1>2, <1>3, <1>4, <1>5 DEF RestoreStep

\* FinalizeDestination, and the removals after it.
LEMMA FinalizeSafe ==
    ASSUME TInv, DestInv, NEW r \in Requests, FinalizeDestination(r) \/ Tidy(r), ~overtaken'
    PROVE  DestInv'
<1> USE DEF TInv, TypeOK, RequestsOK, UploadOK, DestInv
<1>1. CASE FinalizeDestination(r)
  <2>1. /\ dmeta.ph = "restored" /\ pc[r] = "idle"
        /\ dmeta'.ph = "activated" /\ dmeta'.sum = dmeta.sum /\ UNCHANGED <<treeVars, lost>>
    BY <1>1 DEF FinalizeDestination, DMeta
  <2>2. \A q \in Requests : pc'[q] = pc[q] \/ pc'[q] = "tidy"
    BY <1>1 DEF FinalizeDestination, Goto, reqVars
  <2>3. \A q \in Requests : pc[q] \notin Cancelling
    BY <1>1 DEF FinalizeDestination, AtWork
  <2>4. \A q \in Requests : pc'[q] \in DestPlaces => pc'[q] = "tidy"
    BY <2>1, <2>2, <2>3 DEF Owners, DestPlaces
  <2>5. Owners' /\ Copies'
    BY <2>1, <2>4 DEF Owners, Copies, DestPlaces, Uploading, Restoring, Swapping, Cancelling
  <2>6. Bytes' BY <2>1 DEF Bytes, Over
  <2>7. Trees' BY <2>1, <2>4 DEF Trees, Over, DestPlaces, Restoring, Swapping, treeVars
  <2>8. Aside' BY <2>1, <2>4 DEF Aside, Over, Torn, DestPlaces, Cancelling, treeVars
  <2>9. Installed' BY <2>1, <2>4 DEF Installed, Torn, DestPlaces, Cancelling, treeVars
  <2> QED BY <2>5, <2>6, <2>7, <2>8, <2>9
<1>2. CASE Tidy(r)
  <2>1. /\ pc[r] = "tidy" /\ dmeta.ph = "activated" /\ pc' = [pc EXCEPT ![r] = "idle"]
        /\ previous' = NoTree /\ UNCHANGED <<dmeta, canonical, discarded, lost>>
    BY <1>2 DEF Tidy, Done, historyVars, Owners
  <2>2. \A q \in Requests : pc[q] \notin Cancelling
    <3>1. r = r /\ pc[r] \in DestPlaces /\ pc[r] \notin Cancelling
      BY <2>1 DEF DestPlaces, Cancelling
    <3> QED BY <3>1 DEF Owners
  <2>3. \A q \in Requests : pc'[q] \in DestPlaces => pc'[q] = "tidy"
    <3>1. "idle" \notin DestPlaces
      BY DEF DestPlaces, Uploading, Restoring, Swapping, Cancelling
    <3>2. \A q \in Requests : pc[q] \notin Uploading \cup Restoring BY <2>1 DEF Owners
    <3> QED BY <2>1, <2>2, <3>1, <3>2 DEF DestPlaces
  <2>4. Owners' /\ Copies'
    BY <2>1, <2>3 DEF Owners, Copies, DestPlaces, Uploading, Restoring, Swapping, Cancelling
  <2>5. Bytes' BY <2>1 DEF Bytes, Over
  <2>6. Trees' BY <2>1, <2>3, Values DEF Trees, DestPlaces, Restoring, Swapping
  <2>7. ~Torn => discarded = NoTree
    <3>1. ~Torn => canonical = dmeta.sum /\ dmeta.sum \in Version BY <2>1 DEF Installed
    <3> QED BY <3>1, Values DEF Trees
  <2>8. Aside' BY <2>1, <2>3, <2>7 DEF Aside, Torn, DestPlaces, Restoring, Cancelling
  <2>9. Installed' BY <2>1, <2>3 DEF Installed, Torn, DestPlaces, Cancelling
  <2> QED BY <2>4, <2>5, <2>6, <2>8, <2>9
<1> QED BY <1>1, <1>2

\* Cancel, its rollback and its removals.
LEMMA CancelSafe ==
    ASSUME TInv, DestInv, NEW r \in Requests, ~overtaken',
           CancelDest(r) \/ Rollback(r) \/ RollbackIn(r) \/ RemoveDest(r)
    PROVE  DestInv'
<1> USE DEF TInv, TypeOK, RequestsOK, UploadOK, DestInv
<1>1. CASE CancelDest(r)
  <2>1. /\ \A q \in Requests : pc[q] \notin DestPlaces
        /\ \/ dmeta'.ph = "cancelled" /\ dmeta'.used
           \/ dmeta' = dmeta
        /\ dmeta.ph \notin {"absent", "cancelled"}
        /\ UNCHANGED <<incoming, treeVars, lost>>
    BY <1>1 DEF CancelDest, AtWork, DestPlaces, DMeta, Authorized, Owners
  <2>2. /\ pc'[r] = IF dmeta.ph \in {"restored", "activated"} THEN "rollback" ELSE "removeDest"
        /\ \A q \in Requests : q # r => pc'[q] = pc[q]
    BY <1>1 DEF CancelDest
  <2>3. \A q \in Requests : pc'[q] \in DestPlaces => q = r
    BY <2>1, <2>2
  <2>4. \A q \in Requests : pc'[q] \notin Uploading \cup Restoring \cup {"rollbackIn", "tidy"}
    BY <2>1, <2>2, <2>3 DEF DestPlaces, Uploading, Restoring, Swapping, Cancelling
  <2>5. Owners' /\ Copies'
    BY <2>1, <2>2, <2>3, <2>4 DEF Owners, Copies, Over, DestPlaces
  <2>6. Bytes' BY <2>1, <2>4 DEF Bytes, Over, Whole, DestPlaces
  <2>7. Trees' BY <2>1, <2>4 DEF Trees, Over, Restoring, Swapping, treeVars
  <2>8. Aside'
    <3>1. ~Torn /\ previous # NoTree => dmeta.ph \in {"restored", "activated"}
      BY <2>1 DEF Aside, Over, DestPlaces, Restoring
    <3>2. ~Torn /\ previous # NoTree => pc'[r] = "rollback" /\ dmeta'.ph \in Over
      BY <2>1, <2>2, <3>1 DEF Over
    <3>3. "removeDest" \in DestPlaces BY DEF DestPlaces, Cancelling
    <3> QED BY <2>1, <2>3, <3>2, <3>3 DEF Aside, Torn, treeVars
  <2>9. Installed' BY <2>1, <2>4 DEF Installed, Torn, treeVars
  <2> QED BY <2>5, <2>6, <2>7, <2>8, <2>9
<1>2. CASE Rollback(r)
  <2>1. /\ pc[r] = "rollback" /\ UNCHANGED <<uploadVars, staging, previous>>
        /\ dmeta.ph \in Over
    BY <1>2 DEF Rollback, Owners
  <2>2. \A q \in Requests : pc[q] \in DestPlaces => q = r
    BY <2>1, CancellerAlone DEF Cancelling
  <2>3. \/ /\ previous = NoTree /\ pc' = [pc EXCEPT ![r] = "removeDest"]
           /\ UNCHANGED <<canonical, discarded, lost>>
        \/ /\ previous # NoTree /\ pc' = [pc EXCEPT ![r] = "rollbackIn"]
           /\ discarded' = canonical /\ canonical' = NoTree
           /\ Torn' \/ (dmeta.ph = "cancelled" /\ ~Torn)
        \/ /\ previous # NoTree /\ pc' = [pc EXCEPT ![r] = "idle"]
           /\ discarded' = NoTree /\ UNCHANGED <<canonical, lost>>
    BY <1>2 DEF Rollback, Goto, Done, Torn
  <2>4. \A q \in Requests : pc'[q] \in DestPlaces => q = r
    BY <2>2, <2>3
  <2>5. \A q \in Requests : pc'[q] \notin Uploading \cup Restoring \cup {"tidy", "rollback"}
    BY <2>2, <2>3 DEF DestPlaces, Uploading, Restoring, Swapping, Cancelling
  <2>6. Owners' /\ Copies'
    <3>1. dmeta.ph # "absent" BY <2>1 DEF Over
    <3>2. \A q \in Requests : pc'[q] \in Cancelling => pc'[q] \in DestPlaces BY DEF DestPlaces
    <3> QED BY <2>1, <2>4, <2>5, <3>1, <3>2 DEF Owners, Copies, uploadVars
  <2>7. Bytes' BY <2>1 DEF Bytes, Over, uploadVars
  <2>8. Trees' BY <2>1, <2>3, <2>5, Values DEF Trees, uploadVars, Restoring, Swapping
  <2>9. ~Torn' => ~Torn BY <1>2 DEF Rollback, Torn
  <2>10. Aside'
    <3>1. "removeDest" \in DestPlaces BY DEF DestPlaces, Cancelling
    <3> QED BY <2>1, <2>3, <2>4, <2>9, <3>1 DEF Aside, uploadVars
  <2>11. Installed'
    <3>1. "rollbackIn" \in DestPlaces BY DEF DestPlaces, Cancelling
    <3>2. \A q \in Requests : pc'[q] = "rollbackIn" => Torn' \/ dmeta'.ph = "cancelled"
      BY <2>1, <2>3, <2>4, <3>1 DEF uploadVars
    <3>3. ~Torn' /\ dmeta.ph # "cancelled" => canonical' = canonical
      BY <2>3
    <3> QED BY <2>1, <2>9, <3>2, <3>3 DEF Installed, uploadVars
  <2> QED BY <2>6, <2>7, <2>8, <2>10, <2>11
<1>3. CASE RollbackIn(r)
  <2>1. /\ pc[r] = "rollbackIn" /\ UNCHANGED <<uploadVars, staging, lost>>
        /\ dmeta.ph \in Over /\ (Torn \/ dmeta.ph = "cancelled") /\ Torn' = Torn
    BY <1>3 DEF RollbackIn, historyVars, Owners, Installed, Torn
  <2>2. \A q \in Requests : pc[q] \in DestPlaces => q = r
    BY <2>1, CancellerAlone DEF Cancelling
  <2>3. \/ /\ canonical' = previous /\ previous' = NoTree /\ discarded' = NoTree
           /\ pc' = [pc EXCEPT ![r] = "removeDest"]
        \/ /\ canonical' = discarded /\ discarded' = NoTree /\ pc' = [pc EXCEPT ![r] = "idle"]
           /\ UNCHANGED previous
        \/ /\ pc' = [pc EXCEPT ![r] = "idle"]
           /\ UNCHANGED <<canonical, previous, discarded>>
    BY <1>3 DEF RollbackIn, Goto, Done
  <2>4. \A q \in Requests : pc'[q] \in DestPlaces => q = r /\ pc'[q] = "removeDest"
    BY <2>2, <2>3 DEF DestPlaces, Uploading, Restoring, Swapping, Cancelling
  <2>5. \A q \in Requests : pc'[q] \notin Uploading \cup Restoring \cup {"tidy", "rollback", "rollbackIn"}
    BY <2>4 DEF DestPlaces, Uploading, Restoring, Swapping, Cancelling
  <2>6. Owners' /\ Copies'
    <3>1. dmeta.ph # "absent" BY <2>1 DEF Over
    <3>2. \A q \in Requests : pc'[q] \in Cancelling => pc'[q] \in DestPlaces BY DEF DestPlaces
    <3> QED BY <2>1, <2>4, <2>5, <3>1, <3>2 DEF Owners, Copies, uploadVars
  <2>7. Bytes' BY <2>1 DEF Bytes, Over, uploadVars
  <2>8. Trees' BY <2>1, <2>3, <2>5, Values DEF Trees, uploadVars, Restoring, Swapping
  <2>9. Aside'
    <3>1. "removeDest" \in DestPlaces BY DEF DestPlaces, Cancelling
    <3>2. \A q \in Requests : pc'[q] = "removeDest" => previous' = NoTree
      BY <2>3, <2>4, <3>1
    <3> QED BY <2>1, <2>3, <3>2 DEF Aside, uploadVars
  <2>10. Installed' BY <2>1, <2>5 DEF Installed, uploadVars
  <2> QED BY <2>6, <2>7, <2>8, <2>9, <2>10
<1>4. CASE RemoveDest(r)
  <2>1. /\ pc[r] = "removeDest" /\ UNCHANGED canonical /\ incoming' = <<>>
        /\ previous' = NoTree /\ discarded' = NoTree
        /\ pc' = [pc EXCEPT ![r] = "idle"] /\ dmeta' = DAbsent
    BY <1>4 DEF RemoveDest, Done
  <2>2. dmeta'.ph = "absent" /\ dmeta'.off = 0 /\ Len(incoming') = 0
    BY <2>1 DEF DAbsent
  <2>3. \A q \in Requests : pc[q] \in DestPlaces => q = r
    BY <2>1, CancellerAlone DEF Cancelling
  <2>4. \A q \in Requests : pc'[q] \notin DestPlaces
    BY <2>1, <2>3 DEF DestPlaces, Uploading, Restoring, Swapping, Cancelling
  <2>5. Owners' /\ Copies' BY <2>2, <2>4 DEF Owners, Copies, DestPlaces, Cancelling
  <2>6. Bytes' BY <2>2 DEF Bytes
  <2>7. Trees' BY <2>1, <2>2, <2>4, Values DEF Trees, DestPlaces, Restoring, Swapping
  <2>8. Aside' BY <2>1 DEF Aside
  <2>9. Installed' BY <2>2, <2>4 DEF Installed, DestPlaces, Cancelling
  <2> QED BY <2>5, <2>6, <2>7, <2>8, <2>9
<1> QED BY <1>1, <1>2, <1>3, <1>4

\* Every step keeps DestInv as long as Cancel meets no request at work.
LEMMA DestSafe ==
    ASSUME TInv, DestInv, [Next]_vars, ~overtaken'
    PROVE  DestInv'
<1>1. CASE RegisterSource \/ FilesChange \/ CleanupSource
  BY <1>1, DestFrame DEF RegisterSource, FilesChange, CleanupSource, uploadVars, reqVars, historyVars
<1>2. CASE RegisterDest
  BY <1>2, RegisterDestSafe
<1>3. CASE CrashSource
  <2>1. UNCHANGED <<dmeta, incoming, dactive, treeVars, lost>>
    BY <1>3 DEF CrashSource, historyVars
  <2>2. \A q \in Requests : pc[q] \in DestPlaces \/ pc'[q] \in DestPlaces
                => /\ pc'[q] = pc[q] /\ copy'[q] = copy[q]
                   /\ q \in linked => q \in linked'
    BY <1>3 DEF CrashSource, EndRequests, AtWork, DestPlaces, Preparing, Uploading, Restoring,
                Swapping, Cancelling
  <2> QED BY <2>1, <2>2, DestFrame
<1>4. CASE CrashDest
  BY <1>4, CrashDestSafe
<1>5. CASE \E r \in Requests : SourceStep(r) \/ CancelSource(r) \/ RemoveSource(r)
  BY <1>5, SourceStepsFrame, DestFrame
<1>6. CASE \E r \in Requests : UploadStep(r)
  BY <1>6, UploadSafe
<1>7. CASE \E r \in Requests : RestoreStep(r)
  BY <1>7, RestoreSafe
<1>8. CASE \E r \in Requests : FinalizeDestination(r) \/ Tidy(r)
  BY <1>8, FinalizeSafe
<1>9. CASE \E r \in Requests : CancelDest(r) \/ Rollback(r) \/ RollbackIn(r) \/ RemoveDest(r)
  BY <1>9, CancelSafe
<1>10. CASE UNCHANGED vars
  BY <1>10, DestFrame DEF vars, uploadVars, reqVars, historyVars
<1> QED
  BY <1>1, <1>2, <1>3, <1>4, <1>5, <1>6, <1>7, <1>8, <1>9, <1>10 DEF Next, CancelStep

-----------------------------------------------------------------------------
(* The theorems *)

\* Once Cancel and another request have met, nothing is claimed any more.
LEMMA OvertakenStays == FlagsOK /\ [Next]_vars /\ overtaken => overtaken'
BY DEF FlagsOK, Next, vars, historyVars, RegisterSource, RegisterDest, FilesChange, CleanupSource, CrashSource,
       CrashDest, SourceStep, PrepareSource, CreateArchive, RenameArchive, PrepareEnds,
       UploadStep, AppendDestination, Receive, AppendEnds, RestoreStep, RestoreDestination,
       Extract, SwapOut, SwapIn, RestoreEnds, FinalizeDestination, Tidy, CancelStep,
       CancelSource, RemoveSource, CancelDest, Rollback, RollbackIn, RemoveDest

\* All of it, until the two meet.
EngineInv == TInv /\ (~overtaken => SourceInv /\ DestInv)

\* Initially nothing is announced and nobody is at work.
LEMMA InitSafe == Init => SourceInv /\ DestInv
<1> SUFFICES ASSUME Init PROVE SourceInv /\ DestInv
  OBVIOUS
<1> USE DEF Init
<1>1. SourceInv BY DEF SourceInv, SAbsent, Preparing
<1>2. Owners /\ Copies BY DEF Owners, Copies, DAbsent, Uploading, Restoring, Swapping, Cancelling
<1>3. Bytes BY DEF Bytes, DAbsent
<1>4. Trees BY Values DEF Trees, DAbsent
<1>5. Aside BY DEF Aside
<1>6. Installed BY DEF Installed, DAbsent
<1> QED BY <1>1, <1>2, <1>3, <1>4, <1>5, <1>6 DEF DestInv

\* The inductive invariant: SourceInv and DestInv hold until Cancel and another request
\* meet on the transfer.
THEOREM EngineInvariant == Spec => []EngineInv
<1>1. Init => EngineInv
  BY InitType, InitSafe DEF EngineInv
<1>2. EngineInv /\ [Next]_vars => EngineInv'
  <2> SUFFICES ASSUME EngineInv, [Next]_vars PROVE EngineInv'
    OBVIOUS
  <2>1. TInv' BY StepType DEF EngineInv
  <2>2. ASSUME ~overtaken' PROVE SourceInv' /\ DestInv'
    <3>1. ~overtaken BY <2>2, OvertakenStays DEF EngineInv, TInv, TypeOK
    <3> QED BY <2>2, <3>1, SourceSafe, DestSafe DEF EngineInv
  <2> QED BY <2>1, <2>2 DEF EngineInv
<1> QED BY <1>1, <1>2, PTL DEF Spec

\* An archive that is announced as ready is the one whose checksum is announced,
\* whichever archive was made before and however often the daemon died.
THEOREM ArchivesMatch == Spec => []ArchiveMatches
<1>1. EngineInv => ArchiveMatches BY DEF EngineInv, SourceInv, ArchiveMatches
<1> QED BY <1>1, EngineInvariant, PTL

\* A transfer reads verified or restoring only with the whole archive in its file, for
\* archives of any number of pieces and uploads broken off any number of times.
THEOREM VerifiedArchivesAreWhole == Spec => []VerifiedIsWhole
<1>1. EngineInv => VerifiedIsWhole BY DEF EngineInv, DestInv, Bytes, VerifiedIsWhole
<1> QED BY <1>1, EngineInvariant, PTL

\* The offset at which an upload is resumed never passes the end of the file.
THEOREM OffsetsAreBacked == Spec => []OffsetBacked
<1>1. EngineInv => OffsetBacked BY DEF EngineInv, DestInv, Bytes, Over, OffsetBacked
<1> QED BY <1>1, EngineInvariant, PTL

\* An upload that broke off can be resumed at its offset, unless the daemon died in it
\* or could not save where it ended.
THEOREM UploadsAreResumable == Spec => []Resumable
<1>1. EngineInv => Resumable BY DEF EngineInv, DestInv, Bytes, Over, Resumable, AtWork
<1> QED BY <1>1, EngineInvariant, PTL

\* The server directory is never a tree extracted in part, and a transfer that reads
\* restored has put the files of its archive there, unless a Cancel that could not be
\* recorded took them away.
THEOREM CanonicalIsWhole == Spec => []CanonicalWhole
<1>1. EngineInv => CanonicalWhole
  BY DEF EngineInv, DestInv, Trees, Installed, Torn, CanonicalWhole
<1> QED BY <1>1, EngineInvariant, PTL

\* The steps that move or remove the directories beside the transfer.
LEMMA TreesMove ==
    ASSUME [Next]_vars
    PROVE  \/ UNCHANGED <<canonical, previous>>
           \/ \E r \in Requests : SwapOut(r) \/ SwapIn(r) \/ Tidy(r) \/ Rollback(r)
                                  \/ RollbackIn(r) \/ RemoveDest(r)
<1> USE DEF treeVars
<1>1. CASE RegisterSource \/ RegisterDest \/ FilesChange \/ CleanupSource \/ CrashSource \/ CrashDest
  BY <1>1 DEF RegisterSource, RegisterDest, FilesChange, CleanupSource, CrashSource, CrashDest
<1>2. ASSUME NEW r \in Requests, SourceStep(r) \/ UploadStep(r)
      PROVE  UNCHANGED <<canonical, previous>>
  BY <1>2 DEF SourceStep, PrepareSource, CreateArchive, RenameArchive, PrepareEnds,
              UploadStep, AppendDestination, Receive, AppendEnds
<1>3. ASSUME NEW r \in Requests, RestoreDestination(r) \/ Extract(r) \/ RestoreEnds(r)
             \/ FinalizeDestination(r) \/ CancelSource(r) \/ RemoveSource(r) \/ CancelDest(r)
      PROVE  UNCHANGED <<canonical, previous>>
  BY <1>3 DEF RestoreDestination, Extract, RestoreEnds, FinalizeDestination, CancelSource,
              RemoveSource, CancelDest
<1>4. CASE UNCHANGED vars
  BY <1>4 DEF vars
<1> QED BY <1>1, <1>2, <1>3, <1>4 DEF Next, RestoreStep, CancelStep

\* While every exchange of the directories is recorded, the only step that loses the old
\* one is the removal after FinalizeDestination.
LEMMA OldTreeKept ==
    ASSUME TInv, DestInv, [Next]_vars, ~Torn, OldTree \in {canonical, previous}
    PROVE  OldTree \in {canonical', previous'} \/ dmeta.ph = "activated"
<1> USE DEF TInv, DestInv
<1>1. CASE UNCHANGED <<canonical, previous>>
  BY <1>1
<1>2. ASSUME NEW r \in Requests,
             SwapOut(r) \/ SwapIn(r) \/ Tidy(r) \/ Rollback(r) \/ RollbackIn(r) \/ RemoveDest(r)
      PROVE  OldTree \in {canonical', previous'} \/ dmeta.ph = "activated"
  <2>1. CASE SwapOut(r)
    BY <2>1, Values DEF SwapOut
  <2>2. CASE SwapIn(r)
    BY <2>2, Values DEF SwapIn
  <2>3. CASE Tidy(r)
    BY <2>3 DEF Tidy, Owners
  <2>4. CASE Rollback(r)
    BY <2>4, Values DEF Rollback, Named
  <2>5. CASE RollbackIn(r)
    BY <2>5, Values DEF RollbackIn, Named
  <2>6. CASE RemoveDest(r)
    <3>1. pc[r] = "removeDest" /\ UNCHANGED canonical BY <2>6 DEF RemoveDest
    <3>2. previous = NoTree BY <3>1 DEF Aside
    <3> QED BY <3>1, <3>2, Values
  <2> QED BY <1>2, <2>1, <2>2, <2>3, <2>4, <2>5, <2>6
<1> QED BY <1>1, <1>2, TreesMove

\* Until FinalizeDestination the directory that the restore replaced is in its place or
\* aside, through failed swaps, restores, rollbacks and cancels, as long as the exchange
\* of the two is recorded.
THEOREM OldFilesAreKept == Spec => OldFilesKept
<1>1. EngineInv /\ [Next]_vars
        => [~overtaken' /\ "swap" \notin lost /\ OldTree \in {canonical, previous}
              => \/ OldTree \in {canonical', previous'}
                 \/ dmeta.ph = "activated"]_vars
  <2> SUFFICES ASSUME EngineInv, [Next]_vars, ~overtaken', "swap" \notin lost,
                      OldTree \in {canonical, previous}
               PROVE  OldTree \in {canonical', previous'} \/ dmeta.ph = "activated"
    OBVIOUS
  <2>1. ~overtaken BY OvertakenStays DEF EngineInv, TInv, TypeOK
  <2> QED BY <2>1, OldTreeKept DEF EngineInv, Torn
<1> QED BY <1>1, EngineInvariant, PTL DEF Spec, OldFilesKept

-----------------------------------------------------------------------------
(* The contract *)

\* The control plane sees nothing of a step.
Unseen == UNCHANGED <<ContractPhase, ContractSum, ContractTree, ContractAside>>

\* It sees nothing, or one of these.
Seen ==
    \/ Unseen /\ (Torn' \/ UNCHANGED Torn)
    \/ Contract!Register \/ Contract!Verify \/ Contract!Withdraw \/ Contract!Restore
    \/ Contract!Confirm \/ Contract!Finalize \/ Contract!Tidy \/ Contract!Cancel
    \/ Contract!Revert \/ Contract!Remove

\* The directories as they are seen.
LEMMA TreesUnseen ==
    ASSUME UNCHANGED <<canonical, previous, discarded>>
    PROVE  UNCHANGED <<ContractTree, ContractAside>>
BY DEF ContractTree, ContractAside

\* A step that leaves phase, checksum and directories alone is not seen.
LEMMA UnseenFrame ==
    ASSUME dmeta'.ph = dmeta.ph, dmeta'.sum = dmeta.sum,
           UNCHANGED <<canonical, previous, discarded>>
    PROVE  Unseen
BY TreesUnseen DEF Unseen, ContractPhase, ContractSum

\* Register.
LEMMA RegisterSeen ==
    ASSUME TInv, RegisterDest, ~overtaken'
    PROVE  Seen
<1>1. UNCHANGED <<canonical, previous, discarded>> /\ UNCHANGED Torn
  BY DEF RegisterDest, treeVars, Torn
<1>2. CASE dmeta.ph = "absent"
  <2>1. dmeta'.ph = "authorized" BY <1>2, Fresh DEF RegisterDest
  <2>2. /\ ContractPhase = "absent" /\ ContractPhase' = "authorized"
        /\ ContractSum = NoTree /\ ContractSum' = NoTree
    BY <1>2, <2>1 DEF ContractPhase, ContractSum
  <2>3. Contract!Register BY <1>1, <2>2, TreesUnseen DEF Contract!Register
  <2> QED BY <2>3 DEF Seen
<1>3. CASE dmeta.ph # "absent"
  <2>1. dmeta'.ph = dmeta.ph /\ dmeta'.sum = dmeta.sum
    BY <1>3 DEF RegisterDest, TInv, TypeOK, UploadOK, DMeta
  <2> QED BY <1>1, <2>1, UnseenFrame DEF Seen
<1> QED BY <1>2, <1>3

\* The upload: seen are the last piece of a whole archive and a second push.
LEMMA UploadSeen ==
    ASSUME TInv, DestInv, NEW r \in Requests, UploadStep(r)
    PROVE  Seen
<1> USE DEF TInv, TypeOK, RequestsOK, UploadOK, DestInv
<1>1. UNCHANGED <<canonical, previous, discarded>> /\ UNCHANGED Torn
  BY DEF UploadStep, AppendDestination, Receive, AppendEnds, treeVars, historyVars, Torn
<1>2. CASE AppendDestination(r)
  <2>1. dmeta'.ph = "uploading"
        /\ dmeta.ph \in {"authorized", "uploading", "failed", "verified", "restoring"}
    BY <1>2 DEF AppendDestination, Authorized, DMeta, DPhase, Owners
  <2>2. ContractPhase' = "authorized" /\ ContractSum' = NoTree
    BY <2>1 DEF ContractPhase, ContractSum
  <2>3. CASE dmeta.ph \in {"verified", "restoring"}
    <3>1. ContractPhase = "verified" BY <2>3 DEF ContractPhase
    <3>2. Contract!Withdraw BY <1>1, <2>2, <3>1, TreesUnseen DEF Contract!Withdraw
    <3> QED BY <3>2 DEF Seen
  <2>4. CASE dmeta.ph \notin {"verified", "restoring"}
    <3>1. ContractPhase = "authorized" /\ ContractSum = NoTree
      BY <2>1, <2>4 DEF ContractPhase, ContractSum
    <3> QED BY <1>1, <2>2, <3>1, TreesUnseen DEF Unseen, Seen
  <2> QED BY <2>3, <2>4
<1>3. CASE UNCHANGED dmeta
  BY <1>1, <1>3, UnseenFrame DEF Seen
<1>4. CASE AppendEnds(r) /\ ~UNCHANGED dmeta
  <2>1. dmeta.ph = "uploading" /\ copy[r].sum \in Version
    BY <1>4 DEF AppendEnds, Owners, Uploading, Named
  <2>2. ContractPhase = "authorized" /\ ContractSum = NoTree
    BY <2>1 DEF ContractPhase, ContractSum
  <2>3. PICK ph \in {"uploading", "verified", "failed"} : SaveDest(r, ph)
    BY <1>4 DEF AppendEnds
  <2>4. dmeta'.ph = ph /\ dmeta'.sum = copy[r].sum BY <2>3 DEF SaveDest
  <2>5. CASE ph = "verified"
    <3>1. ContractPhase' = "verified" /\ ContractSum' = copy[r].sum
      BY <2>4, <2>5 DEF ContractPhase, ContractSum
    <3>2. Contract!Verify BY <1>1, <2>1, <2>2, <3>1, TreesUnseen DEF Contract!Verify
    <3> QED BY <3>2 DEF Seen
  <2>6. CASE ph # "verified"
    <3>1. ContractPhase' = "authorized" /\ ContractSum' = NoTree
      BY <2>3, <2>4, <2>6 DEF ContractPhase, ContractSum
    <3> QED BY <1>1, <2>2, <3>1, TreesUnseen DEF Unseen, Seen
  <2> QED BY <2>5, <2>6
<1> QED BY <1>2, <1>3, <1>4 DEF UploadStep, Receive

\* The restore: seen are the second rename, which is the change of the directory, and
\* the end.
LEMMA RestoreSeen ==
    ASSUME TInv, DestInv, NEW r \in Requests, RestoreStep(r)
    PROVE  Seen
<1> USE DEF TInv, TypeOK, RequestsOK, UploadOK, DestInv
<1>1. Torn' \/ UNCHANGED Torn
  BY DEF RestoreStep, RestoreDestination, Extract, SwapOut, SwapIn, RestoreEnds, historyVars, Torn
<1>2. CASE RestoreDestination(r)
  <2>1. /\ dmeta.ph = "verified" /\ dmeta'.ph \in {"verified", "restoring"}
        /\ dmeta'.sum = dmeta.sum
        /\ UNCHANGED <<canonical, previous, discarded>>
    BY <1>2 DEF RestoreDestination, DMeta
  <2> QED BY <1>1, <2>1, TreesUnseen DEF Seen, Unseen, ContractPhase, ContractSum
<1>3. CASE Extract(r)
  <2>1. UNCHANGED <<dmeta, canonical, previous, discarded>> BY <1>3 DEF Extract, uploadVars
  <2> QED BY <1>1, <2>1, UnseenFrame DEF Seen
<1>4. CASE SwapOut(r)
  <2>1. dmeta' = dmeta /\ discarded' = discarded BY <1>4 DEF SwapOut, uploadVars
  <2>2. discarded = NoTree
    <3>1. dmeta.ph \in {"verified", "restoring"}
      BY <1>4, RestorerAlone DEF SwapOut, Restoring
    <3> QED BY <3>1 DEF Trees, Over
  <2>3. UNCHANGED <<ContractTree, ContractAside>>
    BY <1>4, <2>1, <2>2 DEF SwapOut, ContractTree, ContractAside
  <2> QED BY <1>1, <2>1, <2>3 DEF Seen, Unseen, ContractPhase, ContractSum
<1>5. CASE SwapIn(r)
  <2>1. dmeta' = dmeta /\ pc[r] \in {"swapIn", "swapInFresh"} /\ discarded' = discarded
    BY <1>5 DEF SwapIn, uploadVars
  <2>2. dmeta.ph \in {"verified", "restoring"} BY <2>1, RestorerAlone DEF Restoring, Swapping
  <2>3. discarded = NoTree BY <2>2 DEF Trees, Over
  <2>4. ContractPhase = "verified" /\ ContractSum = dmeta.sum /\ UNCHANGED <<ContractPhase, ContractSum>>
    BY <2>1, <2>2 DEF ContractPhase, ContractSum
  <2>5. CASE staging # NoTree /\ canonical = NoTree /\ canonical' = staging /\ previous' = previous
             /\ lost' = lost
    <3>1. staging = dmeta.sum BY <2>1, <2>5 DEF Trees
    <3>2. /\ ContractAside = NoTree /\ ContractTree = previous
          /\ ContractTree' = dmeta.sum /\ ContractAside' = previous
      BY <2>1, <2>3, <2>5, <3>1 DEF ContractTree, ContractAside
    <3>3. Contract!Restore BY <2>4, <2>5, <3>2 DEF Contract!Restore, Torn
    <3> QED BY <3>3 DEF Seen
  <2>6. CASE canonical = NoTree /\ previous # NoTree /\ canonical' = previous /\ previous' = NoTree
    <3>1. UNCHANGED <<ContractTree, ContractAside>>
      BY <2>1, <2>3, <2>6 DEF ContractTree, ContractAside
    <3> QED BY <1>1, <2>4, <3>1 DEF Seen, Unseen
  <2>7. CASE UNCHANGED <<canonical, previous>>
    BY <1>1, <2>1, <2>4, <2>7, TreesUnseen DEF Seen, Unseen
  <2> QED BY <1>5, <2>5, <2>6, <2>7 DEF SwapIn
<1>6. CASE RestoreEnds(r)
  <2>1. /\ pc[r] \in {"restored", "unrestored", "unsynced"}
        /\ UNCHANGED <<canonical, previous, discarded>>
    BY <1>6 DEF RestoreEnds, treeVars
  <2>2. dmeta.ph \in {"verified", "restoring"} BY <2>1, RestorerAlone DEF Restoring, Swapping
  <2>3. dmeta.sum \in Version BY <2>2, VerifiedSum
  <2>4. ContractPhase = "verified" /\ ContractSum = dmeta.sum
    BY <2>2 DEF ContractPhase, ContractSum
  <2>5. CASE pc[r] = "restored" /\ SaveDest(r, "restored") /\ UNCHANGED lost
    <3>1. dmeta'.ph = "restored" /\ dmeta'.sum = dmeta.sum
      BY <2>5 DEF SaveDest, Copies, Restoring, Swapping
    <3>2. ContractPhase' = "restored" /\ ContractSum' = dmeta.sum
      BY <3>1 DEF ContractPhase, ContractSum
    <3>3. ContractTree = dmeta.sum BY <2>3, <2>5, Values DEF ContractTree, Trees
    <3>4. Contract!Confirm
      BY <2>1, <2>4, <2>5, <3>2, <3>3, TreesUnseen DEF Contract!Confirm, Torn
    <3> QED BY <3>4 DEF Seen
  <2>6. CASE SaveDest(r, "failed")
    <3>1. dmeta'.ph = "failed" BY <2>6 DEF SaveDest
    <3>2. ContractPhase' = "authorized" /\ ContractSum' = NoTree
      BY <3>1 DEF ContractPhase, ContractSum
    <3>3. Torn' \in {Torn, TRUE} BY <1>1 DEF Torn
    <3>4. Contract!Withdraw BY <2>1, <2>4, <3>2, <3>3, TreesUnseen DEF Contract!Withdraw
    <3> QED BY <3>4 DEF Seen
  <2>7. CASE UNCHANGED dmeta
    BY <1>1, <2>1, <2>7, UnseenFrame DEF Seen
  <2> QED BY <1>6, <2>5, <2>6, <2>7 DEF RestoreEnds
<1> QED BY <1>2, <1>3, <1>4, <1>5, <1>6 DEF RestoreStep

\* FinalizeDestination, and the removals after it.
LEMMA FinalizeSeen ==
    ASSUME TInv, DestInv, NEW r \in Requests, FinalizeDestination(r) \/ Tidy(r)
    PROVE  Seen
<1> USE DEF TInv, TypeOK, RequestsOK, UploadOK, DestInv
<1>1. CASE FinalizeDestination(r)
  <2>1. /\ dmeta.ph = "restored" /\ dmeta'.ph = "activated" /\ dmeta'.sum = dmeta.sum
        /\ UNCHANGED <<canonical, previous, discarded>> /\ UNCHANGED Torn
    BY <1>1 DEF FinalizeDestination, DMeta, treeVars, Torn
  <2>2. /\ ContractPhase = "restored" /\ ContractPhase' = "activated"
        /\ UNCHANGED ContractSum
    BY <2>1 DEF ContractPhase, ContractSum
  <2>3. Contract!Finalize BY <2>1, <2>2, TreesUnseen DEF Contract!Finalize
  <2> QED BY <2>3 DEF Seen
<1>2. CASE Tidy(r)
  <2>1. /\ dmeta.ph = "activated" /\ previous' = NoTree
        /\ UNCHANGED <<dmeta, canonical, discarded>> /\ UNCHANGED Torn
    BY <1>2 DEF Tidy, Owners, historyVars, Torn
  <2>2. canonical # NoTree \/ Torn BY <2>1, Values DEF Installed
  <2>3. ContractPhase = "activated" /\ UNCHANGED <<ContractPhase, ContractSum>>
    BY <2>1 DEF ContractPhase, ContractSum
  <2>4. /\ UNCHANGED ContractTree \/ (Torn /\ ContractTree' = NoTree)
        /\ ContractAside' = NoTree
    BY <2>1, <2>2 DEF ContractTree, ContractAside
  <2>5. Contract!Tidy BY <2>1, <2>3, <2>4 DEF Contract!Tidy
  <2> QED BY <2>5 DEF Seen
<1> QED BY <1>1, <1>2

\* Cancel: the rollback is seen when the old directory is in its place again.
LEMMA CancelSeen ==
    ASSUME TInv, DestInv, NEW r \in Requests, ~overtaken',
           CancelDest(r) \/ Rollback(r) \/ RollbackIn(r) \/ RemoveDest(r)
    PROVE  Seen
<1> USE DEF TInv, TypeOK, RequestsOK, UploadOK, DestInv
<1>1. CASE CancelDest(r)
  <2>1. /\ dmeta'.ph = "cancelled" \/ dmeta' = dmeta
        /\ dmeta.ph \notin {"absent", "cancelled"}
        /\ UNCHANGED <<canonical, previous, discarded>> /\ UNCHANGED Torn
    BY <1>1 DEF CancelDest, Authorized, Owners, DMeta, treeVars, Torn
  <2>2. CASE dmeta' = dmeta
    BY <2>1, <2>2, UnseenFrame DEF Seen
  <2>3. CASE dmeta'.ph = "cancelled"
    <3>1. /\ ContractPhase \notin {"absent", "cancelled"}
          /\ ContractPhase' = "cancelled" /\ ContractSum' = NoTree
      BY <2>1, <2>3 DEF ContractPhase, ContractSum
    <3>2. Contract!Cancel BY <2>1, <3>1, TreesUnseen DEF Contract!Cancel
    <3> QED BY <3>2 DEF Seen
  <2> QED BY <2>1, <2>2, <2>3
<1>2. CASE Rollback(r)
  <2>1. pc[r] = "rollback" /\ UNCHANGED <<dmeta, previous>> /\ (Torn' \/ UNCHANGED Torn)
    BY <1>2 DEF Rollback, uploadVars, Torn
  <2>2. UNCHANGED <<ContractPhase, ContractSum>> BY <2>1 DEF ContractPhase, ContractSum
  <2>3. CASE UNCHANGED <<ContractTree, ContractAside>>
    BY <2>1, <2>2, <2>3 DEF Seen, Unseen
  <2>4. CASE ~UNCHANGED <<ContractTree, ContractAside>>
    <3>1. /\ canonical = NoTree /\ discarded # NoTree /\ previous # NoTree
          /\ canonical' = NoTree /\ discarded' = NoTree
      <4>1. CASE UNCHANGED <<canonical, discarded>>
        BY <2>1, <2>4, <4>1, TreesUnseen
      <4>2. CASE previous # NoTree /\ discarded' = canonical /\ canonical' = NoTree
        BY <2>1, <2>4, <4>2 DEF ContractTree, ContractAside
      <4>3. CASE previous # NoTree /\ discarded' = NoTree /\ canonical' = canonical
        BY <2>1, <2>4, <4>3 DEF ContractTree, ContractAside
      <4> QED BY <1>2, <4>1, <4>2, <4>3 DEF Rollback
    <3>2. /\ ContractAside = previous /\ ContractTree' = previous /\ ContractAside' = NoTree
      BY <2>1, <3>1 DEF ContractTree, ContractAside
    <3>3. Torn \/ dmeta.ph = "cancelled"
      <4>1. dmeta.ph \in Over BY <2>1 DEF Owners
      <4>2. dmeta.ph \in {"restored", "activated"} => Torn BY <3>1, Values DEF Installed
      <4> QED BY <4>1, <4>2 DEF Over
    <3>4. (ContractPhase = "cancelled" \/ Torn) /\ UNCHANGED Torn
      BY <1>2, <3>3 DEF ContractPhase, Rollback, Torn
    <3>5. Contract!Revert BY <2>2, <3>1, <3>2, <3>4 DEF Contract!Revert
    <3> QED BY <3>5 DEF Seen
  <2> QED BY <2>3, <2>4
<1>3. CASE RollbackIn(r)
  <2>1. pc[r] = "rollbackIn" /\ UNCHANGED dmeta /\ UNCHANGED Torn
    BY <1>3 DEF RollbackIn, uploadVars, historyVars, Torn
  <2>2. UNCHANGED <<ContractPhase, ContractSum>> BY <2>1 DEF ContractPhase, ContractSum
  <2>3. CASE UNCHANGED <<ContractTree, ContractAside>>
    BY <2>1, <2>2, <2>3 DEF Seen, Unseen
  <2>4. CASE ~UNCHANGED <<ContractTree, ContractAside>>
    <3>1. /\ canonical = NoTree /\ discarded # NoTree /\ previous # NoTree
          /\ canonical' = previous /\ discarded' = NoTree /\ previous' = NoTree
      <4>1. CASE UNCHANGED <<canonical, previous, discarded>>
        BY <2>4, <4>1, TreesUnseen
      <4>2. CASE /\ previous # NoTree /\ canonical = NoTree
                 /\ canonical' = previous /\ previous' = NoTree /\ discarded' = NoTree
        BY <2>4, <4>2 DEF ContractTree, ContractAside
      <4>3. CASE /\ discarded # NoTree /\ canonical = NoTree
                 /\ canonical' = discarded /\ discarded' = NoTree /\ previous' = previous
        BY <2>4, <4>3 DEF ContractTree, ContractAside
      <4> QED BY <1>3, <4>1, <4>2, <4>3 DEF RollbackIn
    <3>2. /\ ContractAside = previous /\ ContractTree' = previous /\ ContractAside' = NoTree
      BY <3>1 DEF ContractTree, ContractAside
    <3>3. ContractPhase = "cancelled" \/ Torn
      BY <2>1 DEF Installed, ContractPhase
    <3>4. Contract!Revert BY <2>1, <2>2, <3>1, <3>2, <3>3 DEF Contract!Revert
    <3> QED BY <3>4 DEF Seen
  <2> QED BY <2>3, <2>4
<1>4. CASE RemoveDest(r)
  <2>1. /\ pc[r] = "removeDest" /\ canonical' = canonical /\ previous' = NoTree
        /\ discarded' = NoTree /\ dmeta'.ph = "absent" /\ ~Torn'
    BY <1>4 DEF RemoveDest, DAbsent, Torn
  <2>2. ContractPhase # "absent" /\ ContractPhase' = "absent" /\ ContractSum' = NoTree
    BY <2>1, CancellerAlone DEF ContractPhase, ContractSum, Cancelling
  <2>3. Torn \/ (previous = NoTree /\ discarded = NoTree)
    BY <2>1 DEF Aside
  <2>4. ContractAside' = NoTree /\ ContractTree' \in {ContractTree, NoTree}
    BY <2>1 DEF ContractTree, ContractAside
  <2>5. ~Torn => ContractAside = NoTree /\ ContractTree' = ContractTree
    BY <2>1, <2>3 DEF ContractTree, ContractAside
  <2>6. Torn' = FALSE BY <2>1 DEF Torn
  <2>7. Contract!Remove BY <2>2, <2>4, <2>5, <2>6 DEF Contract!Remove
  <2> QED BY <2>7 DEF Seen
<1> QED BY <1>1, <1>2, <1>3, <1>4

\* Every step, as long as Cancel meets no request at work.
LEMMA StepSeen ==
    ASSUME TInv, DestInv, [Next]_vars, ~overtaken'
    PROVE  Seen
<1>1. CASE RegisterSource \/ FilesChange \/ CleanupSource \/ CrashSource \/ UNCHANGED vars
  <2>1. UNCHANGED <<dmeta, canonical, previous, discarded>> /\ UNCHANGED Torn
    BY <1>1 DEF RegisterSource, FilesChange, CleanupSource, CrashSource, vars, uploadVars,
                treeVars, historyVars, Torn
  <2> QED BY <2>1, UnseenFrame DEF Seen
<1>2. CASE RegisterDest
  BY <1>2, RegisterSeen
<1>3. CASE CrashDest
  <2>1. UNCHANGED <<dmeta, canonical, previous, discarded>> /\ (Torn' \/ UNCHANGED Torn)
    BY <1>3 DEF CrashDest, treeVars, Torn
  <2> QED BY <2>1, UnseenFrame DEF Seen
<1>4. CASE \E r \in Requests : SourceStep(r) \/ CancelSource(r) \/ RemoveSource(r)
  <2>1. UNCHANGED <<dmeta, canonical, previous, discarded>> /\ UNCHANGED Torn
    BY <1>4, SourceStepsFrame DEF treeVars, Torn
  <2> QED BY <2>1, UnseenFrame DEF Seen
<1>5. CASE \E r \in Requests : UploadStep(r) \/ RestoreStep(r)
  BY <1>5, UploadSeen, RestoreSeen
<1>6. CASE \E r \in Requests : FinalizeDestination(r) \/ Tidy(r)
  BY <1>6, FinalizeSeen
<1>7. CASE \E r \in Requests : CancelDest(r) \/ Rollback(r) \/ RollbackIn(r) \/ RemoveDest(r)
  BY <1>7, CancelSeen
<1> QED
  BY <1>1, <1>2, <1>3, <1>4, <1>5, <1>6, <1>7 DEF Next, CancelStep

\* The engine keeps the contract: for any number of requests and pieces, whatever save,
\* sync or rename fails, and however often the daemon dies, every step is a step of the
\* contract or is not seen.
THEOREM EngineKeepsContract == Spec => KeepsContract
<1>1. Init => Contract!Init
  <2> SUFFICES ASSUME Init PROVE Contract!Init
    OBVIOUS
  <2>1. ContractPhase = "absent" /\ ContractSum = NoTree
    BY DEF Init, DAbsent, ContractPhase, ContractSum
  <2>2. ContractTree \in {NoTree, OldTree} /\ ContractAside = NoTree
    BY DEF Init, ContractTree, ContractAside
  <2>3. Torn = FALSE BY DEF Init, Torn
  <2> QED BY <2>1, <2>2, <2>3 DEF Init, Contract!Init
<1>2. EngineInv /\ [Next]_vars => [Contract!Next]_(Contract!vars)
  <2> SUFFICES ASSUME EngineInv, [Next]_vars PROVE [Contract!Next]_(Contract!vars)
    OBVIOUS
  <2>a. FlagsOK /\ FlagsOK'
    BY StepType DEF EngineInv, TInv, TypeOK
  <2>1. CASE overtaken'
    <3>1. overtaken' = TRUE BY <2>1, <2>a DEF FlagsOK
    <3> QED BY <3>1 DEF Contract!Next, Contract!Void
  <2>2. CASE ~overtaken'
    <3>1. ~overtaken BY <2>2, <2>a, OvertakenStays
    <3>2. overtaken' = overtaken BY <2>2, <2>a, <3>1 DEF FlagsOK
    <3>3. Seen BY <2>2, <3>1, StepSeen DEF EngineInv
    <3>4. CASE Unseen /\ Torn'
      <4>1. Torn' = TRUE BY <3>4 DEF Torn
      <4>2. Contract!Tear BY <3>4, <4>1 DEF Unseen, Contract!Tear
      <4> QED BY <3>2, <4>2 DEF Contract!Next
    <3>5. CASE Unseen /\ UNCHANGED Torn
      BY <3>2, <3>5 DEF Unseen, Contract!vars
    <3> QED BY <3>2, <3>3, <3>4, <3>5 DEF Seen, Contract!Next
  <2> QED BY <2>1, <2>2
<1> QED BY <1>1, <1>2, EngineInvariant, PTL DEF Spec, KeepsContract, Contract!Spec
=============================================================================
