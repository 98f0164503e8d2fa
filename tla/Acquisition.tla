---------------------------- MODULE Acquisition ----------------------------
(***************************************************************************)
(* The public inputs of the dataset on the operator's disk (sources.py):   *)
(* a download is written to a partial file, resumed when the artifact is   *)
(* pinned by a digest, checked, moved into place and recorded.  A process  *)
(* can end between any two of these steps.                                 *)
(*                                                                         *)
(* A file is the sequence of its chunks, each named by the version of the  *)
(* source it was read from.  The source of an artifact changes at most     *)
(* once, from version 1 to version 2.                                      *)
(***************************************************************************)
EXTENDS Integers, Sequences, FiniteSets

CONSTANTS
  Downloads,  \* the artifacts with a URL
  ByHand,     \* those the operator puts there by hand
  Pinned,     \* those whose size and digest the inventory states (version 1)
  ShortReads  \* whether a connection may end early without an error

Artifacts == Downloads \cup ByHand
ASSUME Sources == Pinned \subseteq Downloads

VARIABLES
  online,  \* the version each source has now
  disk,    \* the file at the artifact's destination, or none
  part,    \* the partial file of a download, or none
  record,  \* what the provenance file says of the file, or none
  fetch    \* the download in progress, or none

sources == <<online, disk, part, record, fetch>>

None == <<>>
Whole(version) == <<version, version>>

\* inspect_artifact
Verified(a) == disk[a] # None /\ IF a \in Pinned THEN disk[a] = Whole(1) ELSE record[a] = disk[a]

\* The files an operator begins with: none, or one that was acquired before.
AcquisitionInit(file) ==
  /\ online = [a \in Artifacts |-> 1]
  /\ disk = [a \in Artifacts |-> file]
  /\ part = [a \in Artifacts |-> None]
  /\ record = [a \in Artifacts |-> file]
  /\ fetch = None

Publish(a) ==
  /\ online[a] = 1
  /\ online' = [online EXCEPT ![a] = 2]
  /\ UNCHANGED <<disk, part, record, fetch>>

\* A bug a mutant can have: the partial file of any artifact is resumed.
ResumesAll(a, overwrite) == IF overwrite THEN None ELSE part[a]

\* What download_artifact leaves of an earlier attempt.
Resumable(a, overwrite) == IF overwrite \/ a \notin Pinned THEN None ELSE part[a]

\* download_artifact up to the open response.  A range that begins at the end of the
\* source is refused by the server, and the download raises; otherwise the server may
\* send the range, which is appended, or the whole, for which the file begins again.
Open(a, overwrite) ==
  LET kept == Resumable(a, overwrite)
  IN /\ fetch = None /\ a \in Downloads
     /\ disk[a] = None \/ overwrite
     /\ IF Len(kept) = Len(Whole(1)) THEN fetch' = None /\ part' = [part EXCEPT ![a] = kept]
        ELSE \E from \in {0, Len(kept)} :
               /\ fetch' = [of |-> a, version |-> online[a], sent |-> from, step |-> "opened"]
               /\ part' = [part EXCEPT ![a] = SubSeq(kept, 1, from)]
     /\ UNCHANGED <<online, disk, record>>

\* The next chunk.
Receive ==
  /\ fetch # None /\ fetch.step # "installed" /\ fetch.sent < Len(Whole(1))
  /\ part' = [part EXCEPT ![fetch.of] = Append(@, fetch.version)]
  /\ fetch' = [fetch EXCEPT !.sent = @ + 1, !.step = "reading"]
  /\ UNCHANGED <<online, disk, record>>

\* The checks of the partial file when the response has ended: one that is pinned and
\* wrong is deleted, any other takes the place of the file.
Install ==
  LET a == fetch.of
      good == a \notin Pinned \/ part[a] = Whole(1)
  IN /\ fetch # None /\ fetch.step = "reading"
     /\ ShortReads \/ fetch.sent = Len(Whole(1))
     /\ disk' = [disk EXCEPT ![a] = IF good THEN part[a] ELSE @]
     /\ part' = [part EXCEPT ![a] = None]
     /\ fetch' = IF good THEN [fetch EXCEPT !.step = "installed"] ELSE None
     /\ UNCHANGED <<online, record>>

\* The end of download_artifact: _write_provenance.
Provenance ==
  /\ fetch # None /\ fetch.step = "installed"
  /\ record' = [record EXCEPT ![fetch.of] = disk[fetch.of]]
  /\ fetch' = None
  /\ UNCHANGED <<online, disk, part>>

\* The operator copies a published file by hand.
Stage(a) ==
  /\ fetch = None /\ a \in ByHand
  /\ disk' = [disk EXCEPT ![a] = Whole(online[a])]
  /\ UNCHANGED <<online, part, record, fetch>>

\* record_artifact
Record(a) ==
  /\ fetch = None /\ disk[a] # None
  /\ a \in Pinned => Verified(a)
  /\ record' = [record EXCEPT ![a] = disk[a]]
  /\ UNCHANGED <<online, disk, part, fetch>>

\* The process of a download ends, and what it wrote stays.
FetchCrash ==
  /\ fetch # None
  /\ fetch' = None
  /\ UNCHANGED <<online, disk, part, record>>

\* A file that passes for verified holds one version of its source: no resumed
\* download, overwrite or crash ever blesses the beginning of one version with the end
\* of another (the comment at sources.py:221).
NeverSpliced ==
  \A a \in Artifacts : Verified(a) => \A i, j \in DOMAIN disk[a] : disk[a][i] = disk[a][j]
=============================================================================
