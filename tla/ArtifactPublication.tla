------------------------ MODULE ArtifactPublication ------------------------
(***************************************************************************)
(* LocalArtifactStore: publication of a payload, its manifest and its      *)
(* completion marker as three files created by exclusive hard links, the   *)
(* removal of what a failed publication linked, and verification, which    *)
(* reads the three files one after the other.                              *)
(*                                                                         *)
(* Calls are publish_* calls, each made once, of which any number may run  *)
(* in different processes; each step of a call touches one file.  Files    *)
(* are named by content, so a payload file always has the right content    *)
(* (it is hashed and reloaded before it is linked) and the manifest, which *)
(* carries the time of its creation, is identified with its call.          *)
(* Temporary files have unique names and are left out.                     *)
(***************************************************************************)
EXTENDS Naturals

CONSTANTS
  Calls,       \* publications
  Contents,    \* artifact type and content hash: what a file name is made of
  Content,     \* Content[c]: what c publishes
  Readers,     \* verifications, each made once
  Wanted,      \* Wanted[r]: the content r verifies
  PowerFails,  \* whether the machine may lose power
  None         \* no file

ASSUME ContentAssumption == Content \in [Calls -> Contents] /\ Wanted \in [Readers -> Contents]
ASSUME NoFileAssumption == None \notin Calls

VARIABLES
  payload,   \* payload[k]: whether the payload file of k exists
  manifest,  \* manifest[k]: the call whose manifest is at k's manifest path
  marker,    \* marker[k]: the call whose manifest's hash k's marker holds
  step,      \* step[c]: the publication's next step, or how it ended
  hashed,    \* hashed[c]: the manifest c hashed for its marker
  position,  \* position[r]: files looked at so far
  verdict,   \* verdict[r]: "reading", "accepted" or "rejected"
  read,      \* read[r]: the manifest r read
  disk       \* the files as the directory was last written out

files == <<payload, manifest, marker>>
directory == [payload |-> payload, manifest |-> manifest, marker |-> marker]
readerVars == <<position, verdict, read>>
publicationVars == <<files, step, hashed, readerVars, disk>>

\* "undo ..." removes a file; "returned", "raised" and "killed" are ends.
Ends == {"returned", "raised", "killed"}
CallSteps == {"payload", "manifest", "hash", "marker", "verify",
              "undo marker", "undo manifest", "undo payload"} \cup Ends

PublicationInit ==
  /\ payload = [k \in Contents |-> FALSE]
  /\ manifest = [k \in Contents |-> None]
  /\ marker = [k \in Contents |-> None]
  /\ step = [c \in Calls |-> "payload"]
  /\ hashed = [c \in Calls |-> None]
  /\ position = [r \in Readers |-> 0]
  /\ verdict = [r \in Readers |-> "reading"]
  /\ read = [r \in Readers |-> None]
  /\ disk = directory

\* What _verified_payload accepts when nothing moves under it.
Verifies(k) == payload[k] /\ manifest[k] # None /\ marker[k] = manifest[k]

-----------------------------------------------------------------------------
(* Publication *)

Goto(c, from, to) == step[c] = from /\ step' = [step EXCEPT ![c] = to]

\* Mutant: the payload is put in place by a rename, which overwrites.
RenamePayload(c) ==
  /\ Goto(c, "payload", "manifest")
  /\ payload' = [payload EXCEPT ![Content[c]] = TRUE]
  /\ UNCHANGED <<manifest, marker, hashed, readerVars, disk>>

\* _publish_payload links the payload; FileExistsError when it is there.
LinkPayload(c) ==
  /\ IF payload[Content[c]]
       THEN Goto(c, "payload", "raised") /\ UNCHANGED payload
       ELSE /\ Goto(c, "payload", "manifest")
            /\ payload' = [payload EXCEPT ![Content[c]] = TRUE]
  /\ UNCHANGED <<manifest, marker, hashed, readerVars, disk>>

\* _publish_manifest
LinkManifest(c) ==
  /\ IF manifest[Content[c]] # None
       THEN Goto(c, "manifest", "undo payload") /\ UNCHANGED manifest
       ELSE /\ Goto(c, "manifest", "hash")
            /\ manifest' = [manifest EXCEPT ![Content[c]] = c]
  /\ UNCHANGED <<payload, marker, hashed, readerVars, disk>>

\* _publish_completion_marker hashes the manifest file ...
HashManifest(c) ==
  /\ IF manifest[Content[c]] = None
       THEN Goto(c, "hash", "undo manifest") /\ UNCHANGED hashed
       ELSE /\ Goto(c, "hash", "marker")
            /\ hashed' = [hashed EXCEPT ![c] = manifest[Content[c]]]
  /\ UNCHANGED <<files, readerVars, disk>>

\* ... and links a marker that holds the hash.
LinkMarker(c) ==
  /\ IF marker[Content[c]] # None
       THEN Goto(c, "marker", "undo manifest") /\ UNCHANGED marker
       ELSE /\ Goto(c, "marker", "verify")
            /\ marker' = [marker EXCEPT ![Content[c]] = hashed[c]]
  /\ UNCHANGED <<payload, manifest, hashed, readerVars, disk>>

\* The published artifact verifies and its reference is returned.
Return(c) ==
  /\ Verifies(Content[c])
  /\ Goto(c, "verify", "returned")
  /\ UNCHANGED <<files, hashed, readerVars, disk>>

\* An exception: nothing linked yet, or what was linked is to be removed.  A
\* link is validated after it was made, so the file may be there already.
Raise(c) ==
  /\ \/ Goto(c, "payload", "raised")
     \/ Goto(c, "manifest", "undo payload")
     \/ Goto(c, "hash", "undo manifest")
     \/ Goto(c, "marker", "undo manifest")
     \/ Goto(c, "verify", "undo marker")
  /\ UNCHANGED <<files, hashed, readerVars, disk>>

\* Mutant: the payload is removed first, the marker last.
UndoPayloadFirst(c) ==
  /\ \/ /\ Goto(c, "undo marker", "undo manifest")
        /\ payload' = [payload EXCEPT ![Content[c]] = FALSE]
        /\ UNCHANGED <<manifest, marker>>
     \/ /\ Goto(c, "undo manifest", "undo payload")
        /\ manifest' = [manifest EXCEPT ![Content[c]] = None]
        /\ UNCHANGED <<payload, marker>>
     \/ /\ Goto(c, "undo payload", "raised")
        /\ marker' = [marker EXCEPT ![Content[c]] = None]
        /\ UNCHANGED <<payload, manifest>>
  /\ UNCHANGED <<hashed, readerVars, disk>>

\* The files are unlinked in the order marker, manifest, payload, whoever
\* linked what is at those paths.
Undo(c) ==
  /\ \/ /\ Goto(c, "undo marker", "undo manifest")
        /\ marker' = [marker EXCEPT ![Content[c]] = None]
        /\ UNCHANGED <<payload, manifest>>
     \/ /\ Goto(c, "undo manifest", "undo payload")
        /\ manifest' = [manifest EXCEPT ![Content[c]] = None]
        /\ UNCHANGED <<payload, marker>>
     \/ /\ Goto(c, "undo payload", "raised")
        /\ payload' = [payload EXCEPT ![Content[c]] = FALSE]
        /\ UNCHANGED <<manifest, marker>>
  /\ UNCHANGED <<hashed, readerVars, disk>>

\* The publishing process is killed; what it linked stays.
Kill(c) ==
  /\ step[c] \notin Ends
  /\ step' = [step EXCEPT ![c] = "killed"]
  /\ UNCHANGED <<files, hashed, readerVars, disk>>

-----------------------------------------------------------------------------
(* Verification *)

\* The files _verified_payload looks at, in its order: it reads the payload,
\* finds manifest and marker, reads the manifest and reads the marker.
FileAt(i, k) ==
  CASE i = 0 -> payload[k]
    [] i \in {1, 3} -> manifest[k] # None
    [] i \in {2, 4} -> marker[k] # None

\* Mutant: the verdict falls with the manifest, the marker having been seen.
ReadNoMarker(r) ==
  LET k == Wanted[r] IN
  /\ verdict[r] = "reading"
  /\ position' = [position EXCEPT ![r] = @ + 1]
  /\ verdict' = [verdict EXCEPT ![r] = IF ~FileAt(position[r], k) THEN "rejected"
                                       ELSE IF position[r] = 3 THEN "accepted" ELSE @]
  /\ UNCHANGED <<files, step, hashed, read, disk>>

\* One read of _verified_payload; a missing file rejects, and so does a marker
\* that holds another hash than that of the manifest read before it.
ReadNext(r) ==
  LET k == Wanted[r]
      last == position[r] = 4
  IN
  /\ verdict[r] = "reading"
  /\ position' = [position EXCEPT ![r] = @ + 1]
  /\ read' = IF position[r] = 3 THEN [read EXCEPT ![r] = manifest[k]] ELSE read
  /\ verdict' = [verdict EXCEPT ![r] =
       IF ~FileAt(position[r], k) \/ (last /\ marker[k] # read[r]) THEN "rejected"
       ELSE IF last THEN "accepted" ELSE @]
  /\ UNCHANGED <<files, step, hashed, disk>>

-----------------------------------------------------------------------------
(* The directory on disk *)

\* The file system writes the directory out in its own time (external):
\* os.link is not followed by an fsync of the directory.
WriteOut ==
  /\ PowerFails
  /\ disk' = directory
  /\ UNCHANGED <<files, step, hashed, readerVars>>

\* Power loss: every process ends and the directory is what was written out.
LosePower ==
  /\ PowerFails
  /\ payload' = disk.payload /\ manifest' = disk.manifest /\ marker' = disk.marker
  /\ step' = [c \in Calls |-> IF step[c] \in Ends THEN step[c] ELSE "killed"]
  /\ verdict' = [r \in Readers |-> IF verdict[r] = "reading" THEN "rejected" ELSE verdict[r]]
  /\ UNCHANGED <<hashed, position, read, disk>>

-----------------------------------------------------------------------------
PublicationNext ==
  \/ \E c \in Calls :
       \/ LinkPayload(c) \/ LinkManifest(c) \/ HashManifest(c) \/ LinkMarker(c)
       \/ Return(c) \/ Raise(c) \/ Undo(c) \/ Kill(c)
  \/ \E r \in Readers : ReadNext(r)
  \/ WriteOut \/ LosePower

PublicationSpec == PublicationInit /\ [][PublicationNext]_publicationVars

-----------------------------------------------------------------------------
(* Properties *)

MaybeCall == Calls \cup {None}

PublicationTypeOK ==
  /\ payload \in [Contents -> BOOLEAN]
  /\ manifest \in [Contents -> MaybeCall]
  /\ marker \in [Contents -> MaybeCall]
  /\ disk \in [payload : [Contents -> BOOLEAN], manifest : [Contents -> MaybeCall],
               marker : [Contents -> MaybeCall]]
  /\ step \in [Calls -> CallSteps]
  /\ hashed \in [Calls -> MaybeCall]
  /\ position \in [Readers -> 0..5]
  /\ verdict \in [Readers -> {"reading", "accepted", "rejected"}]
  /\ read \in [Readers -> MaybeCall]

\* Calls that have linked files and may still link or remove some.
AtWork == {c \in Calls : step[c] \notin Ends \cup {"payload"}}

\* The payload file is the lock of its content: at most one call works on it,
\* and it does so for as long as it may touch the other two files.
OneAtWork ==
  /\ \A c, d \in AtWork : Content[c] = Content[d] => c = d
  /\ \A c \in AtWork : payload[Content[c]]

\* Files appear as payload, manifest, marker and disappear in reverse, so that
\* whenever a marker exists it vouches for the manifest beside it; the same
\* holds of the directory as power loss would leave it.
Sealed(payloads, manifests, markers) ==
  \A k \in Contents :
    /\ manifests[k] # None => payloads[k]
    /\ markers[k] # None => markers[k] = manifests[k]

SealedInOrder == Sealed(payload, manifest, marker) /\ Sealed(disk.payload, disk.manifest, disk.marker)

\* What a call finds, knowing that it is alone with its content.
FoundInOrder ==
  \A c \in AtWork :
    /\ step[c] \in {"manifest", "undo payload"} => manifest[Content[c]] = None
    /\ step[c] \notin {"verify", "undo marker"} => marker[Content[c]] = None
    /\ step[c] = "marker" => hashed[c] # None /\ hashed[c] = manifest[Content[c]]

\* A verification ends with its fifth look.
ReadersEnd == \A r \in Readers : verdict[r] = "reading" => position[r] < 5

\* The inductive invariant.
PublicationInv == PublicationTypeOK /\ OneAtWork /\ SealedInOrder /\ FoundInOrder /\ ReadersEnd

\* A returned reference verifies, now and whatever other calls try, undo or
\* leave behind when they are killed.
ReturnedVerifies == \A c \in Calls : step[c] = "returned" => Verifies(Content[c])

\* Reading the files one by one while others publish and undo accepts only
\* what verifies as a whole at the moment of acceptance.
AcceptsWhatVerifies ==
  [][\A r \in Readers : verdict[r] = "reading" /\ verdict'[r] = "accepted" =>
       Verifies(Wanted[r])]_publicationVars

\* The store implements the abstract one.
Published == INSTANCE PublishedArtifacts WITH
  visible <- {k \in Contents : Verifies(k)},
  granted <- {k \in Contents : \E c \in Calls : Content[c] = k /\ step[c] = "returned"}

ImplementsPublished == Published!PublishedSpec
=============================================================================
