----------------------------- MODULE PartUpload -----------------------------
(***************************************************************************)
(* Multipart uploads: Client.Upload of src/s3c/multipart.go, which streams *)
(* a reader with several part requests in flight, and uploadHot of         *)
(* src/build/upload.go, which sends a shard file part by part and may      *)
(* punch each part out of the file once the bucket has acknowledged it.    *)
(*                                                                         *)
(* The source is parts 1 .. Size; what part n holds is n, and Missing once *)
(* it is punched. The bucket is external: parts stored under an open       *)
(* upload, and an object that appears when the upload is completed.        *)
(***************************************************************************)
EXTENDS Integers, FiniteSets, SequencesExt

CONSTANTS
  MaxParts,      \* bound: parts of the source
  Concurrency,   \* Upload's concurrency
  MaxFaults      \* bound: requests that fail

\* Upload raises a concurrency below 1 to 1.
ASSUME UploadAssumption == MaxParts \in Nat /\ Concurrency \in Nat \ {0} /\ MaxFaults \in Nat

VARIABLES
  caller,    \* "Upload", "uploadHot" or "uploadHotConsume"
  exclusive, \* whether completion is a CAS-create
  source,    \* what each part of the source reads as
  next,      \* parts read so far
  held,      \* the part the producer has read and waits to start; 0 if none
  flying,    \* the parts whose PUT is in flight
  parts,     \* the completed parts, in the order their answers came
  erred,     \* uploadErr is set and the context canceled
  step,      \* "create", "parts", "complete", "abort", "ok" or "failed"
  upload,    \* the bucket: "none", "open", "completed" or "aborted"
  stored,    \* the bucket: what it stores under the upload, by part number
  object,    \* the bucket: the object's parts; <<>> if there is no object
  faults     \* requests that have failed

uploadVars == <<caller, exclusive, source, next, held, flying, parts, erred, step, upload, stored, object, faults>>
clientVars == <<caller, exclusive, source, next, held, flying, parts, erred>>
bucketVars == <<upload, stored, object>>

Missing == 0
Rival == <<-1>>
Size == Len(source)

-----------------------------------------------------------------------------
(* The bucket.                                                             *)

KeepPart(n, content) == [k \in DOMAIN stored \cup {n} |-> IF k = n THEN content ELSE stored[k]]

\* Completion publishes the listed parts, which must be in order and stored.
Completable(list) ==
  /\ upload = "open"
  /\ \A i \in DOMAIN list : list[i] \in DOMAIN stored /\ (i > 1 => list[i - 1] < list[i])

Published(list) ==
  /\ Completable(list)
  /\ upload' = "completed" /\ object' = [i \in DOMAIN list |-> stored[list[i]]]
  /\ stored' = <<>>

Fault == faults < MaxFaults /\ faults' = faults + 1

-----------------------------------------------------------------------------
UploadIdle ==
  /\ caller = "Upload" /\ exclusive = FALSE /\ source = <<>>
  /\ next = 0 /\ held = 0 /\ flying = {} /\ parts = <<>> /\ erred = FALSE /\ step = "create"
  /\ upload = "none" /\ stored = <<>> /\ object = <<>> /\ faults = 0

InitUpload ==
  /\ caller \in {"Upload", "uploadHot", "uploadHotConsume"}
  /\ exclusive \in (IF caller = "Upload" THEN BOOLEAN ELSE {FALSE})
  /\ \E n \in 0 .. MaxParts : source = [i \in 1 .. n |-> i]
  /\ object \in {<<>>, Rival}
  /\ next = 0 /\ held = 0 /\ flying = {} /\ parts = <<>> /\ erred = FALSE /\ step = "create"
  /\ upload = "none" /\ stored = <<>> /\ faults = 0

MultipartCreate ==
  /\ step = "create"
  /\ \/ step' = "parts" /\ upload' = "open" /\ UNCHANGED faults
     \/ Fault /\ step' = "failed" /\ upload' \in {"none", "open"}
  /\ UNCHANGED <<clientVars, stored, object>>

-----------------------------------------------------------------------------
(* Client.Upload: a producer, the part goroutines, and the collector,      *)
(* which takes every result as it comes.                                   *)

Streaming == caller = "Upload" /\ step = "parts"
Producing == Streaming /\ held = 0 /\ next < Size
Starting == Streaming /\ held # 0 /\ Cardinality(flying) < Concurrency
Canceled == Streaming /\ held # 0 /\ erred
Drained == Streaming /\ held = 0 /\ flying = {} /\ next = Size

\* The producer reads the next part.
Produce ==
  /\ Producing
  /\ next' = next + 1 /\ held' = next'
  /\ UNCHANGED <<caller, exclusive, source, flying, parts, erred, step, bucketVars, faults>>

\* sem <- struct{}{}.
Launch ==
  /\ Starting
  /\ flying' = flying \cup {held} /\ held' = 0
  /\ UNCHANGED <<caller, exclusive, source, next, parts, erred, step, bucketVars, faults>>

\* <-uctx.Done(): the producer gives up the part and stops. The reader is at its end then.
GiveUp ==
  /\ Canceled
  /\ held' = 0 /\ next' = Size
  /\ UNCHANGED <<caller, exclusive, source, flying, parts, erred, step, bucketVars, faults>>

\* The reader fails.
SourceFails ==
  /\ Producing /\ Fault
  /\ next' = Size /\ erred' = TRUE
  /\ UNCHANGED <<caller, exclusive, source, held, flying, parts, step, bucketVars>>

\* A part's PUT is answered, or given up on: by its own failure or the canceled context.
\* One that was given up on may have been stored.
PartPut(n) ==
  /\ Streaming /\ n \in flying
  /\ flying' = flying \ {n}
  /\ \/ /\ stored' = KeepPart(n, source[n]) /\ parts' = Append(parts, n)
        /\ UNCHANGED <<erred, faults>>
     \/ /\ IF erred THEN UNCHANGED faults ELSE Fault
        /\ erred' = TRUE
        /\ stored' \in {stored, KeepPart(n, source[n])}
        /\ UNCHANGED parts
  /\ UNCHANGED <<caller, exclusive, source, next, held, step, upload, object>>

ByNumber(list) ==
  CHOOSE s \in SetToSeqs(ToSet(list)) : \A i, j \in DOMAIN s : i < j => s[i] < s[j]

\* The results channel is closed: every part is accounted for.
Collected ==
  /\ Drained
  /\ step' = IF erred \/ parts = <<>> THEN "abort" ELSE "complete"
  /\ parts' = ByNumber(parts)
  /\ UNCHANGED <<caller, exclusive, source, next, held, flying, erred, bucketVars, faults>>

-----------------------------------------------------------------------------
(* uploadHot: one part at a time.                                          *)

Sending == caller # "Upload" /\ step = "parts" /\ next < Size
Sent == caller # "Upload" /\ step = "parts" /\ next = Size

\* Mutant: a part is punched out as soon as it is sent.
HotPartPunchesFirst ==
  /\ Sending
  /\ LET n == next + 1 IN
     /\ source' \in {source} \cup (IF caller = "uploadHotConsume" THEN {[source EXCEPT ![n] = Missing]} ELSE {})
     /\ \/ /\ stored' = KeepPart(n, source[n]) /\ parts' = Append(parts, n) /\ next' = n
           /\ UNCHANGED <<step, faults>>
        \/ /\ Fault /\ step' = "failed"
           /\ stored' \in {stored, KeepPart(n, source[n])}
           /\ UNCHANGED <<next, parts>>
  /\ UNCHANGED <<caller, exclusive, held, flying, erred, upload, object>>

\* A part is read, sent, and once it is acknowledged punched out if the file system can.
\* An error returns at once and leaves the upload behind.
HotPart ==
  /\ Sending
  /\ LET n == next + 1 IN
     \/ /\ stored' = KeepPart(n, source[n]) /\ parts' = Append(parts, n) /\ next' = n
        /\ source' \in {source} \cup (IF caller = "uploadHotConsume" THEN {[source EXCEPT ![n] = Missing]} ELSE {})
        /\ UNCHANGED <<step, faults>>
     \/ /\ Fault /\ step' = "failed"
        /\ stored' \in {stored, KeepPart(n, source[n])}
        /\ UNCHANGED <<source, next, parts>>
  /\ UNCHANGED <<caller, exclusive, held, flying, erred, upload, object>>

HotEnd ==
  /\ Sent
  /\ step' = IF parts = <<>> THEN "failed" ELSE "complete"
  /\ UNCHANGED <<clientVars, bucketVars, faults>>

-----------------------------------------------------------------------------
\* The completion succeeds, is refused because the key exists, fails without effect, or
\* leaves the client in doubt having taken effect. Upload aborts after an error.
MultipartComplete ==
  /\ step = "complete"
  /\ LET refused == exclusive /\ object # <<>> IN
     \/ ~refused /\ Published(parts) /\ step' = "ok" /\ UNCHANGED faults
     \/ /\ IF refused \/ ~Completable(parts) THEN UNCHANGED faults ELSE Fault
        /\ step' = IF caller = "Upload" THEN "abort" ELSE "failed"
        /\ UNCHANGED bucketVars
     \/ ~refused /\ Fault /\ Published(parts) /\ step' = IF caller = "Upload" THEN "abort" ELSE "failed"
  /\ UNCHANGED clientVars

\* The abort is best effort: its error is dropped.
MultipartAbort ==
  /\ step = "abort" /\ step' = "failed"
  /\ \/ upload = "open" /\ upload' = "aborted" /\ stored' = <<>> /\ UNCHANGED faults
     \/ upload # "open" /\ UNCHANGED <<upload, stored, faults>>
     \/ upload = "open" /\ Fault /\ UNCHANGED <<upload, stored>>
  /\ UNCHANGED <<clientVars, object>>

ClientStep ==
  \/ MultipartCreate \/ Produce \/ Launch \/ GiveUp \/ Collected
  \/ \E n \in flying : PartPut(n)
  \/ HotPart \/ HotEnd \/ MultipartComplete \/ MultipartAbort

UploadNext == ClientStep \/ SourceFails

UploadSpec == InitUpload /\ [][UploadNext]_uploadVars

-----------------------------------------------------------------------------
Whole == [i \in 1 .. Size |-> i]

\* What each of the client's steps waits for.
CanStep ==
  \/ step \in {"create", "complete", "abort"}
  \/ Producing \/ Starting \/ Canceled \/ Drained
  \/ Streaming /\ flying # {}
  \/ Sending \/ Sent

ObjectIsWhole ==
  /\ object \in {<<>>, Rival, Whole}
  /\ step = "ok" => object = Whole
  /\ \A n \in 1 .. Size : source[n] = Missing => object = Whole \/ (upload = "open" /\ n \in DOMAIN stored)

\* What appears under the key is the whole source in its order, whichever order the parts
\* were answered in and whatever failed or was punched meanwhile; a punched part is with the
\* bucket; an upload that reported success is there; and no upload waits for itself.
UploadIsWhole ==
  /\ ObjectIsWhole
  /\ step \in {"ok", "failed"} \/ CanStep
=============================================================================
