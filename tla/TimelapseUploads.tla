--------------------------- MODULE TimelapseUploads ---------------------------
(***************************************************************************)
(* timelapse_upload of device_transport.rs: a camera sends a finished      *)
(* movie over HTTP while its WebSocket stays free.  The upload takes one   *)
(* of two slots, at most one per camera, and holds a lease on the          *)
(* camera's connection: the connection's end or its order to close cancels *)
(* the upload wherever it is, and authority is checked again once the body *)
(* is received and before each post.  Dropping the lease frees the slot.   *)
(* Refusals of the headers and the rate limit change nothing and are left  *)
(* out; what a post does is in CameraDelivery.                             *)
(***************************************************************************)
EXTENDS Naturals, FiniteSets

CONSTANTS
  Cameras,
  Uploads,         \* requests handled at once
  NoCamera,
  Slots,           \* uploads at once; 2 in the code
  MaxConnections   \* bound on the connections of all cameras

ASSUME UploadConstants == Slots \in Nat /\ MaxConnections \in Nat

VARIABLES
  credentials,  \* Cameras -> "valid" or "gone"
  connections,  \* Cameras -> [generation, closing, timelapses], generation 0: none
  generations,  \* connections made so far
  active,       \* DeviceConnections.3: cameras that are uploading
  upload        \* Uploads -> [at, camera, generation]

uploadVars == <<credentials, connections, generations, active, upload>>

Connection(g) == [generation |-> g, closing |-> FALSE, timelapses |-> FALSE]
Offline == Connection(0)
NoUpload == [at |-> "idle", camera |-> NoCamera, generation |-> 0]
Running == {"receiving", "received", "preparing", "posting"}

UploadsTypeOK ==
  /\ credentials \in [Cameras -> {"valid", "gone"}]
  /\ connections \in [Cameras -> [generation : 0..MaxConnections, closing : BOOLEAN,
                                  timelapses : BOOLEAN]]
  /\ generations \in 0..MaxConnections /\ active \subseteq Cameras
  /\ upload \in [Uploads -> [at : Running \cup {"idle", "authenticated"},
                             camera : Cameras \cup {NoCamera}, generation : 0..MaxConnections]]
  /\ \A u \in Uploads : upload[u].at # "idle" => upload[u].camera \in Cameras

UploadsInit ==
  /\ credentials = [c \in Cameras |-> "valid"] /\ connections = [c \in Cameras |-> Offline]
  /\ generations = 0 /\ active = {}
  /\ upload = [u \in Uploads |-> NoUpload]

---------------------------------------------------------------------------
\* The connections, as CameraSession has them.

Reconnect(c) ==
  /\ connections[c] = Offline /\ credentials[c] = "valid" /\ generations < MaxConnections
  /\ generations' = generations + 1
  /\ connections' = [connections EXCEPT ![c] = Connection(generations')]
  /\ UNCHANGED <<credentials, active, upload>>

\* Also a camera that takes its consent back: the session ends.
Disconnected(c) ==
  /\ connections[c] # Offline /\ connections' = [connections EXCEPT ![c] = Offline]
  /\ UNCHANGED <<credentials, generations, active, upload>>

OrderClose(c) ==
  /\ connections[c] # Offline /\ ~connections[c].closing
  /\ connections' = [connections EXCEPT ![c].closing = TRUE]
  /\ UNCHANGED <<credentials, generations, active, upload>>

RevokeCamera(c) ==
  /\ credentials[c] = "valid" /\ credentials' = [credentials EXCEPT ![c] = "gone"]
  /\ UNCHANGED <<connections, generations, active, upload>>

\* MediaCapabilities
OfferTimelapses(c) ==
  /\ connections[c] # Offline /\ connections' = [connections EXCEPT ![c].timelapses = TRUE]
  /\ UNCHANGED <<credentials, generations, active, upload>>

---------------------------------------------------------------------------
\* The upload.

AuthenticateUpload(u, c) ==
  /\ upload[u].at = "idle" /\ credentials[c] = "valid"
  /\ upload' = [upload EXCEPT ![u].at = "authenticated", ![u].camera = c]
  /\ UNCHANGED <<credentials, connections, generations, active>>

SlotFree(c) == Cardinality(active) < Slots /\ c \notin active

\* The table of connections is locked while the slot is taken.
TakeSlot(u) ==
  LET c == upload[u].camera IN
  /\ upload[u].at = "authenticated"
  /\ IF connections[c].timelapses /\ ~connections[c].closing /\ SlotFree(c)
     THEN /\ active' = active \cup {c}
          /\ upload' = [upload EXCEPT ![u].at = "receiving",
                                      ![u].generation = connections[c].generation]
     ELSE /\ upload' = [upload EXCEPT ![u] = NoUpload] /\ UNCHANGED active
  /\ UNCHANGED <<credentials, connections, generations>>

\* The lease's watch: its connection has ended or is told to close.
Signalled(u) ==
  LET c == connections[upload[u].camera] IN c.generation # upload[u].generation \/ c.closing

\* Mutant: the slot is freed by the code that answers, not by the lease.
KeptOnCancel(u) == IF Signalled(u) THEN active ELSE active \ {upload[u].camera}

Released(u) == active \ {upload[u].camera}

EndUpload(u) ==
  /\ upload' = [upload EXCEPT ![u] = NoUpload] /\ active' = Released(u)
  /\ UNCHANGED <<credentials, connections, generations>>

\* The select is biased to the signal; a time limit or a failing step ends the
\* upload too.
UploadCancelled(u) == upload[u].at \in Running /\ Signalled(u) /\ EndUpload(u)
UploadFails(u) == upload[u].at \in Running /\ EndUpload(u)

\* TimelapseLease::authorized
LeaseAuthorized(u) ==
  LET c == upload[u].camera IN
  ~Signalled(u) /\ credentials[c] = "valid" /\ connections[c].timelapses

Proceed(u, from, to) ==
  /\ upload[u].at = from
  /\ IF LeaseAuthorized(u)
     THEN /\ upload' = [upload EXCEPT ![u].at = to]
          /\ UNCHANGED <<credentials, connections, generations, active>>
     ELSE EndUpload(u)

\* The body was received; membership and the file were looked at; and right
\* before the request to Discord.
BodyReceived(u) == Proceed(u, "receiving", "received")
PrepareMovie(u) == Proceed(u, "received", "preparing")
PostMovie(u) == Proceed(u, "preparing", "posting")

UploadsNext ==
  \/ \E c \in Cameras : \/ Reconnect(c) \/ Disconnected(c) \/ OrderClose(c)
                        \/ RevokeCamera(c) \/ OfferTimelapses(c)
  \/ \E u \in Uploads : \/ \E c \in Cameras : AuthenticateUpload(u, c)
                        \/ TakeSlot(u)
                        \/ UploadCancelled(u) \/ UploadFails(u)
                        \/ BodyReceived(u) \/ PrepareMovie(u) \/ PostMovie(u)

UploadsSpec == UploadsInit /\ [][UploadsNext]_uploadVars

---------------------------------------------------------------------------
\* The slots are exactly the uploads that run, one per camera and never more
\* than the limit, whichever way each of them ends; so a camera that is cut
\* off is not refused its next upload, and a stale lease never frees the slot
\* of the upload after it.
UploadSlotsHeld ==
  LET running == {u \in Uploads : upload[u].at \in Running} IN
  /\ active = {upload[u].camera : u \in running}
  /\ \A u, v \in running : upload[u].camera = upload[v].camera => u = v
  /\ Cardinality(active) <= Slots

===========================================================================
