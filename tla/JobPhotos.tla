----------------------------- MODULE JobPhotos ------------------------------
(***************************************************************************)
(* Posting a job with photos: the form of the app (post-job.tsx), which    *)
(* uploads photos, posts the job and attaches them to it, and what the     *)
(* server does: it stores the bytes before the row of a file, and counts   *)
(* the photos of a job before it inserts one more, in statements that      *)
(* commit by themselves.  The customer's other devices attach photos too.  *)
(***************************************************************************)
EXTENDS Tables

CONSTANTS
  Photos,      \* images: each is uploaded once, under a fresh storage key
  JobIds,      \* jobs the form may come to post: bounds the attempts
  AttachCalls, \* requests to attach in flight
  MAX_PHOTOS   \* 8 in the form and in attachToJob

ASSUME MaxPhotosPositive == MAX_PHOTOS \in Nat \ {0}
ASSUME AbsentIsNoUpload == Absent \notin {"put", "insert", "answer"}
ASSUME AttachCallsFinite == IsFiniteSet(AttachCalls)

VARIABLES
  bytes,      \* what the storage has
  fileRow,    \* rows of files
  upload,     \* the upload of each photo, while it runs
  photoIds,   \* the form's list
  posting,    \* the form's submit, while it runs
  job,        \* jobs posted: whether photos may still be added
  attached,   \* rows of job_photos
  attachCall  \* the requests to attach in flight

photoVars ==
  <<bytes, fileRow, upload, photoIds, posting, job, attached, attachCall>>

Posting == [at : {"create", "answer", "attach", "left"}, job : OrAbsent(JobIds), left : SUBSET Photos]
AttachCall == [job : JobIds, file : Photos, counted : OrAbsent(Nat), form : BOOLEAN]

ASSUME AbsentIsNoPosting == Absent \notin Posting

PhotosTypeOK ==
  /\ bytes \subseteq Photos
  /\ fileRow \subseteq Photos
  /\ upload \in [Photos -> {Absent, "put", "insert", "answer"}]
  /\ photoIds \subseteq Photos
  /\ posting \in OrAbsent(Posting)
  /\ job \in [JobIds -> {Absent, "OPEN", "STAFFED"}]
  /\ attached \in [JobIds -> SUBSET Photos]
  /\ attachCall \in [AttachCalls -> OrAbsent(AttachCall)]

PhotosInit ==
  /\ bytes = {} /\ fileRow = {}
  /\ upload = [p \in Photos |-> Absent]
  /\ photoIds = {}
  /\ posting = Absent
  /\ job = [j \in JobIds |-> Absent]
  /\ attached = [j \in JobIds |-> {}]
  /\ attachCall = [r \in AttachCalls |-> Absent]

fileVars == <<bytes, fileRow, upload>>
formVars == <<photoIds, posting>>
jobVars == <<job, attached, attachCall>>

-----------------------------------------------------------------------------
(* Faults: definitions of this module as a plausible slip would have       *)
(* written them, used only to see that the properties below notice them.   *)

\* The limit is passed by one.
Fault_roomForMore(n) == n <= MAX_PHOTOS

roomFor(n) == n < MAX_PHOTOS

\* PrimaryButton is disabled while it is loading.
mayPress == posting = Absent

-----------------------------------------------------------------------------
(* pickPhoto and upload *)

\* One photo at a time, and no more than the job may have.
pickPhoto(p) ==
  /\ \A q \in Photos : upload[q] = Absent
  /\ p \notin fileRow
  /\ Cardinality(photoIds) < MAX_PHOTOS
  /\ upload' = [upload EXCEPT ![p] = "put"]
  /\ UNCHANGED <<bytes, fileRow, formVars, jobVars>>

putBytes(p) ==
  /\ upload[p] = "put"
  /\ bytes' = bytes \cup {p}
  /\ upload' = [upload EXCEPT ![p] = "insert"]
  /\ UNCHANGED <<fileRow, formVars, jobVars>>

insertFile(p) ==
  /\ upload[p] = "insert"
  /\ fileRow' = fileRow \cup {p}
  /\ upload' = [upload EXCEPT ![p] = "answer"]
  /\ UNCHANGED <<bytes, formVars, jobVars>>

\* The form may have been sent meanwhile.
addPhoto(p) ==
  /\ upload[p] = "answer"
  /\ photoIds' = photoIds \cup {p}
  /\ upload' = [upload EXCEPT ![p] = Absent]
  /\ UNCHANGED <<bytes, fileRow, posting, jobVars>>

\* The form says that it failed, wherever it was: nobody refreshes the access
\* token on this path, and a file without its answer is never attached.
uploadFails(p) ==
  /\ upload[p] # Absent
  /\ upload' = [upload EXCEPT ![p] = Absent]
  /\ UNCHANGED <<bytes, fileRow, formVars, jobVars>>

-----------------------------------------------------------------------------
(* submit: post the job, then attach the photos one by one *)

submit ==
  /\ mayPress
  /\ posting' = [at |-> "create", job |-> Absent, left |-> photoIds]
  /\ UNCHANGED <<fileVars, photoIds, jobVars>>

\* A job that waits for review takes photos as well as an open one.
createPosted(j) ==
  /\ posting # Absent /\ posting.at = "create"
  /\ job[j] = Absent
  /\ job' = [job EXCEPT ![j] = "OPEN"]
  /\ posting' = [posting EXCEPT !.at = "answer", !.job = j]
  /\ UNCHANGED <<fileVars, photoIds, attached, attachCall>>

\* The answer arrives; or the form shows an error and can be sent again.
createAnswered ==
  /\ posting # Absent /\ posting.at = "answer"
  /\ posting' = [posting EXCEPT !.at = "attach"]
  /\ UNCHANGED <<fileVars, photoIds, jobVars>>

createFails ==
  /\ posting # Absent /\ posting.at \in {"create", "answer"}
  /\ posting' = Absent
  /\ UNCHANGED <<fileVars, photoIds, jobVars>>

\* Whether or not all were attached, the form gives way to the job's screen.
leaveForm ==
  /\ posting # Absent /\ posting.at = "attach" /\ posting.left = {}
  /\ posting' = [posting EXCEPT !.at = "left"]
  /\ UNCHANGED <<fileVars, photoIds, jobVars>>

-----------------------------------------------------------------------------
(* attachToJob: the job and the file are read, the photos counted, the row *)
(* inserted, and nothing is locked.                                        *)

FormAttaching == \E r \in Rows(attachCall) : attachCall[r].form

beginAttach(r, j, p, form) ==
  /\ attachCall[r] = Absent
  /\ job[j] = "OPEN"
  /\ p \in fileRow
  /\ form => /\ posting # Absent /\ posting.at = "attach" /\ posting.job = j
             /\ p \in posting.left
             /\ ~FormAttaching
  /\ attachCall' = [attachCall EXCEPT ![r] =
                      [job |-> j, file |-> p, counted |-> Absent, form |-> form]]
  /\ UNCHANGED <<fileVars, formVars, job, attached>>

countPhotos(r) ==
  /\ attachCall[r] # Absent /\ attachCall[r].counted = Absent
  /\ LET n == Cardinality(attached[attachCall[r].job])
     IN  roomFor(n) /\ attachCall' = [attachCall EXCEPT ![r].counted = n]
  /\ UNCHANGED <<fileVars, formVars, job, attached>>

\* The answer to the form's request, whatever it is, makes it try the next.
attachEnds(r) ==
  /\ attachCall' = [attachCall EXCEPT ![r] = Absent]
  /\ posting' = IF attachCall[r].form
                  THEN [posting EXCEPT !.left = @ \ {attachCall[r].file}] ELSE posting
  /\ UNCHANGED <<fileVars, photoIds, job>>

insertPhoto(r) ==
  /\ attachCall[r] # Absent /\ attachCall[r].counted # Absent
  /\ attached' = [attached EXCEPT ![attachCall[r].job] = @ \cup {attachCall[r].file}]
  /\ attachEnds(r)

\* Refused or lost: the form ignores it.
attachFails(r) ==
  /\ attachCall[r] # Absent
  /\ attachEnds(r)
  /\ UNCHANGED attached

\* The job is filled, or over: no more photos.
jobIsStaffed(j) ==
  /\ job[j] = "OPEN"
  /\ job' = [job EXCEPT ![j] = "STAFFED"]
  /\ UNCHANGED <<fileVars, formVars, attached, attachCall>>

\* ... and the form's request to attach is refused before it is counted.
attachRefused(p) ==
  /\ posting # Absent /\ posting.at = "attach" /\ p \in posting.left
  /\ ~FormAttaching
  /\ job[posting.job] = "STAFFED"
  /\ posting' = [posting EXCEPT !.left = @ \ {p}]
  /\ UNCHANGED <<fileVars, photoIds, jobVars>>

PhotosNext ==
  \/ \E p \in Photos : \/ pickPhoto(p) \/ putBytes(p) \/ insertFile(p)
                       \/ addPhoto(p) \/ uploadFails(p) \/ attachRefused(p)
  \/ submit \/ createAnswered \/ createFails \/ leaveForm
  \/ \E j \in JobIds : createPosted(j) \/ jobIsStaffed(j)
  \/ \E r \in AttachCalls :
       \/ \E j \in JobIds, p \in Photos, form \in BOOLEAN : beginAttach(r, j, p, form)
       \/ countPhotos(r) \/ insertPhoto(r) \/ attachFails(r)

PhotosSpec == PhotosInit /\ [][PhotosNext]_photoVars

-----------------------------------------------------------------------------
(* What must hold *)

\* A job has no more photos than the limit and the requests to attach that
\* counted them at the same time (the count and the insert are two
\* statements), and none without its bytes, wherever an upload was cut off.
PhotosBounded ==
  \A j \in JobIds :
    /\ Cardinality(attached[j]) <= MAX_PHOTOS + Cardinality(AttachCalls) - 1
    /\ attached[j] \subseteq bytes
=============================================================================
