--------------------------- MODULE RequestsProofs ---------------------------
(***************************************************************************)
(* The properties of RequestsProperties, for any sets of images, uploads,  *)
(* creations, tasks and credentials, and any bounds.                       *)
(***************************************************************************)
EXTENDS RequestsProperties, FiniteSetTheorems, TLAPS

----------------------------------------------------------------------------
\* What the adapters answer tells how the call ended, whatever the backend.
LEMMA AdapterAnswers ==
  ASSUME NEW b \in Backend, NEW o \in Outcome
  PROVE  /\ Adapter(b).exists[o] = "yes" => o = "ok"
         /\ Adapter(b).exists[o] = "no" => o = "missing"
         /\ Adapter(b).save[o] = "ok" => o = "ok"
  BY DEF Backend, Cloud, Adapter, Outcome, Wrapped, S3Save, AliyunSave, TencentSave,
         LocalSave, S3Exists, AliyunExists, TencentExists, LocalExists

\* A look-up says yes only of what is stored, and no only of what is not.
LEMMA ExistsIsTrue ==
  ASSUME TypeOK, NEW i \in Upload, NEW answer, Exists(i, answer)
  PROVE  /\ answer = "yes" => images[i] # "none"
         /\ answer = "no" => images[i] = "none"
         /\ faults' \in 0..MaxFaults
  <1>1. PICK o \in Outcome :
          /\ Ends(o, IF images[i] = "none" THEN "missing" ELSE "ok")
          /\ answer = Adapter(storage).exists[o]
    BY DEF Exists
  <1>2. storage \in Backend
    BY RequestAssumption DEF TypeOK
  <1>3. answer = "yes" => images[i] # "none"
    BY <1>1, <1>2, AdapterAnswers DEF Ends
  <1>4. answer = "no" => images[i] = "none"
    BY <1>1, <1>2, AdapterAnswers DEF Ends
  <1>5. faults' \in 0..MaxFaults
    BY <1>1, RequestAssumption DEF Ends, TypeOK
  <1> QED BY <1>3, <1>4, <1>5

\* The reference images of a request are images.
LEMMA InputsAreLists ==
  ASSUME NEW d \in Demand
  PROVE  Inputs(d) \in Lists
  BY DEF Demand, Lists, Inputs, InputPaths

LEMMA InitInvariant == Init => InductiveInvariant
<1> SUFFICES ASSUME Init PROVE InductiveInvariant
  OBVIOUS
<1> USE DEF Init
<1>1. TypeOK
  BY RequestAssumption DEF TypeOK, NoUpload, NoCreation, Unused
<1>2. UploadInv
  BY DEF UploadInv, OneBusy, UploadsKnowTheirImage, MarredExist, TornIsExplained,
         AnsweredIsWhole, Busy, NoUpload
<1>3. CreationInv
  BY DEF CreationInv, CheckedExist, InputsExist, CreationsProgress, NoCreation, Unused
<1> QED BY <1>1, <1>2, <1>3 DEF InductiveInvariant

----------------------------------------------------------------------------
\* Uploads

\* Uploads leave the creations alone, and take no image away.
ImagesStay == \A i \in Upload : images[i] # "none" => images'[i] # "none"

LEMMA UploadKeepsCreations ==
  ASSUME TypeOK, CreationInv, ImagesStay, UploadUnchanged
  PROVE  CreationInv'
<1> USE DEF UploadUnchanged
<1>1. CheckedExist'
  <2> SUFFICES ASSUME NEW c \in Creator, creates[c].step = "submit",
                      NEW j \in DOMAIN Inputs(creates[c].demand)
               PROVE  images'[Inputs(creates[c].demand)[j]] # "none"
    BY DEF CheckedExist
  <2>1. creates[c].demand \in Demand
    BY DEF TypeOK, Creation, NoCreation
  <2>2. Inputs(creates[c].demand)[j] \in Upload
    BY <2>1, InputsAreLists DEF Lists
  <2> QED BY <2>2 DEF ImagesStay, CreationInv, CheckedExist
<1>2. InputsExist'
  <2> SUFFICES ASSUME NEW t \in Task, NEW j \in DOMAIN tasks[t].inputs
               PROVE  images'[tasks[t].inputs[j]] # "none"
    BY DEF InputsExist
  <2>1. tasks[t].inputs \in Lists
    BY DEF TypeOK, Unused, Row, Lists
  <2>2. tasks[t].inputs[j] \in Upload
    BY <2>1 DEF Lists
  <2> QED BY <2>2 DEF ImagesStay, CreationInv, InputsExist
<1>3. CreationsProgress'
  BY DEF CreationInv, CreationsProgress, Progress, MadeAreThere
<1> QED BY <1>1, <1>2, <1>3 DEF CreationInv

LEMMA ReceiveInvariant ==
  ASSUME InductiveInvariant, NEW u \in Uploader, NEW i \in Upload, Receive(u, i)
  PROVE  InductiveInvariant'
<1> USE DEF InductiveInvariant, Receive
<1>1. TypeOK'
  BY DEF TypeOK
<1>2. UploadInv'
  BY DEF TypeOK, UploadInv, OneBusy, UploadsKnowTheirImage, MarredExist, TornIsExplained,
         AnsweredIsWhole, Busy, NoUpload
<1>3. CreationInv'
  BY UploadKeepsCreations DEF ImagesStay, UploadUnchanged
<1> QED BY <1>1, <1>2, <1>3

LEMMA UploadCheckInvariant ==
  ASSUME InductiveInvariant, NEW u \in Uploader, UploadCheck(u)
  PROVE  InductiveInvariant'
<1> DEFINE i == uploads[u].image
<1>1. PICK answer \in {"yes", "no", "error", "raise"} :
        /\ Exists(i, answer)
        /\ \/ /\ Saves(answer)
              /\ uploads' = [uploads EXCEPT ![u].step = "save"] /\ UNCHANGED answered
           \/ ~Saves(answer) /\ answer = "yes" /\ Answer(u)
           \/ answer \in {"error", "raise"} /\ Fail(u)
  BY DEF UploadCheck
<1>2. /\ uploads[u].step = "check" /\ OnLoop(u)
      /\ UNCHANGED <<images, marred>> /\ UploadUnchanged
  BY DEF UploadCheck
<1>3. TypeOK /\ UploadInv /\ CreationInv
  BY DEF InductiveInvariant
<1>4. uploads[u] \in [image : Upload, step : {"check", "save", "write"}] /\ i \in Upload
  BY <1>2, <1>3 DEF TypeOK, NoUpload
<1>5. /\ answer = "yes" => images[i] # "none"
      /\ answer = "no" => images[i] = "none"
      /\ faults' \in 0..MaxFaults
  BY <1>1, <1>3, <1>4, ExistsIsTrue
<1>6. \A v \in Uploader : uploads[v].step \notin Busy
  BY <1>2 DEF OnLoop, Busy
<1>7. answer = "yes" => images[i] = "whole" \/ i \in marred
  BY <1>3, <1>4, <1>5, <1>6 DEF UploadInv, TornIsExplained, Busy, TypeOK
<1>8. TypeOK'
  BY <1>1, <1>2, <1>3, <1>4, <1>5
     DEF TypeOK, UploadUnchanged, Answer, Fail, NoUpload
<1>9. UploadInv'
  <2>1. \A v \in Uploader \ {u} : uploads'[v] = uploads[v]
    BY <1>1, <1>3 DEF Answer, Fail, TypeOK
  <2>2. /\ uploads'[u].step \in {"none", "save"}
        /\ uploads'[u].step = "save" => uploads'[u].image = i /\ images[i] = "none"
    BY <1>1, <1>3, <1>4, <1>5 DEF Answer, Fail, TypeOK, Saves, NoUpload
  <2>3. OneBusy' /\ UploadsKnowTheirImage'
    BY <1>2, <1>6, <2>1, <2>2 DEF OneBusy, UploadsKnowTheirImage, Busy
  <2>4. MarredExist' /\ TornIsExplained'
    BY <1>2, <1>3, <1>6, <2>1 DEF UploadInv, MarredExist, TornIsExplained, Busy
  <2>5. AnsweredIsWhole'
    BY <1>1, <1>2, <1>3, <1>4, <1>7 DEF UploadInv, AnsweredIsWhole, Answer, Fail, TypeOK
  <2> QED BY <2>3, <2>4, <2>5 DEF UploadInv
<1>10. CreationInv'
  BY <1>2, <1>3, UploadKeepsCreations DEF ImagesStay
<1> QED BY <1>8, <1>9, <1>10 DEF InductiveInvariant

LEMMA UploadOpenInvariant ==
  ASSUME InductiveInvariant, NEW u \in Uploader, UploadOpen(u)
  PROVE  InductiveInvariant'
<1> DEFINE i == uploads[u].image
<1>1. TypeOK /\ UploadInv /\ CreationInv
  BY DEF InductiveInvariant
<1>2. /\ uploads[u].step = "save" /\ UNCHANGED marred /\ UploadUnchanged
      /\ UNCHANGED answered
  BY DEF UploadOpen, Fail
<1>3. \/ /\ images' = [images EXCEPT ![i] = "torn"]
         /\ uploads' = [uploads EXCEPT ![u].step = "write"]
         /\ UNCHANGED faults
      \/ \E o \in Outcome \ {"ok"} : Ends(o, "ok") /\ Fail(u) /\ UNCHANGED images
  BY DEF UploadOpen
<1>4. uploads[u] \in [image : Upload, step : {"check", "save", "write"}] /\ i \in Upload
  BY <1>1, <1>2 DEF TypeOK, NoUpload
<1>5. images[i] = "none"
  BY <1>1, <1>2 DEF UploadInv, UploadsKnowTheirImage
<1>6. faults' \in 0..MaxFaults
  BY <1>1, <1>3, RequestAssumption DEF Ends, TypeOK
<1>7. TypeOK'
  BY <1>1, <1>2, <1>3, <1>4, <1>6 DEF TypeOK, UploadUnchanged, Fail, NoUpload
<1>8. UploadInv'
  <2>1. \A v \in Uploader \ {u} : uploads'[v] = uploads[v] /\ uploads[v].step \notin Busy
    BY <1>1, <1>2, <1>3 DEF Fail, TypeOK, UploadInv, OneBusy, Busy
  <2>2. \A j \in Upload \ {i} : images'[j] = images[j]
    BY <1>1, <1>3 DEF TypeOK
  <2>3. \/ /\ uploads'[u].step = "write" /\ uploads'[u].image = i
           /\ images'[i] = "torn"
        \/ uploads'[u].step = "none" /\ images'[i] = "none"
    BY <1>1, <1>3, <1>4, <1>5 DEF Fail, TypeOK, NoUpload
  <2>4. OneBusy' /\ UploadsKnowTheirImage'
    <3>1. i \notin marred'
      BY <1>1, <1>2, <1>5 DEF UploadInv, MarredExist
    <3> QED BY <2>1, <2>3, <3>1 DEF OneBusy, UploadsKnowTheirImage, Busy
  <2>5. MarredExist'
    BY <1>1, <1>2, <1>5, <2>2 DEF UploadInv, MarredExist, TypeOK
  <2>6. TornIsExplained'
    BY <1>1, <1>2, <2>1, <2>2, <2>3 DEF UploadInv, TornIsExplained, Busy
  <2>7. AnsweredIsWhole'
    BY <1>1, <1>2, <1>5, <2>2 DEF UploadInv, AnsweredIsWhole, MarredExist, TypeOK
  <2> QED BY <2>4, <2>5, <2>6, <2>7 DEF UploadInv
<1>9. CreationInv'
  <2>1. ImagesStay
    BY <1>1, <1>3, <1>5 DEF ImagesStay, TypeOK
  <2> QED BY <1>1, <1>2, <2>1, UploadKeepsCreations
<1> QED BY <1>7, <1>8, <1>9 DEF InductiveInvariant
LEMMA UploadWriteInvariant ==
  ASSUME InductiveInvariant, NEW u \in Uploader, UploadWrite(u)
  PROVE  InductiveInvariant'
<1> DEFINE i == uploads[u].image
<1>1. TypeOK /\ UploadInv /\ CreationInv
  BY DEF InductiveInvariant
<1>2. uploads[u].step = "write" /\ UploadUnchanged
  BY DEF UploadWrite
<1>3. PICK o \in Outcome :
        /\ Ends(o, "ok")
        /\ IF LocalSave[o] = "ok"
           THEN images' = [images EXCEPT ![i] = "whole"] /\ Answer(u) /\ UNCHANGED marred
           ELSE Fail(u) /\ marred' = marred \cup {i} /\ UNCHANGED images
  BY DEF UploadWrite
<1>4. uploads[u] \in [image : Upload, step : {"check", "save", "write"}] /\ i \in Upload
  BY <1>1, <1>2 DEF TypeOK, NoUpload
<1>5. images[i] = "torn" /\ i \notin marred
  BY <1>1, <1>2 DEF UploadInv, UploadsKnowTheirImage
<1>6. faults' \in 0..MaxFaults
  BY <1>1, <1>3, RequestAssumption DEF Ends, TypeOK
<1>7. \A v \in Uploader \ {u} : uploads'[v] = uploads[v] /\ uploads[v].step \notin Busy
  BY <1>1, <1>2, <1>3 DEF Answer, Fail, TypeOK, UploadInv, OneBusy, Busy
<1>8. uploads'[u] = NoUpload
  BY <1>1, <1>3 DEF Answer, Fail, TypeOK
<1>9. \A j \in Upload \ {i} : images'[j] = images[j]
  BY <1>1, <1>3 DEF TypeOK
<1>10. \/ images'[i] = "whole" /\ marred' = marred /\ answered' = answered \cup {i}
       \/ images'[i] = "torn" /\ marred' = marred \cup {i} /\ answered' = answered
  BY <1>1, <1>3, <1>4, <1>5 DEF Answer, Fail, TypeOK
<1>11. TypeOK'
  BY <1>1, <1>2, <1>3, <1>4, <1>6 DEF TypeOK, UploadUnchanged, Answer, Fail
<1>12. UploadInv'
  <2>1. OneBusy' /\ UploadsKnowTheirImage'
    BY <1>7, <1>8 DEF OneBusy, UploadsKnowTheirImage, Busy, NoUpload
  <2>2. MarredExist'
    BY <1>1, <1>5, <1>9, <1>10 DEF UploadInv, MarredExist, TypeOK
  <2>3. TornIsExplained'
    BY <1>1, <1>7, <1>9, <1>10 DEF UploadInv, TornIsExplained, Busy
  <2>4. AnsweredIsWhole'
    BY <1>1, <1>4, <1>5, <1>9, <1>10 DEF UploadInv, AnsweredIsWhole, TypeOK
  <2> QED BY <2>1, <2>2, <2>3, <2>4 DEF UploadInv
<1>13. CreationInv'
  BY <1>1, <1>2, <1>9, <1>10, UploadKeepsCreations DEF ImagesStay
<1> QED BY <1>11, <1>12, <1>13 DEF InductiveInvariant

LEMMA UploadPutInvariant ==
  ASSUME InductiveInvariant, NEW u \in Uploader, UploadPut(u)
  PROVE  InductiveInvariant'
<1> DEFINE i == uploads[u].image
<1>1. TypeOK /\ UploadInv /\ CreationInv
  BY DEF InductiveInvariant
<1>2. uploads[u].step = "save" /\ UploadUnchanged /\ UNCHANGED marred
  BY DEF UploadPut
<1>3. PICK o \in Outcome :
        /\ Ends(o, "ok")
        /\ \/ images' = [images EXCEPT ![i] = "whole"]
           \/ o # "ok" /\ UNCHANGED images
        /\ IF Adapter(storage).save[o] = "ok" THEN Answer(u) ELSE Fail(u)
  BY DEF UploadPut
<1>4. uploads[u] \in [image : Upload, step : {"check", "save", "write"}] /\ i \in Upload
  BY <1>1, <1>2 DEF TypeOK, NoUpload
<1>5. images[i] = "none" /\ i \notin marred /\ i \notin answered
  BY <1>1, <1>2 DEF UploadInv, UploadsKnowTheirImage, MarredExist, AnsweredIsWhole
<1>6. faults' \in 0..MaxFaults
  BY <1>1, <1>3, RequestAssumption DEF Ends, TypeOK
<1>7. \A v \in Uploader \ {u} : uploads'[v] = uploads[v] /\ uploads[v].step \notin Busy
  BY <1>1, <1>2, <1>3 DEF Answer, Fail, TypeOK, UploadInv, OneBusy, Busy
<1>8. uploads'[u] = NoUpload
  BY <1>1, <1>3 DEF Answer, Fail, TypeOK
<1>9. \A j \in Upload \ {i} : images'[j] = images[j]
  BY <1>1, <1>3 DEF TypeOK
<1>10. storage \in Backend
  BY <1>1, RequestAssumption DEF TypeOK
<1>11. \/ images'[i] = "whole" /\ answered' \in {answered, answered \cup {i}}
       \/ images'[i] = "none" /\ answered' = answered
  <2>1. CASE o = "ok"
    BY <1>1, <1>3, <1>4, <2>1 DEF Answer, Fail, TypeOK
  <2>2. CASE o # "ok"
    <3>1. Adapter(storage).save[o] # "ok"
      BY <1>3, <1>10, <2>2, AdapterAnswers
    <3> QED BY <1>1, <1>3, <1>4, <1>5, <3>1 DEF Fail, TypeOK
  <2> QED BY <2>1, <2>2
<1>12. TypeOK'
  BY <1>1, <1>2, <1>3, <1>4, <1>6 DEF TypeOK, UploadUnchanged, Answer, Fail
<1>13. UploadInv'
  <2>1. OneBusy' /\ UploadsKnowTheirImage'
    BY <1>7, <1>8 DEF OneBusy, UploadsKnowTheirImage, Busy, NoUpload
  <2>2. MarredExist'
    BY <1>1, <1>2, <1>5, <1>9 DEF UploadInv, MarredExist, TypeOK
  <2>3. TornIsExplained'
    BY <1>1, <1>2, <1>7, <1>9, <1>11 DEF UploadInv, TornIsExplained, Busy
  <2>4. AnsweredIsWhole'
    BY <1>1, <1>2, <1>4, <1>5, <1>9, <1>11 DEF UploadInv, AnsweredIsWhole, TypeOK
  <2> QED BY <2>1, <2>2, <2>3, <2>4 DEF UploadInv
<1>14. CreationInv'
  BY <1>1, <1>2, <1>5, <1>9, UploadKeepsCreations DEF ImagesStay
<1> QED BY <1>12, <1>13, <1>14 DEF InductiveInvariant

----------------------------------------------------------------------------
\* Creations

\* Creations leave the uploads alone, and each other.
LEMMA CreationKeepsUploads ==
  ASSUME UploadInv, UNCHANGED <<uploads, images, answered, marred>>
  PROVE  UploadInv'
BY DEF UploadInv, OneBusy, UploadsKnowTheirImage, MarredExist, TornIsExplained,
       AnsweredIsWhole

\* A step of one creation needs a look at this creation only.
LEMMA OneCreation ==
  ASSUME TypeOK, CreationInv, NEW c \in Creator, NEW r \in Creation,
         creates' = [creates EXCEPT ![c] = r], UNCHANGED <<images, keys>>,
         \A t \in Task : tasks[t] # Unused => tasks'[t] = tasks[t],
         \A t \in r.made :
            /\ tasks'[t] # Unused
            /\ tasks'[t].state = "active" => tasks'[t].inputs = Inputs(r.demand),
         r.step = "submit" =>
           \A j \in DOMAIN Inputs(r.demand) : images[Inputs(r.demand)[j]] # "none",
         Progress(r)
  PROVE  /\ creates' \in [Creator -> {NoCreation} \cup Creation]
         /\ CheckedExist' /\ CreationsProgress'
<1>1. creates' \in [Creator -> {NoCreation} \cup Creation] /\ creates'[c] = r
  BY DEF TypeOK
<1>2. \A d \in Creator \ {c} : creates'[d] = creates[d]
  BY DEF TypeOK
<1>3. CheckedExist'
  BY <1>1, <1>2 DEF CheckedExist, CreationInv
<1>4. CreationsProgress'
  <2> SUFFICES ASSUME NEW d \in Creator, creates'[d].step # "none"
               PROVE  Progress(creates[d])' /\ MadeAreThere(creates[d])'
    BY DEF CreationsProgress
  <2>1. CASE d = c
    BY <1>1, <2>1 DEF Progress, MadeAreThere
  <2>2. CASE d # c
    <3>1. creates'[d] = creates[d] /\ creates[d] \in Creation
      BY <1>2, <2>2 DEF TypeOK, NoCreation
    <3>2. Progress(creates[d])' /\ MadeAreThere(creates[d])
      BY <3>1 DEF CreationInv, CreationsProgress, Progress
    <3>3. creates[d].made \subseteq Task
      BY <3>1 DEF Creation
    <3> QED BY <3>1, <3>2, <3>3 DEF MadeAreThere
  <2> QED BY <2>1, <2>2
<1> QED BY <1>1, <1>3, <1>4

LEMMA CreateInvariant ==
  ASSUME InductiveInvariant, NEW c \in Creator, NEW demand \in Demand, Create(c, demand)
  PROVE  InductiveInvariant'
<1> DEFINE r == [demand |-> demand, made |-> {}, known |-> demand.key \in keys,
                 step |-> "keys"]
<1>1. TypeOK /\ UploadInv /\ CreationInv
  BY DEF InductiveInvariant
<1>2. /\ creates' = [creates EXCEPT ![c] = r]
      /\ UNCHANGED <<tasks, faults>> /\ CreateUnchanged
  BY DEF Create
<1>3. r \in Creation
  BY FS_EmptySet, RequestAssumption DEF Creation
<1>4. r.step = "keys" /\ r.made = {} /\ r.demand = demand
  OBVIOUS
<1>5. Progress(r)
  BY <1>4 DEF Progress
<1>6. /\ creates' \in [Creator -> {NoCreation} \cup Creation]
      /\ CheckedExist' /\ CreationsProgress'
  BY <1>1, <1>2, <1>3, <1>5, OneCreation DEF CreateUnchanged
<1>7. TypeOK' /\ InputsExist'
  BY <1>1, <1>2, <1>6 DEF TypeOK, CreateUnchanged, InputsExist, CreationInv
<1>8. UploadInv'
  BY <1>1, <1>2, CreationKeepsUploads DEF CreateUnchanged
<1> QED BY <1>6, <1>7, <1>8 DEF InductiveInvariant, CreationInv

\* A creation that goes on, or ends, without a submission.
LEMMA GotoInvariant ==
  ASSUME InductiveInvariant, NEW c \in Creator, creates[c].step # "none",
         NEW step \in {"creds", "inputs", "submit", "url"} \cup Ended,
         Goto(c, step), UNCHANGED tasks, faults' \in 0..MaxFaults, CreateUnchanged,
         step = "submit" =>
           \A j \in DOMAIN Inputs(creates[c].demand) :
              images[Inputs(creates[c].demand)[j]] # "none",
         Progress([creates[c] EXCEPT !.step = step])
  PROVE  InductiveInvariant'
<1> DEFINE r == [creates[c] EXCEPT !.step = step]
<1>1. TypeOK /\ UploadInv /\ CreationInv
  BY DEF InductiveInvariant
<1>2. creates[c] \in Creation
  BY <1>1 DEF TypeOK, NoCreation
<1>3. r \in Creation /\ r.step = step /\ r.demand = creates[c].demand
  BY <1>2 DEF Creation
<1>4. creates' = [creates EXCEPT ![c] = r]
  BY DEF Goto
<1>5. /\ creates' \in [Creator -> {NoCreation} \cup Creation]
      /\ CheckedExist' /\ CreationsProgress'
  <2>1. MadeAreThere(creates[c])
    BY <1>1 DEF CreationInv, CreationsProgress
  <2>2. r.made = creates[c].made
    BY <1>2 DEF Creation
  <2> QED BY <1>1, <1>3, <1>4, <2>1, <2>2, OneCreation DEF CreateUnchanged, MadeAreThere
<1>6. TypeOK' /\ InputsExist'
  BY <1>1, <1>5 DEF TypeOK, CreateUnchanged, InputsExist, CreationInv
<1>7. UploadInv'
  BY <1>1, CreationKeepsUploads DEF CreateUnchanged
<1> QED BY <1>5, <1>6, <1>7 DEF InductiveInvariant, CreationInv

\* What is known of a creation at each step.
LEMMA ProgressOf ==
  ASSUME InductiveInvariant, NEW c \in Creator, creates[c].step # "none"
  PROVE  creates[c] \in Creation /\ Progress(creates[c]) /\ MadeAreThere(creates[c])
BY DEF InductiveInvariant, TypeOK, NoCreation, CreationInv, CreationsProgress

\* A refusal before the first submission.
LEMMA RefuseInvariant ==
  ASSUME InductiveInvariant, NEW c \in Creator,
         creates[c].step \in {"keys", "creds", "inputs"},
         NEW step \in Refused,
         Goto(c, step), UNCHANGED tasks, faults' \in 0..MaxFaults, CreateUnchanged
  PROVE  InductiveInvariant'
<1> DEFINE r == [creates[c] EXCEPT !.step = step]
<1>1. creates[c] \in Creation /\ Progress(creates[c])
  BY ProgressOf
<1>2. r.step = step /\ r.made = creates[c].made
  BY <1>1 DEF Creation
<1>3. Progress(r)
  BY <1>1, <1>2 DEF Progress, Refused
<1>4. step \in {"creds", "inputs", "submit", "url"} \cup Ended /\ step # "submit"
  BY DEF Ended, Refused
<1> QED BY <1>3, <1>4, GotoInvariant

LEMMA KeyInvariant ==
  ASSUME InductiveInvariant, NEW c \in Creator, ListKeys(c) \/ GetCredentials(c)
  PROVE  InductiveInvariant'
<1> DEFINE step == IF creates[c].step = "keys" THEN "creds" ELSE "inputs"
           r == [creates[c] EXCEPT !.step = step]
<1>1. /\ creates[c].step \in {"keys", "creds"}
      /\ UNCHANGED <<tasks, faults>> /\ CreateUnchanged
      /\ IF HasKey(c) THEN Goto(c, step) ELSE Goto(c, "key")
  BY DEF ListKeys, GetCredentials
<1>2. faults' \in 0..MaxFaults
  BY <1>1 DEF InductiveInvariant, TypeOK
<1>3. CASE HasKey(c)
  <2>1. creates[c] \in Creation /\ Progress(creates[c])
    BY <1>1, ProgressOf
  <2>2. r.step = step /\ r.made = creates[c].made /\ r.known = creates[c].known
    BY <2>1 DEF Creation
  <2>3. creates[c].known /\ creates[c].made = {}
    BY <1>1, <1>3, <2>1 DEF Progress, HasKey
  <2>4. Progress(r)
    BY <2>2, <2>3 DEF Progress, Refused
  <2>5. step \in {"creds", "inputs", "submit", "url"} \cup Ended /\ step # "submit"
    OBVIOUS
  <2> QED BY <1>1, <1>2, <1>3, <2>4, <2>5, GotoInvariant
<1>4. CASE ~HasKey(c)
  BY <1>1, <1>2, <1>4, RefuseInvariant DEF Refused
<1> QED BY <1>3, <1>4

LEMMA CheckInputsInvariant ==
  ASSUME InductiveInvariant, NEW c \in Creator, CheckInputs(c)
  PROVE  InductiveInvariant'
<1> DEFINE d == creates[c].demand
           r == [creates[c] EXCEPT !.step = "submit"]
<1>1. creates[c].step = "inputs" /\ UNCHANGED tasks /\ CreateUnchanged
  BY DEF CheckInputs
<1>2. TypeOK /\ creates[c] \in Creation /\ Progress(creates[c])
  BY <1>1, ProgressOf DEF InductiveInvariant
<1>3. d \in Demand /\ Inputs(d) \in Lists
  BY <1>2, InputsAreLists DEF Creation
<1>4. ASSUME Goto(c, "submit"), faults' \in 0..MaxFaults,
             \A j \in DOMAIN Inputs(d) : images[Inputs(d)[j]] # "none"
      PROVE  InductiveInvariant'
  <2>1. /\ r.step = "submit" /\ r.made = creates[c].made
        /\ r.known = creates[c].known /\ r.demand = d
    BY <1>2 DEF Creation
  <2>2. creates[c].known /\ creates[c].made = {} /\ d.n \in Nat \ {0}
    BY <1>1, <1>2, <1>3 DEF Progress, Demand
  <2>3. Progress(r)
    BY <2>1, <2>2, FS_EmptySet DEF Progress, Refused
  <2> QED BY <1>1, <1>4, <2>3, GotoInvariant
<1>5. CASE Conflict(d) \/ Inputs(d) = <<>>
  <2>1. faults' \in 0..MaxFaults
    BY <1>2, <1>5 DEF CheckInputs, TypeOK
  <2>2. CASE Conflict(d)
    BY <1>1, <2>1, <2>2, RefuseInvariant DEF CheckInputs, Refused
  <2>3. CASE ~Conflict(d)
    <3>1. Goto(c, "submit")
      BY <1>5, <2>3 DEF CheckInputs
    <3>2. DOMAIN Inputs(d) = {}
      BY <1>5, <2>3
    <3> QED BY <1>4, <2>1, <3>1, <3>2
  <2> QED BY <2>2, <2>3
<1>6. CASE ~Conflict(d) /\ Inputs(d) # <<>>
  <2>1. PICK answer \in {"yes", "no", "error", "raise"} :
          /\ Exists(Inputs(d)[1], answer)
          /\ \/ GoodInput(answer) /\ Goto(c, "submit")
             \/ ~GoodInput(answer) /\ answer = "no" /\ Goto(c, "input")
             \/ answer \in {"error", "raise"} /\ Goto(c, "storage")
    BY <1>6 DEF CheckInputs
  <2>2. PICK i \in Upload : Inputs(d) = <<i>>
    BY <1>3, <1>6 DEF Lists
  <2>3. Inputs(d)[1] = i /\ \A j \in DOMAIN Inputs(d) : Inputs(d)[j] = i
    BY <2>2
  <2>4. /\ answer = "yes" => images[i] # "none"
        /\ faults' \in 0..MaxFaults
    BY <1>2, <2>1, <2>3, ExistsIsTrue
  <2>5. CASE GoodInput(answer) /\ Goto(c, "submit")
    BY <1>4, <2>3, <2>4, <2>5 DEF GoodInput
  <2>6. CASE Goto(c, "input") \/ Goto(c, "storage")
    BY <1>1, <2>4, <2>6, RefuseInvariant DEF Refused
  <2> QED BY <2>1, <2>5, <2>6
<1> QED BY <1>5, <1>6

\* A new task, from wherever the creation goes on or ends behind it.
LEMMA InsertInvariant ==
  ASSUME InductiveInvariant, NEW c \in Creator, NEW t \in Task,
         NEW step \in {"submit", "url", "error"},
         step = (IF Enough(c) THEN "url" ELSE "submit") \/ step = "error",
         MayInsert(c), Insert(c, t, step), faults' \in 0..MaxFaults, CreateUnchanged
  PROVE  InductiveInvariant'
<1> DEFINE d == creates[c].demand
           old == creates[c].made
           r == [creates[c] EXCEPT !.made = @ \cup {t}, !.step = step]
<1>1. /\ creates[c].step = "submit" /\ tasks[t] = Unused
      /\ tasks' = [tasks EXCEPT ![t] = [state |-> "active", inputs |-> Inputs(d)]]
      /\ creates' = [creates EXCEPT ![c] = r]
  BY DEF MayInsert, Insert
<1>2. /\ TypeOK /\ UploadInv /\ CreationInv
      /\ creates[c] \in Creation /\ Progress(creates[c]) /\ MadeAreThere(creates[c])
  BY <1>1, ProgressOf DEF InductiveInvariant
<1>3. d \in Demand /\ Inputs(d) \in Lists
  BY <1>2, InputsAreLists DEF Creation
<1>4. \A j \in DOMAIN Inputs(d) : images[Inputs(d)[j]] # "none"
  BY <1>1, <1>2 DEF CreationInv, CheckedExist
<1>5. old \in SUBSET Task /\ IsFiniteSet(old) /\ t \notin old
  BY <1>1, <1>2 DEF Creation, MadeAreThere
<1>6. /\ IsFiniteSet(old \cup {t}) /\ Cardinality(old) \in Nat
      /\ Cardinality(old \cup {t}) = Cardinality(old) + 1
  BY <1>5, FS_AddElement, FS_CardinalityType
<1>7. /\ creates[c].known /\ d.n \in 1..MaxN /\ Cardinality(old) < d.n
  BY <1>1, <1>2, <1>3 DEF Progress, Demand
<1>8. /\ r.demand = d /\ r.known = creates[c].known /\ r.step = step
      /\ r.made = old \cup {t}
  BY <1>2 DEF Creation
<1>9. r \in Creation
  BY <1>2, <1>5, <1>6, <1>8 DEF Creation, Ended
<1>10. Progress(r)
  <2>1. step = "url" => Cardinality(r.made) = d.n
    BY <1>6, <1>8 DEF Enough
  <2>2. step = "submit" => Cardinality(r.made) < d.n
    BY <1>6, <1>7, <1>8, RequestAssumption DEF Enough
  <2> QED BY <1>7, <1>8, <2>1, <2>2 DEF Progress, Refused
<1>11. \A u \in Task : u # t => tasks'[u] = tasks[u]
  BY <1>1, <1>2 DEF TypeOK
<1>12. tasks'[t] = [state |-> "active", inputs |-> Inputs(d)] /\ tasks'[t] # Unused
  BY <1>1, <1>2 DEF TypeOK, Unused
<1>13. \A u \in r.made :
         /\ tasks'[u] # Unused
         /\ tasks'[u].state = "active" => tasks'[u].inputs = Inputs(r.demand)
  BY <1>2, <1>5, <1>8, <1>11, <1>12 DEF MadeAreThere
<1>14. /\ creates' \in [Creator -> {NoCreation} \cup Creation]
       /\ CheckedExist' /\ CreationsProgress'
  <2>1. \A u \in Task : tasks[u] # Unused => tasks'[u] = tasks[u]
    BY <1>1, <1>11
  <2>2. r.step = "submit" =>
          \A j \in DOMAIN Inputs(r.demand) : images[Inputs(r.demand)[j]] # "none"
    BY <1>4, <1>8
  <2> QED BY <1>1, <1>2, <1>9, <1>10, <1>13, <2>1, <2>2, OneCreation DEF CreateUnchanged
<1>15. TypeOK'
  BY <1>1, <1>2, <1>3, <1>14 DEF TypeOK, CreateUnchanged, Row
<1>16. InputsExist'
  <2> SUFFICES ASSUME NEW s \in Task, NEW j \in DOMAIN tasks'[s].inputs
               PROVE  images[tasks'[s].inputs[j]] # "none"
    BY DEF InputsExist, CreateUnchanged
  <2>1. CASE s = t
    BY <1>4, <1>12, <2>1
  <2>2. CASE s # t
    BY <1>2, <1>11, <2>2 DEF CreationInv, InputsExist
  <2> QED BY <2>1, <2>2
<1>17. UploadInv'
  BY <1>2, CreationKeepsUploads DEF CreateUnchanged
<1> QED BY <1>14, <1>15, <1>16, <1>17 DEF InductiveInvariant, CreationInv

LEMMA SubmitInvariant ==
  ASSUME InductiveInvariant, NEW c \in Creator, NEW t \in Task,
         Submit(c, t) \/ SubmitRaises(c, t)
  PROVE  InductiveInvariant'
<1>1. faults \in 0..MaxFaults
  BY DEF InductiveInvariant, TypeOK
<1>2. CASE Submit(c, t)
  BY <1>1, <1>2, InsertInvariant DEF Submit
<1>3. CASE SubmitRaises(c, t)
  <2>1. faults' \in 0..MaxFaults
    BY <1>1, <1>3, RequestAssumption DEF SubmitRaises
  <2> QED BY <1>3, <2>1, InsertInvariant DEF SubmitRaises
<1> QED BY <1>2, <1>3

\* A 500 may come before the key was found, but then nothing has been made.
LEMMA StatementRaisesInvariant ==
  ASSUME InductiveInvariant, NEW c \in Creator, StatementRaises(c)
  PROVE  InductiveInvariant'
<1> DEFINE r == [creates[c] EXCEPT !.step = "error"]
<1>1. /\ creates[c].step \in {"keys", "creds", "submit"} /\ Goto(c, "error")
      /\ UNCHANGED tasks /\ CreateUnchanged
  BY DEF StatementRaises, MayInsert
<1>2. faults' \in 0..MaxFaults
  BY RequestAssumption DEF StatementRaises, InductiveInvariant, TypeOK
<1>3. creates[c] \in Creation /\ Progress(creates[c])
  BY <1>1, ProgressOf
<1>4. /\ r.step = "error" /\ r.made = creates[c].made /\ r.known = creates[c].known
  BY <1>3 DEF Creation
<1>5. Progress(r)
  BY <1>3, <1>4 DEF Progress, Refused
<1> QED BY <1>1, <1>2, <1>5, GotoInvariant DEF Ended

LEMMA AnswerInvariant ==
  ASSUME InductiveInvariant, NEW c \in Creator, QueueFull(c) \/ BuildItems(c)
  PROVE  InductiveInvariant'
<1>1. PICK step \in {"full", "created", "link"} :
        /\ creates[c].step = IF step = "full" THEN "submit" ELSE "url"
        /\ Goto(c, step) /\ UNCHANGED tasks /\ CreateUnchanged
        /\ faults' = faults \/ (faults < MaxFaults /\ faults' = faults + 1)
  BY DEF QueueFull, BuildItems
<1>2. faults' \in 0..MaxFaults
  BY <1>1, RequestAssumption DEF InductiveInvariant, TypeOK
<1>3. creates[c] \in Creation /\ Progress(creates[c])
  BY <1>1, ProgressOf
<1> DEFINE r == [creates[c] EXCEPT !.step = step]
<1>4. /\ r.step = step /\ r.made = creates[c].made
      /\ r.known = creates[c].known /\ r.demand = creates[c].demand
  BY <1>3 DEF Creation
<1>5. Progress(r)
  BY <1>1, <1>3, <1>4 DEF Progress, Refused
<1>6. step \in {"creds", "inputs", "submit", "url"} \cup Ended /\ step # "submit"
  BY DEF Ended
<1> QED BY <1>1, <1>2, <1>5, <1>6, GotoInvariant

----------------------------------------------------------------------------
\* The rest of the server

LEMMA DeleteKeyInvariant ==
  ASSUME InductiveInvariant, NEW k \in Credential, DeleteKey(k)
  PROVE  InductiveInvariant'
<1> USE DEF InductiveInvariant, DeleteKey
<1>1. TypeOK'
  BY DEF TypeOK
<1>2. UploadInv'
  BY CreationKeepsUploads
<1>3. CreationInv'
  BY DEF CreationInv, CheckedExist, InputsExist, CreationsProgress, Progress, MadeAreThere
<1> QED BY <1>1, <1>2, <1>3

LEMMA EndTaskInvariant ==
  ASSUME InductiveInvariant, NEW t \in Task, EndTask(t)
  PROVE  InductiveInvariant'
<1> USE DEF InductiveInvariant, EndTask
<1>1. TypeOK'
  BY DEF TypeOK, Row, Lists
<1>2. UploadInv'
  BY CreationKeepsUploads
<1>3. CheckedExist' /\ CreationsProgress'
  <2>1. \A s \in Task : tasks[s] # Unused =>
          /\ tasks'[s] # Unused
          /\ tasks'[s].state = "active" => tasks'[s] = tasks[s]
    BY DEF TypeOK, Unused
  <2>2. ASSUME NEW c \in Creator, creates[c].step # "none" PROVE creates[c].made \subseteq Task
    BY <2>2 DEF TypeOK, Creation, NoCreation
  <2> QED BY <2>1, <2>2
             DEF CreationInv, CheckedExist, CreationsProgress, Progress, MadeAreThere
<1>4. InputsExist'
  <2> SUFFICES ASSUME NEW s \in Task, NEW j \in DOMAIN tasks'[s].inputs
               PROVE  images[tasks'[s].inputs[j]] # "none"
    BY DEF InputsExist
  <2>1. s # t
    BY DEF TypeOK
  <2> QED BY <2>1 DEF TypeOK, CreationInv, InputsExist
<1> QED BY <1>1, <1>2, <1>3, <1>4 DEF CreationInv

LEMMA RestartInvariant ==
  ASSUME InductiveInvariant, Restart
  PROVE  InductiveInvariant'
<1> USE DEF InductiveInvariant, Restart
<1>1. TypeOK'
  <2>1. marred' \subseteq Upload
    BY DEF TypeOK, NoUpload
  <2>2. faults' \in 0..MaxFaults
    BY RequestAssumption DEF TypeOK
  <2>3. tasks' \in [Task -> {Unused} \cup Row]
    BY DEF Row, Lists
  <2> QED BY <2>1, <2>2, <2>3 DEF TypeOK
<1>2. UploadInv'
  <2>1. OneBusy' /\ UploadsKnowTheirImage'
    BY DEF OneBusy, UploadsKnowTheirImage, Busy, NoUpload
  <2>2. MarredExist'
    BY DEF UploadInv, MarredExist, UploadsKnowTheirImage
  <2>3. TornIsExplained'
    BY DEF UploadInv, TornIsExplained
  <2>4. AnsweredIsWhole'
    BY DEF UploadInv, AnsweredIsWhole
  <2> QED BY <2>1, <2>2, <2>3, <2>4 DEF UploadInv
<1>3. CheckedExist' /\ CreationsProgress'
  BY DEF CheckedExist, CreationsProgress, NoCreation
<1>4. InputsExist'
  BY DEF InputsExist, Unused
<1> QED BY <1>1, <1>2, <1>3, <1>4 DEF CreationInv

LEMMA NextInvariant == InductiveInvariant /\ [Next]_vars => InductiveInvariant'
<1> SUFFICES ASSUME InductiveInvariant, [Next]_vars PROVE InductiveInvariant'
  OBVIOUS
<1>1. CASE UNCHANGED vars
  BY <1>1
     DEF vars, InductiveInvariant, TypeOK, UploadInv, OneBusy, UploadsKnowTheirImage,
         MarredExist, TornIsExplained, AnsweredIsWhole, CreationInv, CheckedExist,
         InputsExist, CreationsProgress, Progress, MadeAreThere
<1>2. ASSUME NEW u \in Uploader, UploadStep(u) PROVE InductiveInvariant'
  BY <1>2, UploadCheckInvariant, UploadOpenInvariant, UploadWriteInvariant,
     UploadPutInvariant DEF UploadStep
<1>3. ASSUME NEW c \in Creator, CreateStep(c) PROVE InductiveInvariant'
  BY <1>3, KeyInvariant, CheckInputsInvariant, AnswerInvariant, SubmitInvariant,
     StatementRaisesInvariant
     DEF CreateStep
<1> QED BY <1>1, <1>2, <1>3, ReceiveInvariant, CreateInvariant, DeleteKeyInvariant,
           EndTaskInvariant, RestartInvariant DEF Next

----------------------------------------------------------------------------
\* What is concluded from InductiveInvariant

\* The inductive invariant holds of every state.
THEOREM RequestInvariance == Spec => []InductiveInvariant
BY InitInvariant, NextInvariant, PTL DEF Spec

\* A client that was given a key can rely on the image, unless a write of it
\* was interrupted.
THEOREM AnswersHold == Spec => []AnsweredIsWhole
<1>1. InductiveInvariant => AnsweredIsWhole
  BY DEF InductiveInvariant, UploadInv
<1> QED BY <1>1, RequestInvariance, PTL

\* The reference images of a task that may still read them are there.
THEOREM TasksHaveTheirImages == Spec => []ReferencesHold
<1>1. InductiveInvariant => ReferencesHold
  <2> SUFFICES ASSUME InductiveInvariant, NEW t \in Task, NEW j \in DOMAIN tasks[t].inputs
               PROVE  LET i == tasks[t].inputs[j] IN
                      \/ images[i] = "whole"
                      \/ images[i] = "torn" /\ (i \in marred \/ i \notin answered)
    BY DEF ReferencesHold
  <2> DEFINE i == tasks[t].inputs[j]
  <2>1. TypeOK /\ UploadInv /\ InputsExist
    BY DEF InductiveInvariant, CreationInv
  <2>2. i \in Upload
    BY <2>1 DEF TypeOK, Unused, Row, Lists
  <2>3. images[i] \in {"torn", "whole"}
    BY <2>1, <2>2 DEF InputsExist, TypeOK
  <2>4. i \in answered => images[i] = "whole" \/ i \in marred
    BY <2>1 DEF UploadInv, AnsweredIsWhole
  <2> QED BY <2>3, <2>4
<1> QED BY <1>1, RequestInvariance, PTL

\* 201 says that n tasks were made, a refusal that none was, and every task a
\* creation has made is there.
THEOREM AnswersAreTrue == Spec => []AnswersMeanWhatTheySay
<1>1. InductiveInvariant => AnswersMeanWhatTheySay
  <2> SUFFICES ASSUME InductiveInvariant, NEW c \in Creator, creates[c].step # "none"
               PROVE  LET r == creates[c] IN
                      /\ r.step \in {"created", "link"} => Cardinality(r.made) = r.demand.n
                      /\ r.step \in Refused => r.made = {}
                      /\ r.step = "full" => Cardinality(r.made) < r.demand.n
                      /\ MadeAreThere(r)
    BY DEF AnswersMeanWhatTheySay
  <2>1. Progress(creates[c]) /\ MadeAreThere(creates[c])
    BY ProgressOf
  <2> QED BY <2>1 DEF Progress
<1> QED BY <1>1, RequestInvariance, PTL

\* Tasks are accepted only for a key that was stored when the request came.
THEOREM AcceptedTasksHadTheirKey == Spec => []AcceptedWithKey
<1>1. InductiveInvariant => AcceptedWithKey
  BY ProgressOf DEF Progress, AcceptedWithKey
<1> QED BY <1>1, RequestInvariance, PTL

\* A stored image is not written again.
THEOREM ImagesAreFinal == Spec => WholeStaysWhole
<1> DEFINE Kept == \A i \in Upload : images[i] = "whole" => images'[i] = "whole"
<1>1. InductiveInvariant /\ [Next]_vars => [Kept]_vars
  <2> SUFFICES ASSUME InductiveInvariant, Next PROVE Kept
    BY DEF vars
  <2>1. UNCHANGED images => Kept
    OBVIOUS
  <2>2. TypeOK /\ UploadsKnowTheirImage
    BY DEF InductiveInvariant, UploadInv
  <2>3. ASSUME NEW u \in Uploader, UploadOpen(u) \/ UploadWrite(u) \/ UploadPut(u)
        PROVE  Kept
    <3>1. images[uploads[u].image] # "whole"
      BY <2>2, <2>3 DEF UploadOpen, UploadWrite, UploadPut, UploadsKnowTheirImage
    <3>2. \A i \in Upload : i # uploads[u].image => images'[i] = images[i]
      BY <2>2, <2>3 DEF UploadOpen, UploadWrite, UploadPut, TypeOK
    <3> QED BY <3>1, <3>2
  <2>4. ASSUME NEW u \in Uploader, UploadStep(u) PROVE Kept
    BY <2>1, <2>3, <2>4 DEF UploadStep, UploadCheck
  <2>5. ASSUME NEW c \in Creator, CreateStep(c) PROVE Kept
    BY <2>1, <2>5
       DEF CreateStep, ListKeys, GetCredentials, CheckInputs, QueueFull, BuildItems,
           Submit, SubmitRaises, StatementRaises, CreateUnchanged
  <2> QED BY <2>1, <2>4, <2>5
             DEF Next, Receive, Create, CreateUnchanged, DeleteKey, EndTask, Restart
<1> QED BY <1>1, RequestInvariance, PTL DEF Spec, WholeStaysWhole
=============================================================================
