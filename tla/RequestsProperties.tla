------------------------- MODULE RequestsProperties -------------------------
(***************************************************************************)
(* What a client may conclude from the answers of POST /api/uploads/temp   *)
(* and POST /api/tasks.                                                    *)
(***************************************************************************)
EXTENDS Requests

\* A client that was given the key of an image can rely on the whole image
\* being stored, two uploads of the same image side by side included, unless a
\* write of it was interrupted: then the short file counts as the image for
\* ever after (api/uploads.py:100).
AnsweredIsWhole == answered \subseteq {i \in Upload : images[i] = "whole"} \cup marred

\* A stored image is not written again, not even with the same content: a
\* worker may be reading it (api/uploads.py:99-102, task_manager.py:461-473).
WholeStaysWhole ==
  [][\A i \in Upload : images[i] = "whole" => images'[i] = "whole"]_vars

\* The reference images of a task that may still read them are there: the
\* check before the task was accepted holds whenever its worker starts
\* (api/tasks.py:77).  They are whole, unless an interrupted write left one
\* short, or its key was sent before an upload had answered with it.
ReferencesHold ==
  \A t \in Task : \A j \in DOMAIN tasks[t].inputs :
     LET i == tasks[t].inputs[j] IN
     \/ images[i] = "whole"
     \/ images[i] = "torn" /\ (i \in marred \/ i \notin answered)

\* The tasks that creation r has made are there, as it asked for them.
MadeAreThere(r) ==
  \A t \in r.made :
    /\ tasks[t] # Unused
    /\ tasks[t].state = "active" => tasks[t].inputs = Inputs(r.demand)

\* What the answer of a creation says of the tasks it has made.  201: there are
\* n of them, and so with a link that cannot be made.  A refusal: there is
\* none.  A queue that filled up in the middle: fewer than n.  A 500 says
\* nothing: some submissions may have succeeded before one raised, and even the
\* raising one may have left its task (api/tasks.py:152-156,
\* task_manager.py:205, 326).  Every task counted is there, and as long as it
\* has not ended it has the reference images that were asked for.
AnswersMeanWhatTheySay ==
  \A c \in Creator : creates[c].step # "none" =>
    LET r == creates[c] IN
    /\ r.step \in {"created", "link"} => Cardinality(r.made) = r.demand.n
    /\ r.step \in Refused => r.made = {}
    /\ r.step = "full" => Cardinality(r.made) < r.demand.n
    /\ MadeAreThere(r)

\* Tasks are accepted only for a key that was stored when the request came,
\* though it may be deleted between the two look-ups (api/tasks.py:98-106).
AcceptedWithKey ==
  \A c \in Creator :
    creates[c].step # "none" /\ creates[c].made # {} => creates[c].known

----------------------------------------------------------------------------
\* The inductive invariant behind them

Busy == {"save", "write"}

\* One upload at most is between its look-up and its answer.
OneBusy ==
  \A u, v \in Uploader :
    uploads[u].step \in Busy /\ uploads[v].step \in Busy => u = v

\* What the file of a busy upload is, and where short files come from.
UploadsKnowTheirImage ==
  \A u \in Uploader :
    /\ uploads[u].step = "save" => images[uploads[u].image] = "none"
    /\ uploads[u].step = "write" =>
         images[uploads[u].image] = "torn" /\ uploads[u].image \notin marred
MarredExist == \A i \in marred : images[i] # "none"
TornIsExplained ==
  \A i \in Upload : images[i] = "torn" =>
    i \in marred \/ \E u \in Uploader : uploads[u].image = i /\ uploads[u].step = "write"

\* Reference images that were looked up, or belong to a task, exist.
CheckedExist ==
  \A c \in Creator : creates[c].step = "submit" =>
    \A j \in DOMAIN Inputs(creates[c].demand) :
       images[Inputs(creates[c].demand)[j]] # "none"
InputsExist ==
  \A t \in Task : \A j \in DOMAIN tasks[t].inputs : images[tasks[t].inputs[j]] # "none"

\* How far a creation is tells how many tasks it has made, and that its key
\* was stored.
Progress(r) ==
  /\ r.step \in {"keys", "creds", "inputs"} \cup Refused => r.made = {}
  /\ r.step \in {"submit", "full"} => Cardinality(r.made) < r.demand.n
  /\ r.step \in {"url", "created", "link"} => Cardinality(r.made) = r.demand.n
  /\ r.step = "keys" /\ r.demand.key \in keys => r.known
  /\ r.step \in {"creds", "inputs"} \/ r.made # {} => r.known
  /\ r.step \in {"submit", "url", "created", "link", "full"} => r.known
CreationsProgress ==
  \A c \in Creator : creates[c].step # "none" =>
    Progress(creates[c]) /\ MadeAreThere(creates[c])

\* What the uploads keep, and what the creations and the tasks keep.
UploadInv ==
  OneBusy /\ UploadsKnowTheirImage /\ MarredExist /\ TornIsExplained /\ AnsweredIsWhole
CreationInv == CheckedExist /\ InputsExist /\ CreationsProgress

\* The answers to uploads rest on who may write a file at all, those to
\* creations on how far each has come.
InductiveInvariant == TypeOK /\ UploadInv /\ CreationInv
=============================================================================
