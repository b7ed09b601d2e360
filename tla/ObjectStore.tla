----------------------------- MODULE ObjectStore -----------------------------
(***************************************************************************)
(* The storage backends: LocalBackend and the adapters of                  *)
(* core/storage_backends, as tables from what a call of the filesystem or  *)
(* of a vendor SDK comes to, to what the StorageBackend method answers;    *)
(* and the paths that the tasks table holds for stored objects.            *)
(***************************************************************************)
EXTENDS Naturals, Sequences

CONSTANTS
  Picture,  \* generated images: a name, which is also the content (a uuid)
  Upload,   \* reference images: the name is the SHA-1 of the content
  None      \* no path, no answer

ASSUME NameAssumption ==
  /\ Picture \cap Upload = {}
  /\ None \notin Picture \cup Upload

Name == Picture \cup Upload

----------------------------------------------------------------------------
\* How a call ends: well, with a 404 (NoSuchKey, NotFound), with another error
\* class of the SDK, or with an exception the adapter does not know.
Outcome == {"ok", "missing", "refused", "broken"}

\* Known errors become a StorageError ("error"), others are raised again.
Wrapped == [o \in Outcome |-> CASE o = "ok"     -> "ok"
                                [] o = "broken" -> "raise"
                                [] OTHER        -> "error"]

\* save: put_object with every error wrapped; nothing is retried here.
S3Save == Wrapped
AliyunSave == Wrapped
TencentSave == Wrapped

\* head_object says 404 for a missing key; object_exists of the other two
\* SDKs turns that into False.
S3Exists ==
  [o \in Outcome |-> CASE o = "ok" -> "yes" [] o = "missing" -> "no"
                       [] OTHER -> Wrapped[o]]

\* Slip: an error is taken for an answer.
AliyunExistsOrFails ==
  [o \in Outcome |-> IF o = "missing" THEN "no" ELSE "yes"]

AliyunExists ==
  [o \in Outcome |-> CASE o = "ok" -> "yes" [] o = "missing" -> "no"
                       [] OTHER -> Wrapped[o]]
TencentExists == AliyunExists

\* A delete of a missing key is no error; Tencent leaves that to its SDK.
S3Delete == [Wrapped EXCEPT !["missing"] = "ok"]
AliyunDelete == [Wrapped EXCEPT !["missing"] = "ok"]
TencentDelete == Wrapped

\* The filesystem: exists() raises nothing the callers know, delete swallows
\* every OSError, save and read raise it.
LocalExists ==
  [o \in Outcome |-> CASE o = "ok" -> "yes" [] o = "missing" -> "no"
                       [] OTHER -> "raise"]
LocalDelete == [o \in Outcome |-> "ok"]
LocalSave == [o \in Outcome |-> IF o = "ok" THEN "ok" ELSE "raise"]

\* build_storage_backend.
Cloud == {"aliyun", "tencent", "cloudflare", "aws", "minio"}
Backend == Cloud \cup {"local"}
Adapter(b) ==
  CASE b = "local"   -> [save |-> LocalSave, exists |-> LocalExists,
                         delete |-> LocalDelete]
    [] b = "aliyun"  -> [save |-> AliyunSave, exists |-> AliyunExists,
                         delete |-> AliyunDelete]
    [] b = "tencent" -> [save |-> TencentSave, exists |-> TencentExists,
                         delete |-> TencentDelete]
    [] OTHER         -> [save |-> S3Save, exists |-> S3Exists,
                         delete |-> S3Delete]

----------------------------------------------------------------------------
\* The paths of the tasks table.  "key": generated_<id>.<ext> or
\* temp/<sha1>.<ext>; "bare": the file name of a reference image without its
\* directory; "static": /images/<key>; "inside", "outside": an absolute path
\* under images_dir, or elsewhere.
Form == {"key", "bare", "static", "inside", "outside"}
Path == [form : Form, name : Name]
KeyPath(n) == [form |-> "key", name |-> n]
BarePath(n) == [form |-> "bare", name |-> n]
Key == [form : {"key", "bare"}, name : Name]

\* The file name of a path, as a key: that of a reference image loses temp/.
Basename(n) == IF n \in Picture THEN KeyPath(n) ELSE BarePath(n)

\* Slip: the path is taken for the key.
LegacyPath(p) == p

\* _legacy_path_to_key: absolute paths are cut down to their last part.
LegacyKey(p) == IF p \in Key THEN p ELSE Basename(p.name)

\* to_url: what a row links to.  A static path is served from images_dir
\* whatever the backend; all else, absolute paths too, is taken for a key.
ToUrl(p) ==
  IF p.form = "static" THEN [at |-> "disk", key |-> KeyPath(p.name)]
  ELSE IF p \in Key THEN [at |-> "backend", key |-> p]
  ELSE [at |-> "nowhere", key |-> Basename(p.name)]

\* _normalise_input_image_paths: the list, or the legacy column without it.
InputPaths(legacy, list) ==
  IF list # <<>> THEN list ELSE IF legacy # None THEN <<legacy>> ELSE <<>>

=============================================================================
