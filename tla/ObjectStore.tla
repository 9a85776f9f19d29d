---------------------------- MODULE ObjectStore -----------------------------
(***************************************************************************)
(* What the object stores keep of regular files, for the three kinds of    *)
(* target (objectstore/store_aws_s3.go, store_azure_blob.go and            *)
(* store_gcp_storage.go).  S3 and GCP give each upload an identifier of    *)
(* their own; on Azure the daemon makes one from its version number, and   *)
(* an upload under the same number overwrites.  A delete marker is an      *)
(* object of its own on S3 and Azure; on GCP placing one means that the    *)
(* object has no live version any more, which cannot be taken back.        *)
(***************************************************************************)
EXTENDS Integers, FiniteSets

Kinds == {"s3", "azure", "gcp"}

Marker == 0   \* the content of a delete marker

\* objects: what is stored; live: the paths that have a live version (GCP);
\* gen: the last identifier the store gave out.
EmptyStore == [objects |-> {}, live |-> {}, gen |-> 0]

UploadId(kind, st, version) ==
  IF kind = "azure" THEN <<"v", version>> ELSE <<"v", st.gen + 1>>

MarkId(kind, st, version) ==
  IF kind = "s3" THEN <<"d", st.gen + 1>> ELSE <<"d", version>>

Named(st, path, rv) == {o \in st.objects : o.path = path /\ o.rv = rv}

\* What Get() finds.  The one of Azure makes the name of the object from the
\* daemon's version number and takes only the "v" or "d" from rv.
Got(kind, st, path, version, rv) ==
  Named(st, path, IF kind = "azure" THEN <<rv[1], version>> ELSE rv)

Put(st, path, rv, c) ==
  (st.objects \ Named(st, path, rv)) \cup {[path |-> path, rv |-> rv, c |-> c]}

Uploaded(kind, st, path, version, c) ==
  [objects |-> Put(st, path, UploadId(kind, st, version), c),
   live |-> st.live \cup {path},
   gen |-> IF kind = "azure" THEN st.gen ELSE st.gen + 1]

\* GCP answers ErrObjectNotExist when there is no live version to mark.
MarkRefused(kind, st, path) == kind = "gcp" /\ path \notin st.live

MarkedDeleted(kind, st, path, version) ==
  [objects |-> IF kind = "gcp" THEN st.objects
               ELSE Put(st, path, MarkId(kind, st, version), Marker),
   live |-> st.live \ {path},
   gen |-> IF kind = "s3" THEN st.gen + 1 ELSE st.gen]

\* Mutated form: the deletion is not restricted to one version.
Deleted_AllVersions(kind, st, path, rv) ==
  [st EXCEPT !.objects = {o \in @ : o.path # path}, !.live = @ \ {path}]

\* Deletion of one version of path.  A GCP "marker" is nothing that could be
\* deleted, and deleting the live generation leaves no live version.
Deleted(kind, st, path, rv) ==
  IF kind = "gcp" /\ rv[1] = "d" THEN st
  ELSE [st EXCEPT !.objects = @ \ Named(st, path, rv),
                  !.live = IF \E o \in st.objects : o.path = path /\ o.rv[2] > rv[2]
                           THEN @ ELSE @ \ {path}]
=============================================================================
