---------------------------- MODULE MCBackupItem ----------------------------
(* Instances of BackupItem for TLC: two targets, the first an S3 bucket     *)
(* (or a GCP bucket), whose limit on the size of an object the contents in  *)
(* Large exceed, and the second an Azure container.                         *)
EXTENDS BackupItem, TLC

CONSTANTS t1, t2, Large

TwoTargets == <<t1, t2>>

S3AndAzure == t1 :> "s3" @@ t2 :> "azure"

GcpAndAzure == t1 :> "gcp" @@ t2 :> "azure"

LargeForFirst == t1 :> Large @@ t2 :> {}

\* Items are interchangeable, but for the ones with a reserved name.
Symmetry == Permutations(Paths \ Reserved)
=============================================================================
