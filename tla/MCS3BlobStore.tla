--------------------------- MODULE MCS3BlobStore ---------------------------
(* Model-checking instances of S3BlobStore. *)
EXTENDS S3BlobStore
=============================================================================
