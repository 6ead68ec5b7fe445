-------------------------- MODULE MCStreamUnderlay --------------------------
(* Small instances of StreamUnderlay for TLC.                              *)
EXTENDS StreamUnderlay

CONSTANT s1

\* The server writes one payload, the client only opens the session.
DownloadOne == [e \in Side |-> IF e = "server" THEN 1 ELSE 0]

\* The client writes one payload, with the open request or after it.
UploadOne == [e \in Side |-> IF e = "client" THEN 1 ELSE 0]
=============================================================================
