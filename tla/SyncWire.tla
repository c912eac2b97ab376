------------------------------ MODULE SyncWire ------------------------------
(***************************************************************************)
(* The HTTP adapter of sync.rs: what each route of the wire makes of what  *)
(* comes back from a call.                                                 *)
(*                                                                         *)
(* An answer is the outcome of one HTTP exchange as the carrier sees it.   *)
(* Of the calls that end without a usable answer the remote may have seen  *)
(* the request all the same.                                               *)
(***************************************************************************)
EXTENDS Naturals

\* Whether the remote has acted on the request.
Heard == {"ok", "unheard", "garbled", "untagged"}

\* exchange and refuse: a token file that cannot be read, a carrier failure
\* and a body that is not JSON, or not the route's JSON, are Io; an error
\* envelope says whether a lease has expired; any other status is a refusal.
Control ==
  [ok |-> "Ok", unreadableToken |-> "Io", lost |-> "Io", unheard |-> "Io",
   garbled |-> "Io", expiredCode |-> "Expired", otherCode |-> "Refused",
   bareStatus |-> "Refused"]

\* The routes that are one exchange: any status but the one expected is
\* refused, and a body that does not read as the route's answer, a digest or
\* an identifier in it that is not one included, is Io.
DeclareRoute == Control
PackGrantsRoute == Control
BlobGrantsRoute == Control
ReportRoute == Control
HeadRoute == Control
DownloadGrantsRoute == Control

\* upload_pack: the store answers 403 for a grant that has run out.
UploadPack ==
  [ok |-> "Ok", lost |-> "Io", unheard |-> "Io", status403 |-> "Expired",
   bareStatus |-> "Refused"]

\* upload_blob_part: 404 is the multipart upload that is gone, and a part
\* that landed without an etag cannot be reported.
UploadBlobPart ==
  [ok |-> "Ok", lost |-> "Io", unheard |-> "Io", untagged |-> "Io",
   status403 |-> "Expired", status404 |-> "Expired", bareStatus |-> "Refused"]

\* download: a body shorter or longer than the grant says is Io.
Download ==
  [ok |-> "Ok", forged |-> "Ok", lost |-> "Io", short |-> "Io", long |-> "Io",
   status403 |-> "Expired", bareStatus |-> "Refused"]

\* complete: a failure body decides before the status does, and a 200 that is
\* neither a failure nor `promoted' is a refusal.
CompleteRoute ==
  [ok |-> "Ok", unreadableToken |-> "Io", lost |-> "Io", unheard |-> "Io",
   garbled |-> "Io", expiredCode |-> "Expired", otherCode |-> "Refused",
   bareStatus |-> "Refused", otherStage |-> "Refused"]

\* Which fault of the environment an answer needs.
FaultOf(answer) ==
  CASE answer = "ok" -> "none"
    [] answer \in {"lost", "unheard", "garbled", "untagged", "short", "long",
                   "unreadableToken"} -> "carrier"
    [] answer \in {"expiredCode", "status403", "status404"} -> "expire"
    [] OTHER -> "refuse"
=============================================================================
