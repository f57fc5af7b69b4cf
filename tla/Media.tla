------------------------------- MODULE Media -------------------------------
(***************************************************************************)
(* Uploaded media: a row in the database, and a file on disk that no       *)
(* transaction covers. Uploading makes the row, then the file, then the    *)
(* COMMIT; deleting drops the row, then the file, then the COMMIT. No      *)
(* handler deletes; the service offers it.                                 *)
(***************************************************************************)
EXTENDS Integers, FiniteSets

CONSTANTS
  Medium,      \* UUIDs, each given to one file
  Article,     \* posts that are being written
  Conn,        \* requests at a time
  Void,
  MaxFiles,    \* files in an upload
  MaxRequests  \* bound: requests

VARIABLES
  media,     \* committed rows
  files,     \* what is on disk
  torn,      \* files that were not written to their end
  links,     \* post_media: <<post, medium>>
  conn,      \* conn[c]: the request of c, see Closed
  given,     \* UUIDs handed to their uploaders
  doomed,    \* media whose delete has been asked for
  taken,     \* UUIDs given out
  requests

vars == <<media, files, torn, links, conn, given, doomed, taken, requests>>
disk == <<files, torn>>
ghosts == <<given, doomed, taken, requests>>

Closed == [at |-> "closed", uuid |-> Void, left |-> 0, done |-> {}, answer |-> Void]

Init ==
  /\ media = {} /\ files = {} /\ torn = {} /\ links = {}
  /\ conn = [c \in Conn |-> Closed]
  /\ given = {} /\ doomed = {} /\ taken = {} /\ requests = 0

Goes(c, new) == conn' = [conn EXCEPT ![c] = new]
Step(c, l) == Goes(c, [conn[c] EXCEPT !.at = l])
Close(c, answer) == Goes(c, [Closed EXCEPT !.answer = answer])
Open(c, new) ==
  /\ conn[c].at = "closed" /\ requests < MaxRequests
  /\ requests' = requests + 1
  /\ Goes(c, new)

(* rows that an open transaction has inserted or deleted *)
Deleting(u) == \E c \in Conn : conn[c].at \in {"remove", "again", "end"} /\ conn[c].uuid = u

-----------------------------------------------------------------------------
(* Uploading: one file after the other, each in a transaction of its own *)
UploadMedia(c) ==
  /\ \E n \in 1 .. MaxFiles : Open(c, [Closed EXCEPT !.at = "insert", !.left = n])
  /\ UNCHANGED <<media, disk, links, given, doomed, taken>>

(* mutant: the row is committed before there is a file *)
InsertAlone(c) ==
  /\ conn[c].at = "insert"
  /\ \E u \in Medium \ taken :
       /\ taken' = taken \cup {u}
       /\ media' = media \cup {u}
       /\ Goes(c, [conn[c] EXCEPT !.at = "save", !.uuid = u])
  /\ UNCHANGED <<disk, links, given, doomed, requests>>

InsertMedia(c) ==
  /\ conn[c].at = "insert"
  /\ \E u \in Medium \ taken :
       /\ taken' = taken \cup {u}
       /\ Goes(c, [conn[c] EXCEPT !.at = "save", !.uuid = u])
  /\ UNCHANGED <<media, disk, links, given, doomed, requests>>

(* A file that cannot be written to its end stays as it is. *)
SaveFile(c) ==
  /\ conn[c].at = "save"
  /\ files' = files \cup {conn[c].uuid}
  /\ \/ Step(c, "commit") /\ UNCHANGED torn
     \/ Close(c, "INTERNAL") /\ torn' = torn \cup {conn[c].uuid}
  /\ UNCHANGED <<media, links, ghosts>>

(* the service's Create ends, and with the last file the upload *)
Create(c) ==
  /\ conn[c].at = "commit"
  /\ media' = media \cup {conn[c].uuid}
  /\ LET done == conn[c].done \cup {conn[c].uuid} IN
     Goes(c, [conn[c] EXCEPT !.at = IF conn[c].left > 1 THEN "insert" ELSE "respond",
                             !.left = @ - 1, !.uuid = Void, !.done = done])
  /\ UNCHANGED <<disk, links, ghosts>>

RespondUploaded(c) ==
  /\ conn[c].at = "respond"
  /\ given' = given \cup conn[c].done
  /\ Close(c, "OK")
  /\ UNCHANGED <<media, disk, links, doomed, taken, requests>>

(* A statement fails, or the server stops: the files before this one stay, though the
   client does not hear of them. *)
Fail(c) ==
  /\ conn[c].at # "closed"
  /\ Close(c, "INTERNAL")
  /\ UNCHANGED <<media, disk, links, ghosts>>

-----------------------------------------------------------------------------
(* Serving: the row, then the file *)
GetByID(c) ==
  /\ \E u \in given : IF u \in media THEN Open(c, [Closed EXCEPT !.at = "open", !.uuid = u])
                      ELSE Open(c, [Closed EXCEPT !.answer = "NOT_FOUND"])
  /\ UNCHANGED <<media, disk, links, given, doomed, taken>>

GetMediaByID(c) ==
  /\ conn[c].at = "open"
  /\ LET u == conn[c].uuid IN
     Goes(c, [Closed EXCEPT !.uuid = u, !.answer = IF u \notin files THEN "NO_FILE"
                                                  ELSE IF u \in torn THEN "TORN" ELSE "SERVED"])
  /\ UNCHANGED <<media, disk, links, ghosts>>

(* Attaching: the row is looked for outside of the post's transaction, and again by the
   foreign key. Open transactions of posts are in Posts. *)
LookForMedia(c) ==
  /\ \E u \in given \cap media : Open(c, [Closed EXCEPT !.at = "link", !.uuid = u])
  /\ UNCHANGED <<media, disk, links, given, doomed, taken>>

LinkMediaToPost(c) ==
  /\ conn[c].at = "link"
  /\ ~Deleting(conn[c].uuid)
  /\ IF conn[c].uuid \in media
     THEN \E p \in Article : links' = links \cup {<<p, conn[c].uuid>>} /\ Close(c, "OK")
     ELSE Close(c, "INTERNAL") /\ UNCHANGED links
  /\ UNCHANGED <<media, disk, ghosts>>

(* what comes with a post *)
FetchPostMedia(p) == {u \in Medium : <<p, u>> \in links}

-----------------------------------------------------------------------------
(* Deleting *)
DeleteByID(c) ==
  /\ \E u \in given :
       /\ Open(c, [Closed EXCEPT !.at = "delete", !.uuid = u])
       /\ doomed' = doomed \cup {u}
  /\ UNCHANGED <<media, disk, links, given, taken>>

DeleteRow(c) ==
  /\ conn[c].at = "delete"
  /\ ~Deleting(conn[c].uuid)
  /\ IF conn[c].uuid \in media THEN Step(c, "remove") ELSE Close(c, "NOT_FOUND")
  /\ UNCHANGED <<media, disk, links, ghosts>>

(* A file that is not there is a success. *)
DeleteFile(c) == files' = files \ {conn[c].uuid} /\ UNCHANGED torn

RemoveFile(c) ==
  /\ conn[c].at = "remove"
  /\ \/ DeleteFile(c) /\ Step(c, "again")
     \/ Close(c, "INTERNAL") /\ UNCHANGED disk
  /\ UNCHANGED <<media, links, ghosts>>

(* a second time by the service, which goes on when it cannot *)
RemoveAgain(c) ==
  /\ conn[c].at = "again"
  /\ DeleteFile(c) \/ UNCHANGED disk
  /\ Step(c, "end")
  /\ UNCHANGED <<media, links, ghosts>>

CommitDelete(c) ==
  /\ conn[c].at = "end"
  /\ media' = media \ {conn[c].uuid}
  /\ links' = {l \in links : l[2] # conn[c].uuid}
  /\ Close(c, "OK")
  /\ UNCHANGED <<disk, ghosts>>

Next ==
  \E c \in Conn :
    \/ UploadMedia(c) \/ InsertMedia(c) \/ SaveFile(c) \/ Create(c) \/ RespondUploaded(c) \/ Fail(c)
    \/ GetByID(c) \/ GetMediaByID(c) \/ LookForMedia(c) \/ LinkMediaToPost(c)
    \/ DeleteByID(c) \/ DeleteRow(c) \/ RemoveFile(c) \/ RemoveAgain(c) \/ CommitDelete(c)

Spec == Init /\ [][Next]_vars
-----------------------------------------------------------------------------
MediaTypeOK ==
  /\ media \subseteq taken /\ files \subseteq taken /\ torn \subseteq taken /\ given \subseteq taken
  /\ taken \subseteq Medium
  /\ links \subseteq Article \X Medium
  /\ \A c \in Conn : conn[c].at \in {"closed", "insert", "save", "commit", "respond", "open", "link",
                                     "delete", "remove", "again", "end"}

(* A medium that has a row has its whole file, and is served, whatever failed on the way
   and wherever the server stopped; one whose UUID was handed out is there, until somebody
   asks to delete it. What comes with a post has a row. *)
MediaIsWhole ==
  /\ \A u \in media \ doomed : u \in files \ torn
  /\ given \subseteq media \cup doomed
  /\ \A c \in Conn : conn[c].answer \in {"NO_FILE", "TORN"} => conn[c].uuid \in doomed
  /\ \A p \in Article : FetchPostMedia(p) \subseteq media
=============================================================================
