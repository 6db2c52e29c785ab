---------------------------- MODULE PrivateCopies ----------------------------
(***************************************************************************)
(* What the download store promises, without its sharing: every saved      *)
(* chapter has copies of its own pages.  A copy appears when its bytes are *)
(* stored, is dropped with or from its own chapter, and is lost only when  *)
(* somebody deletes those bytes from the phone outside the app.            *)
(*                                                                         *)
(* The code stores each distinct page once and counts the rows that name   *)
(* it (downloads_store.dart, savePage; downloads_deletion.dart);           *)
(* DownloadStore shows that nobody can tell.                               *)
(***************************************************************************)
CONSTANTS Rows, PageNumbers, Hashes

VARIABLES
    copies,   \* the pages a reader can open, each with its bytes
    taken     \* the bytes somebody deleted outside the app, not stored since

copyVars == <<copies, taken>>

Copy == [row : Rows, page : PageNumbers, hash : Hashes]

CopiesInit == copies = {} /\ taken = {}

\* Storing bytes also brings back the copies that were lost of the same bytes.
Store(h) ==
    /\ \E new \in SUBSET {c \in Copy : c.hash = h} : copies' = copies \cup new
    /\ taken' = taken \ {h}

\* Deleting or pruning one chapter.
Discard(r) ==
    /\ \E old \in SUBSET {c \in copies : c.row = r} : copies' = copies \ old
    /\ UNCHANGED taken

\* Somebody deletes a file by hand.
Lose(h) ==
    /\ copies' = {c \in copies : c.hash # h}
    /\ taken' = taken \cup {h}

CopiesNext ==
    \/ \E h \in Hashes : Store(h) \/ Lose(h)
    \/ \E r \in Rows : Discard(r)

CopiesSpec == CopiesInit /\ [][CopiesNext]_copyVars
=============================================================================
