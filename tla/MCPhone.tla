------------------------------ MODULE MCPhone ------------------------------
(***************************************************************************)
(* Instances of the phone's parts for TLC, and of the statistics that its  *)
(* screen asks the server for.  A behaviour is of one part,                *)
(* chosen at the start from Parts; the variables of the others stand still *)
(* in an initial state, where nothing their fairness asks for is enabled.  *)
(* "alone" and "overlap" are both ProgressSync: with one push at a time on *)
(* the server, and with two.                                               *)
(***************************************************************************)
EXTENDS ProgressSync, DownloadStore, DownloadQueue, BookmarkSync, ReadingStats, TLC

CONSTANTS Parts, d1, w1, w2, p1, p2, b1, b2, h1, h2, q1, q2

\* Page 1 has one content in every chapter, page 2 one of two.
TwoContents == <<{h1}, {h1, h2}>>
OneContent == <<{h1}>>

\* b1 is minted in the first profile, b2 in the second.
OwnerById == [b \in BookmarkIds |-> IF b = b1 THEN p1 ELSE p2]

\* The requests for the statistics differ in nothing but their names.
ReaderSymmetry == Permutations(StatReaders)

VARIABLE part

\* The phone of "overlap" saves twice, and one thing fails.
Overlapping ==
    /\ \A d \in Phones : nextId'[d] <= 3
    /\ failures' <= 1

\* Requests meet one midnight: the second comes between requests.
OneMidnight == clockDay' = 2 => clockDay = 2 \/ \A q \in StatReaders : ~UnderWay(statRead[q])

OneAtATime == \A w \in Workers \ {w1} : handler'[w] = handler[w]

PhoneInit ==
    /\ part \in Parts
    /\ Init /\ StoreInit /\ QueueInit /\ BookmarkInit /\ StatsInit
    /\ part # "bookmarks" => active = p1

PhonePartNext ==
    /\ part' = part
    /\ \/ /\ part \in {"alone", "overlap"} /\ Next
          /\ IF part = "alone" THEN OneAtATime ELSE Overlapping
          /\ UNCHANGED <<storeVars, queueVars, bookmarkVars, statsVars>>
       \/ part = "store" /\ StoreNext /\ UNCHANGED <<vars, queueVars, bookmarkVars, statsVars>>
       \/ part = "queue" /\ QueueNext /\ UNCHANGED <<vars, storeVars, bookmarkVars, statsVars>>
       \/ part = "bookmarks" /\ BookmarkNext /\ UNCHANGED <<vars, storeVars, queueVars, statsVars>>
       \/ part = "stats" /\ StatsNext /\ OneMidnight /\ UNCHANGED <<vars, storeVars, queueVars, bookmarkVars>>

PhoneSpec ==
    PhoneInit /\ [][PhonePartNext]_<<part, vars, storeVars, queueVars, bookmarkVars, statsVars>>

FairPhone ==
    /\ PhoneSpec
    /\ Fairness /\ StoreFairness /\ QueueFairness /\ BookmarkFairness

\* The types of the downloads' and the bookmarks' variables.
PhoneTypesOK == StoreTypeOK /\ QueueTypeOK /\ BookmarkTypeOK

\* One push at a time loses no position: PositionNeverLost.
PositionNeverLostAlone == part = "alone" => PositionNeverLost

\* One push at a time moves no position back: PositionNeverRewinds, which
\* overlapping pushes break.
PositionNeverRewindsAlone ==
    [][part = "alone" => \A c \in Chapters : row'[c].page >= row[c].page]_row

\* Nor does it move a completion's stamp: CompletionStampedOnce.
CompletionStampedOnceAlone ==
    [][part = "alone" => \A c \in Chapters :
         row[c].doneAt # NoStamp => row'[c].doneAt = row[c].doneAt]_row

\* Nor does it believe a push's time again: ReplayCreditsNothing.
ReplayCreditsNothingAlone ==
    [][part = "alone" => \A w \in Workers, c \in Chapters :
         Commit(w) /\ c \in Parsed(handler[w]) /\ handler[w].items[c] \in merged[c]
           => row'[c].secs = row[c].secs]_vars
=============================================================================
