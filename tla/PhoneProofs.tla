----------------------------- MODULE PhoneProofs -----------------------------
(***************************************************************************)
(* Proofs about the phone as MCPhone puts it together: it is each of its   *)
(* parts, so what is proved of a part holds of it.                         *)
(*                                                                         *)
(* Where pushes come one at a time, only w1's handler gets between its     *)
(* load and its commit (OnlyOneLoads), so no two of them overlap and what  *)
(* ProgressProofs shows of pushes that do not overlap holds there.         *)
(***************************************************************************)
EXTENDS MCPhone, ProgressProofs, DownloadProofs, BookmarkSyncProofs, ReadingStatsProofs

wholePhone == <<part, vars, storeVars, queueVars, bookmarkVars, statsVars>>

\* One step of the phone is a step of one part; the others stand still.
LEMMA EachPartSteps ==
    ASSUME [PhonePartNext]_wholePhone
    PROVE  /\ [Next]_vars /\ [StoreNext]_storeVars /\ [QueueNext]_queueVars
           /\ [BookmarkNext]_bookmarkVars /\ [StatsNext]_statsVars
BY DEF PhonePartNext, wholePhone

\* The phone is each of its parts: what is proved of the progress protocol, of
\* the downloads' store and queue, of the bookmarks and of the statistics holds
\* of the phone that has them all.
THEOREM PhoneIsItsParts ==
    PhoneSpec => Spec /\ StoreSpec /\ QueueSpec /\ BookmarkSpec /\ StatsSpec
<1>1. PhoneInit => Init /\ StoreInit /\ QueueInit /\ BookmarkInit /\ StatsInit
    BY DEF PhoneInit
<1>2. [PhonePartNext]_wholePhone =>
        /\ [Next]_vars /\ [StoreNext]_storeVars /\ [QueueNext]_queueVars
        /\ [BookmarkNext]_bookmarkVars /\ [StatsNext]_statsVars
    BY EachPartSteps
<1>3. PhoneSpec => PhoneInit /\ [][PhonePartNext]_wholePhone
    BY DEF PhoneSpec, wholePhone
<1> QED BY <1>1, <1>2, <1>3, PTL DEF Spec, StoreSpec, QueueSpec, BookmarkSpec, StatsSpec

\* The downloads' and the bookmarks' variables keep their types in the phone
\* that has them all.
THEOREM PhoneTypes == PhoneSpec => []PhoneTypesOK
<1>1. StoreInv /\ QueueInv /\ BookmarkTypeOK => PhoneTypesOK
    BY DEF StoreInv, QueueInv, PhoneTypesOK
<1> QED BY <1>1, PhoneIsItsParts, StoreHolds, QueueHolds, BookmarkTypes, PTL

-----------------------------------------------------------------------------
(* One push at a time. *)

\* Nobody but w1 gets as far as its load.
OnlyOneLoads == \A w \in Workers : handler[w].phase = "loaded" => w = w1

AloneInv == part = "alone" => ApartInv /\ OnlyOneLoads

LEMMA InitAlone == PhoneInit => AloneInv
<1> SUFFICES ASSUME Init PROVE OnlyOneLoads
    BY InitApart DEF PhoneInit, AloneInv
<1> QED BY DEF Init, OnlyOneLoads, Free

\* Then no two pushes overlap.
LEMMA AloneIsApart == OnlyOneLoads => MergesApart
BY DEF OnlyOneLoads, MergesApart

\* A step of that phone leaves every other handler as it is.
LEMMA AloneMoves ==
    ASSUME part = "alone", [PhonePartNext]_wholePhone
    PROVE  [Next]_vars /\ \A w \in Workers \ {w1} : handler'[w] = handler[w]
<1>1. [Next]_vars
    BY EachPartSteps
<1>2. CASE PhonePartNext
    BY <1>1, <1>2 DEF PhonePartNext, OneAtATime
<1>3. CASE UNCHANGED wholePhone
    BY <1>1, <1>3 DEF wholePhone, vars, serverVars
<1> QED BY <1>2, <1>3

LEMMA PartStays == [PhonePartNext]_wholePhone => part' = part
BY DEF PhonePartNext, wholePhone

LEMMA AloneStep == AloneInv /\ [PhonePartNext]_wholePhone => AloneInv'
<1> SUFFICES ASSUME part = "alone", ApartInv, OnlyOneLoads, [PhonePartNext]_wholePhone
             PROVE  (ApartInv /\ OnlyOneLoads)'
    BY PartStays DEF AloneInv
<1>1. [Next]_vars /\ \A w \in Workers \ {w1} : handler'[w] = handler[w]
    BY AloneMoves
<1>2. ApartInv'
    BY <1>1, AloneIsApart, ApartStep
<1>3. OnlyOneLoads'
    BY <1>1 DEF OnlyOneLoads
<1> QED BY <1>2, <1>3

\* One push at a time loses no position: the furthest page saved of a chapter
\* is stored or still queued.
THEOREM PositionIsNeverLostAlone == PhoneSpec => []PositionNeverLostAlone
<1>1. AloneInv => PositionNeverLostAlone
    BY DEF AloneInv, ApartInv, PositionNeverLostAlone
<1>2. PhoneSpec => PhoneInit /\ [][PhonePartNext]_wholePhone
    BY DEF PhoneSpec, wholePhone
<1> QED BY <1>1, <1>2, InitAlone, AloneStep, PTL

\* What the table does in a step of that phone.
LEMMA AloneAdvances ==
    ASSUME AloneInv, part = "alone", [PhonePartNext]_wholePhone, NEW c \in Chapters
    PROVE  /\ row'[c].page >= row[c].page
           /\ row[c].doneAt # NoStamp => row'[c].doneAt = row[c].doneAt
<1>1. [Next]_vars
    BY AloneMoves
<1>2. TypeInv /\ Numbered /\ Steady
    BY DEF AloneInv, ApartInv
<1> QED BY <1>1, <1>2, RowsAdvance

\* Nor does one push at a time move a position back ...
THEOREM OneByOneNeverRewinds == PhoneSpec => PositionNeverRewindsAlone
<1>1. AloneInv /\ [PhonePartNext]_wholePhone =>
        [part = "alone" => \A c \in Chapters : row'[c].page >= row[c].page]_row
    BY AloneAdvances
<1>2. PhoneSpec => PhoneInit /\ [][PhonePartNext]_wholePhone
    BY DEF PhoneSpec, wholePhone
<1> QED BY <1>1, <1>2, InitAlone, AloneStep, PTL DEF PositionNeverRewindsAlone

\* ... or a completion's stamp.
THEOREM OneByOneStampsOnce == PhoneSpec => CompletionStampedOnceAlone
<1>1. AloneInv /\ [PhonePartNext]_wholePhone =>
        [part = "alone" => \A c \in Chapters :
            row[c].doneAt # NoStamp => row'[c].doneAt = row[c].doneAt]_row
    BY AloneAdvances
<1>2. PhoneSpec => PhoneInit /\ [][PhonePartNext]_wholePhone
    BY DEF PhoneSpec, wholePhone
<1> QED BY <1>1, <1>2, InitAlone, AloneStep, PTL DEF CompletionStampedOnceAlone

-----------------------------------------------------------------------------
(* Replays, one push at a time. *)

ReplayAloneInv == part = "alone" => ReplayInv /\ OnlyOneLoads

LEMMA ReplayAloneStep ==
    ReplayAloneInv /\ ClockBelieved /\ [PhonePartNext]_wholePhone => ReplayAloneInv'
<1> SUFFICES ASSUME part = "alone", ReplayInv, OnlyOneLoads, ClockBelieved,
                    [PhonePartNext]_wholePhone
             PROVE  (ReplayInv /\ OnlyOneLoads)'
    BY PartStays DEF ReplayAloneInv
<1>1. [Next]_vars /\ \A w \in Workers \ {w1} : handler'[w] = handler[w]
    BY AloneMoves
<1>2. ReplayInv'
    BY <1>1, AloneIsApart, ReplayStep
<1>3. OnlyOneLoads'
    BY <1>1 DEF OnlyOneLoads
<1> QED BY <1>2, <1>3

\* While the server believes the household's clock, one push at a time adds no
\* time when a queued push is delivered a second time, unchanged.
THEOREM OneByOneCreditsOnce ==
    PhoneSpec /\ []ClockBelieved => ReplayCreditsNothingAlone
<1>1. PhoneInit => ReplayAloneInv
    BY InitAlone, InitReplay DEF PhoneInit, AloneInv, ReplayAloneInv
<1>2. ReplayAloneInv /\ ClockBelieved /\ [PhonePartNext]_wholePhone =>
        [part = "alone" => \A w \in Workers, c \in Chapters :
            Commit(w) /\ c \in Parsed(handler[w]) /\ handler[w].items[c] \in merged[c]
                => row'[c].secs = row[c].secs]_vars
    BY ReplayAddsNoTime DEF ReplayAloneInv
<1>3. PhoneSpec => PhoneInit /\ [][PhonePartNext]_wholePhone
    BY DEF PhoneSpec, wholePhone
<1> QED BY <1>1, <1>2, <1>3, ReplayAloneStep, PTL DEF ReplayCreditsNothingAlone
=============================================================================
