------------------------------ MODULE MCServer ------------------------------
(***************************************************************************)
(* Instances of the server's parts for TLC, as MCPhone has those of the    *)
(* phone: a behaviour is of one part, and the others stand still in an     *)
(* initial state, where nothing their fairness asks for is enabled.        *)
(***************************************************************************)
EXTENDS RenderQueue, UpdateSweep, BackupRestore, SourceHealth, TLC

CONSTANTS Parts, j1, w1, w2, t1, ch1, a, b, s1, s2

OneChapter == [j \in Jobs |-> ch1]
AllAtOnce == {HealthSources}

VARIABLE part

\* One series with a long history; or two with a short one and the pool's walk
\* alone, with fewer mishaps.
OneSeries == (\A f \in DOMAIN follows' : follows'[f].series = a) /\ released'[b] = 0

TwoSeries ==
    /\ \A s \in Series : released'[s] <= 1
    /\ walk'["request"] = NoWalk /\ walks' = walks
    /\ \A f \in FollowIds, c \in AllChapters : notices'[f][c] # "read"
    /\ badAnswers' >= MaxBadAnswers - 1

\* Searches beside the re-probe; or the sweep or readers of the first source
\* beside it, with fewer turns.
Searches ==
    /\ recorder'["traffic"] = Resting /\ recorder'["sweep"] = Resting
    /\ s2 \in answers <=> s2 \in answers'

Readers ==
    /\ recorder'["search"] = Resting
    /\ recorder'["traffic"] = Resting \/ recorder'["sweep"] = Resting
    /\ recorder'["traffic"].heard[s2] = "none" /\ (s2 \in answers <=> s2 \in answers')
    /\ turns' >= MaxTurns - 1

ServerInit ==
    /\ part \in Parts
    /\ Init /\ SweepInit /\ RestoreInit /\ HealthInit
    /\ part \notin {"searches", "readers"} => answers = {}
    /\ part # "twoSeries" => released[b] = 0
    /\ part \notin {"oneSeries", "twoSeries"} => released[a] = 0

ServerNext ==
    /\ part' = part
    /\ \/ part = "render" /\ Next /\ UNCHANGED <<sweepVars, restoreVars, healthVars>>
       \/ /\ part \in {"oneSeries", "twoSeries"} /\ SweepNext
          /\ IF part = "oneSeries" THEN OneSeries ELSE TwoSeries
          /\ UNCHANGED <<vars, restoreVars, healthVars>>
       \/ part = "restore" /\ RestoreNext /\ UNCHANGED <<vars, sweepVars, healthVars>>
       \/ /\ part \in {"searches", "readers"} /\ HealthNext
          /\ IF part = "searches" THEN Searches ELSE Readers
          /\ UNCHANGED <<vars, sweepVars, restoreVars>>

ServerSpec ==
    ServerInit /\ [][ServerNext]_<<part, vars, sweepVars, restoreVars, healthVars>>

FairServer ==
    ServerSpec /\ Fairness /\ SweepFairness /\ RestoreFairness /\ HealthFairness

\* The types of the sweep's, the restore's and the health's variables.
ServerTypesOK == SweepTypeOK /\ RestoreTypeOK /\ HealthTypeOK
=============================================================================
