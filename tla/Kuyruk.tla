------------------------------- MODULE Kuyruk -------------------------------
(***************************************************************************)
(* The job queue in the database (kuyruk/kuyruk.service.ts): a round of    *)
(* isle() every minute in every process takes back the jobs whose worker   *)
(* is lost, then claims and runs due jobs one after another.  A round may  *)
(* still be running when the next one starts, in its own process or in     *)
(* another one: Workers are the rounds that may overlap.                   *)
(*                                                                         *)
(* Time is not counted.  A job put off becomes due after a while, and a    *)
(* claim grows old (KILIT_ZAMAN_ASIMI_DK) once its worker is gone: that a  *)
(* live handler ends within those ten minutes is assumed.                  *)
(*                                                                         *)
(* An operator marked Mistake is no part of the model: it is a definition  *)
(* as a plausible error would have it, for checking that a run notices.    *)
(***************************************************************************)
EXTENDS Integers, FiniteSets

CONSTANTS
  Jobs,        \* jobs ever queued, numbered in the order of createdAt
  Workers,
  MaxDeneme,   \* is_kuyrugu.maxDeneme
  TurBoyu,     \* jobs one round takes at most
  MaxCrashes   \* bound on how often a round is cut off

ASSUME KuyrukAssumption ==
  /\ Jobs \subseteq Nat \ {0} /\ IsFiniteSet(Jobs)
  /\ MaxDeneme \in Nat \ {0} /\ TurBoyu \in Nat \ {0} /\ MaxCrashes \in Nat

VARIABLES
  row,       \* table is_kuyrugu
  worker,    \* each round: where it is, the job it read, and that row's denemeSayisi
  runs,      \* how often a job's handler was started (no column: history)
  crashes    \* rounds cut off so far

vars == <<row, worker, runs, crashes>>

Durum == {"BEKLIYOR", "ISLENIYOR", "TAMAM", "HATA"}

NoRow == [durum |-> "NONE", deneme |-> 0, due |-> FALSE, old |-> FALSE]
NewRow == [durum |-> "BEKLIYOR", deneme |-> 0, due |-> TRUE, old |-> FALSE]
NoJob == 0
Resting == [pc |-> "rest", job |-> NoJob, seen |-> 0, left |-> 0]
\* Mistake: the bound of a round is off by one.
Looking_OneMore(n) == [pc |-> "pick", job |-> NoJob, seen |-> 0, left |-> n + 1]

Looking(n) == [pc |-> "pick", job |-> NoJob, seen |-> 0, left |-> n]

\* A round that has claimed its job and not yet written the outcome.
Running(w) == worker[w].pc \in {"run", "ok", "err"}

-----------------------------------------------------------------------------

Ekle(j) ==
  /\ row[j] = NoRow
  /\ \A i \in Jobs : i < j => row[i] # NoRow
  /\ row' = [row EXCEPT ![j] = NewRow]
  /\ UNCHANGED <<worker, runs, crashes>>

\* Mistake: claims are never taken back.
Expired_Never(j) == FALSE

\* The claim of j is older than KILIT_ZAMAN_ASIMI_DK.
Expired(j) == row[j].durum = "ISLENIYOR" /\ row[j].old

\* One conditional update of all the rows it finds.
KilitleriKurtar(w) ==
  /\ worker[w].pc = "rest"
  /\ row' = [j \in Jobs |->
       IF Expired(j)
         THEN [row[j] EXCEPT !.durum = "BEKLIYOR", !.deneme = @ + 1, !.old = FALSE]
         ELSE row[j]]
  /\ worker' = [worker EXCEPT ![w] = Looking(TurBoyu)]
  /\ UNCHANGED <<runs, crashes>>

Waiting == {j \in Jobs : row[j].durum = "BEKLIYOR" /\ row[j].due}

\* sahiplen's findFirst: the oldest due job, read and not locked.
Pick(w) ==
  /\ worker[w].pc = "pick"
  /\ worker[w].left > 0
  /\ \E j \in Waiting :
       /\ \A i \in Waiting : j <= i
       /\ worker' = [worker EXCEPT ![w].pc = "lock", ![w].job = j, ![w].seen = row[j].deneme]
  /\ UNCHANGED <<row, runs, crashes>>

RoundOver(w) ==
  /\ worker[w].pc = "pick"
  /\ worker[w].left = 0 \/ Waiting = {}
  /\ worker' = [worker EXCEPT ![w] = Resting]
  /\ UNCHANGED <<row, runs, crashes>>

\* Mistake: the job is claimed on what was read.
StillWaits_AsRead(j) == TRUE

StillWaits(j) == row[j].durum = "BEKLIYOR"

\* sahiplen's updateMany asks only whether the job still waits: not for its due
\* time, and not for the count of attempts that was read with it.
Claim(w) ==
  LET j == worker[w].job
  IN /\ worker[w].pc = "lock"
     /\ StillWaits(j)
     /\ row' = [row EXCEPT ![j].durum = "ISLENIYOR", ![j].old = FALSE]
     /\ runs' = [runs EXCEPT ![j] = @ + 1]
     /\ worker' = [worker EXCEPT ![w].pc = "run"]
     /\ UNCHANGED crashes

\* Somebody else has it: count is not 1, and the round ends.
ClaimLost(w) ==
  /\ worker[w].pc = "lock"
  /\ ~StillWaits(worker[w].job)
  /\ worker' = [worker EXCEPT ![w] = Resting]
  /\ UNCHANGED <<row, runs, crashes>>

\* The handler returns or throws.
Calistir(w, outcome) ==
  /\ worker[w].pc = "run"
  /\ worker' = [worker EXCEPT ![w].pc = outcome]
  /\ UNCHANGED <<row, runs, crashes>>

NextJob(w) == worker' = [worker EXCEPT ![w] = Looking(worker[w].left - 1)]

Tamam(w) ==
  /\ worker[w].pc = "ok"
  /\ row' = [row EXCEPT ![worker[w].job].durum = "TAMAM"]
  /\ NextJob(w)
  /\ UNCHANGED <<runs, crashes>>

\* Mistake: the job is given up one attempt early.
Kalici_Early(deneme) == deneme + 1 >= MaxDeneme

Kalici(deneme) == deneme >= MaxDeneme

\* The catch block writes the count it read plus one, and puts the job off.
Basarisiz(w) ==
  LET deneme == worker[w].seen + 1
      j == worker[w].job
  IN /\ worker[w].pc = "err"
     /\ row' = [row EXCEPT ![j].deneme = deneme, ![j].due = FALSE,
                           ![j].durum = IF Kalici(deneme) THEN "HATA" ELSE "BEKLIYOR"]
     /\ NextJob(w)
     /\ UNCHANGED <<runs, crashes>>

\* The process stops, or the database cannot be reached: isle() gives the round up.
CutOff(w) ==
  /\ worker[w].pc # "rest"
  /\ crashes < MaxCrashes
  /\ crashes' = crashes + 1
  /\ worker' = [worker EXCEPT ![w] = Resting]
  /\ UNCHANGED <<row, runs>>

BecomesDue(j) ==
  /\ row[j].durum = "BEKLIYOR" /\ ~row[j].due
  /\ row' = [row EXCEPT ![j].due = TRUE]
  /\ UNCHANGED <<worker, runs, crashes>>

ClaimGrowsOld(j) ==
  /\ row[j].durum = "ISLENIYOR" /\ ~row[j].old
  /\ ~\E w \in Workers : Running(w) /\ worker[w].job = j
  /\ row' = [row EXCEPT ![j].old = TRUE]
  /\ UNCHANGED <<worker, runs, crashes>>

Round(w) ==
  \/ KilitleriKurtar(w)
  \/ Pick(w) \/ RoundOver(w)
  \/ Claim(w) \/ ClaimLost(w)
  \/ \E outcome \in {"ok", "err"} : Calistir(w, outcome)
  \/ Tamam(w) \/ Basarisiz(w)

TimePasses(j) == BecomesDue(j) \/ ClaimGrowsOld(j)

Init ==
  /\ row = [j \in Jobs |-> NoRow]
  /\ worker = [w \in Workers |-> Resting]
  /\ runs = [j \in Jobs |-> 0]
  /\ crashes = 0

Next ==
  \/ \E j \in Jobs : Ekle(j) \/ TimePasses(j)
  \/ \E w \in Workers : Round(w) \/ CutOff(w)

Spec == Init /\ [][Next]_vars

\* Cron starts a round every minute, rounds go on, and time passes.
FairSpec ==
  /\ Spec
  /\ \A w \in Workers : WF_vars(Round(w))
  /\ \A j \in Jobs : WF_vars(TimePasses(j))

-----------------------------------------------------------------------------

TypeOK ==
  /\ row \in [Jobs -> {NoRow} \cup
       [durum : Durum, deneme : Nat, due : BOOLEAN, old : BOOLEAN]]
  /\ worker \in [Workers ->
       [pc : {"rest", "pick", "lock", "run", "ok", "err"}, job : Jobs \cup {NoJob},
        seen : Nat, left : 0..TurBoyu]]
  /\ runs \in [Jobs -> Nat]
  /\ crashes \in 0..MaxCrashes

\* Claiming is atomic: two rounds never run the same job at the same time, although
\* both may have read it as waiting, and a running job stays claimed.
OneWorkerPerJob ==
  /\ \A v, w \in Workers :
       Running(v) /\ Running(w) /\ worker[v].job = worker[w].job => v = w
  /\ \A w \in Workers : Running(w) => row[worker[w].job].durum = "ISLENIYOR"

\* The count of attempts never runs ahead of the attempts, so a job is given up
\* (HATA) only after the handler was started maxDeneme times.
GivenUpOnlyWhenTried ==
  \A j \in Jobs :
    /\ row[j].deneme <= runs[j]
    /\ row[j].durum = "HATA" => runs[j] >= MaxDeneme

\* A job that is done or given up is never queued or run again by a late round.
OutcomeForGood ==
  [][\A j \in Jobs : row[j].durum \in {"TAMAM", "HATA"} => row'[j] = row[j]]_vars

\* Every job queued is done or given up in the end, even if its worker is lost.
JobsEnd ==
  \A j \in Jobs : (row[j] # NoRow) ~> row[j].durum \in {"TAMAM", "HATA"}

\* "After maxDeneme it stays in the book as HATA" (the header of the service): a
\* job is not run more than maxDeneme times.
AttemptsWithinMax == \A j \in Jobs : runs[j] <= MaxDeneme

\* "The count of attempts goes up so that there is no endless loop" (above
\* kilitleriKurtar): a job that has used up its attempts is not run again.
NoRunAfterMax ==
  [][\A j \in Jobs :
       row[j].durum = "BEKLIYOR" /\ row'[j].durum = "ISLENIYOR" =>
         row[j].deneme < MaxDeneme]_vars
=============================================================================
