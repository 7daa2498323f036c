---------------------------- MODULE KuyrukProofs ----------------------------
(***************************************************************************)
(* Machine-checked proofs about Kuyruk, for any number of jobs and         *)
(* overlapping rounds and any number of crashes.  The inductive invariant  *)
(* adds to the properties what a round knows of the job it has read: the   *)
(* count of attempts it saw is never above the attempts made.              *)
(***************************************************************************)
EXTENDS Kuyruk, TLAPS

Row == [durum : Durum, deneme : Nat, due : BOOLEAN, old : BOOLEAN]

Worker == [pc : {"rest", "pick", "lock", "run", "ok", "err"}, job : Jobs \cup {NoJob},
           seen : Nat, left : 0..TurBoyu]

JobsOK ==
  \A j \in Jobs :
    /\ row[j].deneme <= runs[j]
    /\ row[j].durum = "ISLENIYOR" => row[j].deneme < runs[j]
    /\ row[j].durum = "HATA" => runs[j] >= MaxDeneme

WorkersOK ==
  \A w \in Workers :
    /\ worker[w].pc \in {"lock", "run", "ok", "err"} =>
         worker[w].job \in Jobs /\ worker[w].left > 0
    /\ worker[w].pc = "lock" => worker[w].seen <= runs[worker[w].job]
    /\ Running(w) => worker[w].seen < runs[worker[w].job]

Lost(j) == ~\E w \in Workers : Running(w) /\ worker[w].job = j

OldIsLost == \A j \in Jobs : row[j].durum = "ISLENIYOR" /\ row[j].old => Lost(j)

IInv == TypeOK /\ OneWorkerPerJob /\ JobsOK /\ WorkersOK /\ OldIsLost

LEMMA InitIInv == Init => IInv
<1> SUFFICES ASSUME Init PROVE IInv
  OBVIOUS
<1> USE KuyrukAssumption DEF Init, Resting, NoRow
<1>1. TypeOK
  BY DEF TypeOK
<1>2. OneWorkerPerJob /\ JobsOK /\ WorkersOK /\ OldIsLost
  BY DEF OneWorkerPerJob, JobsOK, WorkersOK, OldIsLost, Running
<1> QED BY <1>1, <1>2 DEF IInv

-----------------------------------------------------------------------------

\* A row that is not missing.
LEMMA RowIsThere ==
  ASSUME TypeOK, NEW j \in Jobs, row[j].durum # "NONE"
  PROVE  row[j] \in Row
BY DEF TypeOK, NoRow, Row

\* Time passing and new jobs: no status that a round relies on changes.
LEMMA RowStep ==
  ASSUME IInv, NEW j \in Jobs, Ekle(j) \/ TimePasses(j)
  PROVE  IInv'
<1>1. UNCHANGED <<worker, runs, crashes>>
  BY DEF Ekle, TimePasses, BecomesDue, ClaimGrowsOld
<1>2. /\ row'[j] \in Row
      /\ row'[j].deneme = row[j].deneme
      /\ row'[j].durum = row[j].durum \/ (row[j].durum = "NONE" /\ row'[j].durum = "BEKLIYOR")
      /\ row'[j].durum = "ISLENIYOR" /\ row'[j].old => row[j].old \/ Lost(j)
      /\ \A i \in Jobs \ {j} : row'[i] = row[i]
      /\ row' \in [Jobs -> {NoRow} \cup Row]
  <2> USE DEF IInv, TypeOK, Row, Durum
  <2>1. CASE Ekle(j)
    <3>1. row[j] = NoRow /\ row' = [row EXCEPT ![j] = NewRow] /\ NewRow \in Row
      BY <2>1 DEF Ekle, NewRow
    <3> QED BY <3>1 DEF NoRow, NewRow
  <2>2. CASE BecomesDue(j)
    <3>1. row[j] \in Row
      BY <2>2, RowIsThere DEF BecomesDue
    <3>2. row' = [row EXCEPT ![j].due = TRUE]
      BY <2>2 DEF BecomesDue
    <3> QED BY <3>1, <3>2
  <2>3. CASE ClaimGrowsOld(j)
    <3>1. row[j] \in Row
      BY <2>3, RowIsThere DEF ClaimGrowsOld
    <3>2. row' = [row EXCEPT ![j].old = TRUE] /\ Lost(j)
      BY <2>3 DEF ClaimGrowsOld, Lost
    <3> QED BY <3>1, <3>2
  <2> QED BY <2>1, <2>2, <2>3 DEF TimePasses
<1>3. TypeOK'
  BY <1>1, <1>2 DEF IInv, TypeOK, Row
<1>4. OneWorkerPerJob'
  BY <1>1, <1>2 DEF IInv, OneWorkerPerJob, Running, WorkersOK
<1>5. JobsOK'
  BY <1>1, <1>2 DEF IInv, JobsOK
<1>6. WorkersOK'
  BY <1>1 DEF IInv, WorkersOK, Running
<1>7. OldIsLost'
  <2>1. \A i \in Jobs : Lost(i)' <=> Lost(i)
    BY <1>1 DEF Lost, Running
  <2> QED BY <1>2, <2>1 DEF IInv, OldIsLost
<1> QED BY <1>3, <1>4, <1>5, <1>6, <1>7 DEF IInv

\* A round that writes no row.
LEMMA ReadingStep ==
  ASSUME IInv, NEW w \in Workers,
         \/ Pick(w) \/ RoundOver(w) \/ ClaimLost(w) \/ CutOff(w)
         \/ \E outcome \in {"ok", "err"} : Calistir(w, outcome)
  PROVE  IInv'
<1>1. row' = row /\ runs' = runs /\ crashes' \in 0..MaxCrashes
  <2>1. row' = row /\ runs' = runs
    BY DEF Pick, RoundOver, ClaimLost, CutOff, Calistir
  <2>2. crashes' = crashes \/ (crashes < MaxCrashes /\ crashes' = crashes + 1)
    BY DEF Pick, RoundOver, ClaimLost, CutOff, Calistir
  <2> QED BY <2>1, <2>2, KuyrukAssumption DEF IInv, TypeOK
<1>2. /\ worker'[w] \in Worker
      /\ \A v \in Workers \ {w} : worker'[v] = worker[v]
      /\ worker' \in [Workers -> Worker]
      /\ \/ worker'[w].pc = "rest"
         \/ /\ worker'[w].pc = "lock" /\ worker'[w].job \in Jobs /\ worker'[w].left > 0
            /\ worker'[w].seen = row[worker'[w].job].deneme
         \/ /\ Running(w) /\ worker'[w].pc \in {"ok", "err"}
            /\ worker'[w].job = worker[w].job /\ worker'[w].seen = worker[w].seen
            /\ worker'[w].left = worker[w].left
  <2>1. worker \in [Workers -> Worker]
    BY DEF IInv, TypeOK, Worker
  <2>2. CASE Pick(w)
    <3>1. PICK j \in Waiting :
            /\ worker' = [worker EXCEPT ![w].pc = "lock", ![w].job = j, ![w].seen = row[j].deneme]
            /\ worker[w].left > 0
      BY <2>2 DEF Pick
    <3>2. j \in Jobs /\ row[j] \in Row
      BY RowIsThere DEF Waiting, IInv
    <3>3. row[j].deneme \in Nat
      BY <3>2 DEF Row
    <3> QED BY <2>1, <3>1, <3>2, <3>3 DEF Worker
  <2>3. CASE RoundOver(w) \/ ClaimLost(w) \/ CutOff(w)
    <3>1. worker' = [worker EXCEPT ![w] = Resting]
      BY <2>3 DEF RoundOver, ClaimLost, CutOff
    <3>2. Resting \in Worker /\ Resting.pc = "rest"
      BY KuyrukAssumption DEF Resting, Worker
    <3> QED BY <2>1, <3>1, <3>2
  <2>4. ASSUME NEW outcome \in {"ok", "err"}, Calistir(w, outcome)
        PROVE  /\ worker'[w] \in Worker
               /\ \A v \in Workers \ {w} : worker'[v] = worker[v]
               /\ worker' \in [Workers -> Worker]
               /\ Running(w) /\ worker'[w].pc \in {"ok", "err"}
               /\ worker'[w].job = worker[w].job /\ worker'[w].seen = worker[w].seen
               /\ worker'[w].left = worker[w].left
    <3>1. worker' = [worker EXCEPT ![w].pc = outcome] /\ worker[w].pc = "run"
      BY <2>4 DEF Calistir
    <3> QED BY <2>1, <3>1 DEF Worker, Running
  <2> QED BY <2>2, <2>3, <2>4
<1>3. TypeOK'
  BY <1>1, <1>2 DEF IInv, TypeOK, Worker
<1>4. OneWorkerPerJob'
  BY <1>1, <1>2 DEF IInv, OneWorkerPerJob, Running
<1>5. JobsOK'
  BY <1>1 DEF IInv, JobsOK
<1>6. WorkersOK'
  BY <1>1, <1>2 DEF IInv, WorkersOK, JobsOK, Running
<1>7. OldIsLost'
  BY <1>1, <1>2 DEF IInv, OldIsLost, Lost, Running
<1> QED BY <1>3, <1>4, <1>5, <1>6, <1>7 DEF IInv

\* Lost jobs are taken back: nobody is running them.
LEMMA RescueStep ==
  ASSUME IInv, NEW w \in Workers, KilitleriKurtar(w)
  PROVE  IInv'
<1>1. /\ runs' = runs /\ crashes' = crashes
      /\ worker' = [worker EXCEPT ![w] = Looking(TurBoyu)]
      /\ worker[w].pc = "rest"
  BY DEF KilitleriKurtar, Expired
<1>2. Looking(TurBoyu) \in Worker /\ Looking(TurBoyu).pc = "pick"
  BY KuyrukAssumption DEF Looking, Worker
<1>3. /\ worker'[w].pc = "pick"
      /\ \A v \in Workers \ {w} : worker'[v] = worker[v]
      /\ worker' \in [Workers -> Worker]
  <2>1. worker \in [Workers -> Worker]
    BY DEF IInv, TypeOK, Worker
  <2> QED BY <1>1, <1>2, <2>1
<1>4. ASSUME NEW j \in Jobs
      PROVE  /\ row'[j] \in {NoRow} \cup Row
             /\ row[j].deneme \in Nat
             /\ \/ row'[j] = row[j] /\ ~(row[j].durum = "ISLENIYOR" /\ row[j].old)
                \/ /\ row[j].durum = "ISLENIYOR" /\ Lost(j)
                   /\ row'[j].durum = "BEKLIYOR" /\ row'[j].deneme = row[j].deneme + 1
  <2>1. CASE row[j].durum = "ISLENIYOR" /\ row[j].old
    <3>1. row[j] \in Row
      BY <2>1, RowIsThere DEF IInv
    <3>2. row'[j] = [row[j] EXCEPT !.durum = "BEKLIYOR", !.deneme = @ + 1, !.old = FALSE]
      BY <2>1 DEF KilitleriKurtar, Expired
    <3>3. row'[j] \in Row /\ row'[j].durum = "BEKLIYOR" /\ row'[j].deneme = row[j].deneme + 1
      <4>1. row'[j] = [durum |-> "BEKLIYOR", deneme |-> row[j].deneme + 1,
                       due |-> row[j].due, old |-> FALSE]
        BY <3>1, <3>2 DEF Row
      <4>2. row[j].deneme \in Nat /\ row[j].due \in BOOLEAN
        BY <3>1 DEF Row
      <4> QED BY <4>1, <4>2 DEF Row, Durum
    <3>4. row[j].deneme \in Nat
      BY <3>1 DEF Row
    <3> QED BY <2>1, <3>3, <3>4 DEF IInv, OldIsLost
  <2>2. CASE ~(row[j].durum = "ISLENIYOR" /\ row[j].old)
    <3>1. row'[j] = row[j]
      BY <2>2, Zenon DEF KilitleriKurtar, Expired
    <3>2. row[j] \in {NoRow} \cup Row /\ row[j].deneme \in Nat
      BY DEF IInv, TypeOK, Row, NoRow
    <3> QED BY <2>2, <3>1, <3>2
  <2> QED BY <2>1, <2>2
<1>5. row' \in [Jobs -> {NoRow} \cup Row]
  <2>1. row' = [j \in Jobs |-> row'[j]]
    BY DEF KilitleriKurtar, Expired
  <2> QED BY <1>4, <2>1
<1>6. TypeOK'
  BY <1>1, <1>3, <1>5 DEF IInv, TypeOK, Row, Worker
<1>7. OneWorkerPerJob'
  BY <1>1, <1>3, <1>4 DEF IInv, OneWorkerPerJob, WorkersOK, Running, Lost
<1>8. JobsOK'
  <2>1. \A j \in Jobs : runs[j] \in Nat
    BY DEF IInv, TypeOK
  <2> QED BY <1>1, <1>4, <2>1 DEF IInv, JobsOK
<1>9. WorkersOK'
  BY <1>1, <1>3 DEF IInv, WorkersOK, Running
<1>10. OldIsLost'
  BY <1>3, <1>4 DEF IInv, OldIsLost, Lost, Running
<1> QED BY <1>6, <1>7, <1>8, <1>9, <1>10 DEF IInv

\* The conditional update: only a job that waits is claimed, and nobody runs it.
LEMMA ClaimStep ==
  ASSUME IInv, NEW w \in Workers, Claim(w)
  PROVE  IInv'
<1>1. PICK j \in Jobs :
        /\ worker[w].job = j /\ worker[w].pc = "lock"
        /\ row[j].durum = "BEKLIYOR" /\ row[j] \in Row
        /\ worker[w].seen <= runs[j]
  BY RowIsThere DEF Claim, StillWaits, IInv, WorkersOK
<1>2. /\ row' = [row EXCEPT ![j].durum = "ISLENIYOR", ![j].old = FALSE]
      /\ runs' = [runs EXCEPT ![j] = @ + 1]
      /\ worker' = [worker EXCEPT ![w].pc = "run"]
      /\ crashes' = crashes
  BY <1>1 DEF Claim, StillWaits
<1>3. /\ row'[j].durum = "ISLENIYOR" /\ ~row'[j].old /\ row'[j].deneme = row[j].deneme
      /\ \A i \in Jobs \ {j} : row'[i] = row[i] /\ runs'[i] = runs[i]
      /\ row' \in [Jobs -> {NoRow} \cup Row]
      /\ runs'[j] = runs[j] + 1 /\ runs' \in [Jobs -> Nat]
  <2>1. row \in [Jobs -> {NoRow} \cup Row] /\ runs \in [Jobs -> Nat]
    BY DEF IInv, TypeOK, Row
  <2>2. /\ row'[j] = [row[j] EXCEPT !.durum = "ISLENIYOR", !.old = FALSE]
        /\ \A i \in Jobs \ {j} : row'[i] = row[i] /\ runs'[i] = runs[i]
        /\ runs'[j] = runs[j] + 1 /\ runs' \in [Jobs -> Nat]
    BY <1>2, <2>1
  <2>3. /\ row'[j] \in Row
        /\ row'[j].durum = "ISLENIYOR" /\ ~row'[j].old /\ row'[j].deneme = row[j].deneme
    BY <1>1, <2>2 DEF Row, Durum
  <2>4. row' \in [Jobs -> {NoRow} \cup Row]
    BY <1>2, <2>1, <2>2, <2>3
  <2> QED BY <2>2, <2>3, <2>4
<1>4. /\ worker'[w].pc = "run" /\ worker'[w].job = j /\ worker'[w].seen = worker[w].seen
      /\ worker'[w].left = worker[w].left
      /\ \A v \in Workers \ {w} : worker'[v] = worker[v]
      /\ worker' \in [Workers -> Worker]
  BY <1>1, <1>2 DEF IInv, TypeOK, Worker
<1>5. \A v \in Workers : Running(v) => worker[v].job # j
  BY <1>1 DEF IInv, OneWorkerPerJob
<1>6. TypeOK'
  BY <1>2, <1>3, <1>4 DEF IInv, TypeOK, Row, Worker
<1>7. OneWorkerPerJob'
  BY <1>3, <1>4, <1>5 DEF IInv, OneWorkerPerJob, WorkersOK, Running
<1>8. JobsOK'
  BY <1>1, <1>3 DEF IInv, JobsOK, TypeOK, Row
<1>9. WorkersOK'
  <2>1. worker[w].seen < runs'[j]
    BY <1>1, <1>3 DEF IInv, TypeOK
  <2>2. \A i \in Jobs : runs[i] <= runs'[i] /\ runs[i] \in Nat /\ runs'[i] \in Nat
    <3>1. \A i \in Jobs : runs[i] \in Nat
      BY DEF IInv, TypeOK
    <3> QED BY <1>3, <3>1
  <2>3. \A v \in Workers : worker[v].seen \in Nat
    BY DEF IInv, TypeOK
  <2> SUFFICES ASSUME NEW v \in Workers
      PROVE  /\ worker'[v].pc \in {"lock", "run", "ok", "err"} =>
                  worker'[v].job \in Jobs /\ worker'[v].left > 0
             /\ worker'[v].pc = "lock" => worker'[v].seen <= runs'[worker'[v].job]
             /\ Running(v)' => worker'[v].seen < runs'[worker'[v].job]
    BY DEF WorkersOK
  <2>4. CASE v = w
    BY <1>1, <1>4, <2>1, <2>4 DEF IInv, WorkersOK
  <2>5. CASE v # w
    BY <1>4, <2>2, <2>3, <2>5 DEF IInv, WorkersOK, Running
  <2> QED BY <2>4, <2>5
<1>10. OldIsLost'
  BY <1>3, <1>4 DEF IInv, OldIsLost, Lost, Running
<1> QED BY <1>6, <1>7, <1>8, <1>9, <1>10 DEF IInv

\* Writing the outcome: the round still holds the job, and counts no attempt more.
LEMMA OutcomeStep ==
  ASSUME IInv, NEW w \in Workers, Tamam(w) \/ Basarisiz(w)
  PROVE  IInv'
<1>1. PICK j \in Jobs :
        /\ worker[w].job = j /\ Running(w)
        /\ row[j].durum = "ISLENIYOR" /\ row[j] \in Row
        /\ worker[w].seen < runs[j] /\ worker[w].seen \in Nat /\ runs[j] \in Nat
  BY RowIsThere DEF Tamam, Basarisiz, IInv, WorkersOK, OneWorkerPerJob, Running, TypeOK
<1>2. runs' = runs /\ crashes' = crashes /\ NextJob(w)
  BY DEF Tamam, Basarisiz
<1>3. /\ row'[j].durum # "ISLENIYOR"
      /\ row'[j].deneme <= runs[j]
      /\ row'[j].durum = "HATA" => runs[j] >= MaxDeneme
      /\ \A i \in Jobs \ {j} : row'[i] = row[i]
      /\ row' \in [Jobs -> {NoRow} \cup Row]
  <2>1. CASE Tamam(w)
    <3>1. row' = [row EXCEPT ![j].durum = "TAMAM"]
      BY <1>1, <2>1 DEF Tamam
    <3> QED BY <1>1, <3>1 DEF IInv, TypeOK, JobsOK, Row, Durum
  <2>2. CASE Basarisiz(w)
    <3> DEFINE deneme == worker[w].seen + 1
               durum == IF Kalici(deneme) THEN "HATA" ELSE "BEKLIYOR"
    <3>1. row' = [row EXCEPT ![j].deneme = deneme, ![j].due = FALSE, ![j].durum = durum]
      BY <1>1, <2>2 DEF Basarisiz
    <3>2. deneme \in Nat /\ deneme <= runs[j]
      BY <1>1
    <3>3. durum \in {"HATA", "BEKLIYOR"} /\ (durum = "HATA" => runs[j] >= MaxDeneme)
      BY <1>1, <3>2, KuyrukAssumption DEF Kalici
    <3> HIDE DEF deneme, durum
    <3> QED BY <1>1, <3>1, <3>2, <3>3 DEF IInv, TypeOK, Row, Durum
  <2> QED BY <2>1, <2>2
<1>4. /\ worker'[w].pc = "pick"
      /\ \A v \in Workers \ {w} : worker'[v] = worker[v]
      /\ worker' \in [Workers -> Worker]
  <2>1. worker' = [worker EXCEPT ![w] = Looking(worker[w].left - 1)]
    BY <1>2 DEF NextJob
  <2>2. worker[w].left > 0 /\ worker[w].left \in 0..TurBoyu
    BY <1>1 DEF IInv, TypeOK, WorkersOK, Running
  <2>3. worker[w].left - 1 \in 0..TurBoyu
    BY <2>2, KuyrukAssumption
  <2>4. Looking(worker[w].left - 1) \in Worker /\ Looking(worker[w].left - 1).pc = "pick"
    BY <2>3 DEF Looking, Worker
  <2>5. worker \in [Workers -> Worker]
    BY DEF IInv, TypeOK, Worker
  <2> QED BY <2>1, <2>4, <2>5
<1>5. \A v \in Workers \ {w} : Running(v) => worker[v].job # j
  BY <1>1 DEF IInv, OneWorkerPerJob
<1>6. TypeOK'
  BY <1>2, <1>3, <1>4 DEF IInv, TypeOK, Row, Worker
<1>7. OneWorkerPerJob'
  BY <1>3, <1>4, <1>5 DEF IInv, OneWorkerPerJob, WorkersOK, Running
<1>8. JobsOK'
  BY <1>2, <1>3 DEF IInv, JobsOK
<1>9. WorkersOK'
  BY <1>2, <1>4 DEF IInv, WorkersOK, Running
<1>10. OldIsLost'
  BY <1>3, <1>4 DEF IInv, OldIsLost, Lost, Running
<1> QED BY <1>6, <1>7, <1>8, <1>9, <1>10 DEF IInv

LEMMA NextIInv ==
  ASSUME IInv, [Next]_vars
  PROVE  IInv'
<1>1. ASSUME NEW j \in Jobs, Ekle(j) \/ TimePasses(j) PROVE IInv'
  BY <1>1, RowStep
<1>2. ASSUME NEW w \in Workers, Round(w) \/ CutOff(w) PROVE IInv'
  BY <1>2, RescueStep, ReadingStep, ClaimStep, OutcomeStep DEF Round
<1>3. CASE UNCHANGED vars
  BY <1>3
  DEF vars, IInv, TypeOK, OneWorkerPerJob, JobsOK, WorkersOK, OldIsLost, Lost, Running
<1> QED BY <1>1, <1>2, <1>3 DEF Next

-----------------------------------------------------------------------------
(* The theorems *)

\* IInv holds in every state the queue can reach.
THEOREM Invariant == Spec => []IInv
<1>1. Init => IInv
  BY InitIInv
<1>2. IInv /\ [Next]_vars => IInv'
  BY NextIInv
<1> QED BY <1>1, <1>2, PTL DEF Spec

\* sahiplen and kilitleriKurtar: for any number of overlapping rounds and crashes, no
\* two rounds run one job at once, and a running job stays claimed in the table.
THEOREM OneAtATime == Spec => []OneWorkerPerJob
<1>1. IInv => OneWorkerPerJob
  BY DEF IInv
<1> QED BY <1>1, Invariant, PTL

\* isleIc, kilitleriKurtar and ekle: every row keeps a status and a count its columns
\* may hold, and a worker holds no more of a round than kuyrugaIsle reads at once.
THEOREM TypeCorrect == Spec => []TypeOK
<1>1. IInv => TypeOK
  BY DEF IInv
<1> QED BY <1>1, Invariant, PTL

\* The catch block of isleIc: counting from a count read earlier may lose attempts but
\* never invents one, so no job becomes HATA before maxDeneme attempts.
THEOREM TriedBeforeGivenUp == Spec => []GivenUpOnlyWhenTried
<1>1. IInv => GivenUpOnlyWhenTried
  BY DEF IInv, JobsOK, GivenUpOnlyWhenTried
<1> QED BY <1>1, Invariant, PTL

\* TAMAM and HATA are final: the unconditional writes of a round that ends late, and
\* the rescue of lost jobs, never touch a job whose outcome is written.
THEOREM OutcomeStays == Spec => OutcomeForGood
<1>1. ASSUME IInv, [Next]_vars, NEW j \in Jobs, row[j].durum \in {"TAMAM", "HATA"}
      PROVE  row'[j] = row[j]
  <2> USE DEF IInv, TypeOK
  <2>1. ASSUME NEW i \in Jobs, Ekle(i) \/ TimePasses(i) PROVE row'[j] = row[j]
    BY <1>1, <2>1 DEF Ekle, TimePasses, BecomesDue, ClaimGrowsOld, NoRow
  <2>2. ASSUME NEW w \in Workers, KilitleriKurtar(w) PROVE row'[j] = row[j]
    BY <1>1, <2>2 DEF KilitleriKurtar, Expired
  <2>3. ASSUME NEW w \in Workers, Claim(w) PROVE row'[j] = row[j]
    BY <1>1, <2>3 DEF Claim, StillWaits
  <2>4. ASSUME NEW w \in Workers, Tamam(w) \/ Basarisiz(w) PROVE row'[j] = row[j]
    <3>1. Running(w) /\ row[worker[w].job].durum = "ISLENIYOR"
      BY <1>1, <2>4 DEF Tamam, Basarisiz, Running, OneWorkerPerJob
    <3> QED BY <1>1, <2>4, <3>1 DEF Tamam, Basarisiz
  <2> QED BY <1>1, <2>1, <2>2, <2>3, <2>4
      DEF Next, Round, Pick, RoundOver, ClaimLost, Calistir, CutOff, vars
<1>2. IInv /\ [Next]_vars =>
        [\A j \in Jobs : row[j].durum \in {"TAMAM", "HATA"} => row'[j] = row[j]]_vars
  BY <1>1
<1> QED BY <1>2, Invariant, PTL DEF Spec, OutcomeForGood
=============================================================================
