----------------------------- MODULE WarmupProofs -----------------------------
(***************************************************************************)
(* The warmup coordinator, for any number of views, documents, jobs and    *)
(* chunks: one whole-document extraction at a time, until the cache        *)
(* strategy is first changed; and, whatever is changed, no chunk is begun  *)
(* for a job that was forgotten.                                           *)
(*                                                                         *)
(* The argument: only the job of the active key has been given to the      *)
(* executor, since a job is submitted when no key is active, and the key   *)
(* stays active, and its job known, until the answer of that job arrives.  *)
(* After a reset that remains true of the jobs that are known.             *)
(***************************************************************************)
EXTENDS WarmupCoordinator, SequenceTheorems, TLAPS

LooseJob == [key : Keys, clients : SUBSET Clients, left : Int,
             phase : {"waiting", "submitted", "running", "working", "ended", "failed"}]

Given(r) == r.phase \notin {"none", "waiting"}

\* The tables S and jobs agree, and the executor holds the job of act only.
Good(S, jobs, act) ==
  /\ S \in [Keys -> Jobs \cup {0}]
  /\ jobs \in [Jobs -> LooseJob \cup {NoJob}]
  /\ \A k \in Keys : S[k] # 0 => jobs[S[k]].phase # "none" /\ jobs[S[k]].key = k
  /\ \A j \in Jobs : Given(jobs[j]) => act \in Keys /\ S[act] = j

WarmupInv ==
  /\ resets \in Nat
  /\ resets = 0 => retired = 0 /\ queue \in Seq(Keys) /\ Good(states, job, active)

\* The invariant is strong enough.
LEMMA Enough == WarmupInv => SingleUntilReset
<1> SUFFICES ASSUME WarmupInv, resets = 0, NEW i \in Jobs, NEW j \in Jobs,
                    job[i].phase = "working", job[j].phase = "working"
             PROVE  i = j
  BY DEF SingleUntilReset, SingleExtraction
<1> QED
  BY DEF WarmupInv, Good, Given

\* What the typing of a job says.
LEMMA JobFields ==
  ASSUME NEW r \in LooseJob \cup {NoJob}
  PROVE  /\ r.phase = "none" <=> r = NoJob
         /\ r.phase # "none" => r \in LooseJob
  BY DEF LooseJob, NoJob

\* Forgetting keys, and dropping jobs that no remaining key has.
LEMMA DropKeeps ==
  ASSUME NEW S, NEW jobs, NEW act, Good(S, jobs, act),
         NEW T \in [Keys -> Jobs \cup {0}], NEW D, NEW a,
         \A k \in Keys : T[k] # 0 => T[k] = S[k] /\ T[k] \notin D,
         \A j \in Jobs \ D : Given(jobs[j]) => a \in Keys /\ T[a] = j
  PROVE  Good(T, Dropped(jobs, D), a)
<1> DEFINE R == Dropped(jobs, D)
<1>1. \A j \in Jobs : R[j] = IF j \in D THEN NoJob ELSE jobs[j]
  BY DEF Dropped
<1>2. R \in [Jobs -> LooseJob \cup {NoJob}]
  BY DEF Dropped, Good
<1>3. ASSUME NEW k \in Keys, T[k] # 0
      PROVE  R[T[k]].phase # "none" /\ R[T[k]].key = k
  BY <1>1, <1>3 DEF Good
<1>4. ASSUME NEW j \in Jobs, Given(R[j])
      PROVE  a \in Keys /\ T[a] = j
  BY <1>1, <1>4 DEF Given, NoJob
<1> HIDE DEF R
<1>5. Good(T, R, a)
  BY <1>2, <1>3, <1>4 DEF Good
<1> QED
  BY <1>5 DEF R

\* Changing who wants the jobs.
LEMMA ClientsKeep ==
  ASSUME NEW S, NEW jobs, NEW act, Good(S, jobs, act),
         NEW R \in [Jobs -> LooseJob \cup {NoJob}],
         \A j \in Jobs : /\ R[j].phase = jobs[j].phase
                         /\ jobs[j].phase # "none" => R[j].key = jobs[j].key
  PROVE  Good(S, R, act)
<1>1. ASSUME NEW k \in Keys, S[k] # 0
      PROVE  R[S[k]].phase # "none" /\ R[S[k]].key = k
  BY <1>1 DEF Good
<1>2. ASSUME NEW j \in Jobs, Given(R[j])
      PROVE  act \in Keys /\ S[act] = j
  BY <1>2 DEF Good, Given
<1> QED
  BY <1>1, <1>2 DEF Good

\* Without a forgotten worker, _start_next leaves the tables in order.
LEMMA StartNextKeeps ==
  ASSUME retired = 0, NEW S, NEW jobs, NEW act, NEW q \in Seq(Keys),
         Good(S, jobs, act), StartNext(S, jobs, q, act)
  PROVE  retired' = 0 /\ queue' \in Seq(Keys) /\ Good(states', job', active')
<1> DEFINE wanted == {i \in DOMAIN q : S[q[i]] # 0 /\ jobs[S[q[i]]].clients # {}}
           Passed(n) == {q[i] : i \in 1 .. n}
           Gone(n) == {S[k] : k \in Passed(n)}
           After(n) == [k \in Keys |-> IF k \in Passed(n) THEN 0 ELSE S[k]]
<1>0. ~Held(jobs) /\ retired' = 0
  BY DEF Held, StartNext
<1>1. CASE act # "none"
  BY <1>0, <1>1 DEF StartNext
<1>2. CASE act = "none"
  <2>1. \A j \in Jobs : ~Given(jobs[j])
    BY <1>2, WarmupAssumption DEF Good
  <2>2. ASSUME NEW n \in Int, n <= Len(q)
        PROVE  /\ SubSeq(q, n + 1, Len(q)) \in Seq(Keys) \/ n < 0
               /\ Good(After(n), Dropped(jobs, Gone(n)), "none")
    <3>1. ASSUME n >= 0 PROVE SubSeq(q, n + 1, Len(q)) \in Seq(Keys)
      <4>1. \A i \in n + 1 .. Len(q) : q[i] \in Keys
        BY <3>1
      <4> QED
        BY <4>1, SubSeqProperties
    <3>2. After(n) \in [Keys -> Jobs \cup {0}]
      BY DEF Good
    <3>3. \A i \in 1 .. n : q[i] \in Keys
      BY <2>2
    <3>4. ASSUME NEW k \in Keys, After(n)[k] # 0
          PROVE  After(n)[k] = S[k] /\ After(n)[k] \notin Gone(n)
      <4>1. k \notin Passed(n) /\ After(n)[k] = S[k] /\ S[k] # 0
        BY <3>4
      <4>2. \A m \in Passed(n) : S[m] # S[k]
        BY <4>1, <3>3 DEF Good
      <4> QED
        BY <4>1, <4>2
    <3> HIDE DEF After, Gone, Passed
    <3>5. Good(After(n), Dropped(jobs, Gone(n)), "none")
      BY <3>2, <3>4, <2>1, DropKeeps
    <3> QED
      BY <3>1, <3>5
  <2>3. CASE wanted = {}
    <3>1. /\ states' = After(Len(q)) /\ queue' = SubSeq(q, Len(q) + 1, Len(q))
          /\ job' = Dropped(jobs, Gone(Len(q))) /\ active' = "none"
      BY <1>0, <1>2, <2>3 DEF StartNext
    <3>2. Len(q) \in Nat
      OBVIOUS
    <3> HIDE DEF After, Gone, Passed, wanted
    <3> QED
      BY <1>0, <2>2, <3>1, <3>2
  <2>4. CASE wanted # {}
    <3>1. PICK n \in wanted :
            /\ \A i \in wanted : n <= i
            /\ active' = q[n]
            /\ states' = After(n - 1)
            /\ queue' = SubSeq(q, n + 1, Len(q))
            /\ job' = [Dropped(jobs, Gone(n - 1)) EXCEPT ![S[q[n]]].phase = "submitted"]
      BY <1>0, <1>2, <2>4 DEF StartNext
    <3>2. n \in 1 .. Len(q) /\ q[n] \in Keys /\ S[q[n]] # 0
      OBVIOUS
    <3>3. q[n] \notin Passed(n - 1)
      <4> SUFFICES ASSUME NEW i \in 1 .. n - 1, q[i] = q[n] PROVE FALSE
        OBVIOUS
      <4>1. i \in wanted
        BY <3>2
      <4> HIDE DEF wanted
      <4>2. n <= i
        BY <4>1, <3>1
      <4> QED
        BY <4>2, <3>2
    <3>4. After(n - 1)[q[n]] = S[q[n]]
      BY <3>2, <3>3
    <3> DEFINE D == Dropped(jobs, Gone(n - 1))
               j == S[q[n]]
    <3>5. Good(After(n - 1), D, "none") /\ queue' \in Seq(Keys)
      <4>1. n - 1 \in Int /\ n - 1 <= Len(q) /\ n \in Int /\ n <= Len(q) /\ ~(n < 0)
        BY <3>2
      <4>2. queue' = SubSeq(q, n + 1, Len(q))
        BY <3>1
      <4> HIDE DEF After, Gone, Passed, wanted
      <4>3. Good(After(n - 1), D, "none")
        BY <2>2, <4>1
      <4>4. SubSeq(q, n + 1, Len(q)) \in Seq(Keys)
        BY <2>2, <4>1
      <4> QED
        BY <4>2, <4>3, <4>4
    <3>6. j \in Jobs /\ After(n - 1)[q[n]] = j /\ states' = After(n - 1)
          /\ active' = q[n] /\ job' = [D EXCEPT ![j].phase = "submitted"]
      BY <3>1, <3>2, <3>4 DEF Good
    <3> HIDE DEF After, Gone, Passed, wanted, D, j
    <3>7. \A i \in Jobs : ~Given(D[i])
      BY <3>5, WarmupAssumption DEF Good
    <3>8. D[j].phase = "waiting" /\ D[j] \in LooseJob
      <4>1. D[j] \in LooseJob \cup {NoJob}
        BY <3>5, <3>6 DEF Good
      <4>2. D[j].phase # "none"
        BY <3>2, <3>5, <3>6 DEF Good, j
      <4> QED
        BY <3>6, <3>7, <4>1, <4>2, JobFields DEF Given
    <3>9. [D[j] EXCEPT !.phase = "submitted"] \in LooseJob
      BY <3>8 DEF LooseJob
    <3>10. /\ job' \in [Jobs -> LooseJob \cup {NoJob}]
           /\ job'[j] = [D[j] EXCEPT !.phase = "submitted"]
           /\ \A i \in Jobs \ {j} : job'[i] = D[i]
      BY <3>5, <3>6, <3>9 DEF Good
    <3>11. job'[j].phase = "submitted" /\ job'[j].key = D[j].key
      BY <3>8, <3>10 DEF LooseJob
    <3>12. ASSUME NEW k \in Keys, states'[k] # 0
           PROVE  job'[states'[k]].phase # "none" /\ job'[states'[k]].key = k
      BY <3>5, <3>6, <3>10, <3>11, <3>12 DEF Good
    <3>13. ASSUME NEW i \in Jobs, Given(job'[i])
           PROVE  active' \in Keys /\ states'[active'] = i
      BY <3>2, <3>6, <3>7, <3>10, <3>13
    <3>14. states' \in [Keys -> Jobs \cup {0}]
      BY <3>5, <3>6 DEF Good
    <3>15. Good(states', job', active')
      BY <3>10, <3>12, <3>13, <3>14 DEF Good
    <3> QED
      BY <1>0, <3>5, <3>15
  <2> QED
    BY <2>3, <2>4
<1> QED
  BY <1>1, <1>2

\* Withdrawing callbacks is a change of clients.
LEMMA MutedClients ==
  ASSUME NEW S, NEW jobs, NEW act, Good(S, jobs, act), NEW D
  PROVE  Good(S, Muted(jobs, D), act)
<1>1. \A r \in LooseJob \cup {NoJob} :
        LET m == [r EXCEPT !.clients = {}] IN
        /\ m \in LooseJob \cup {NoJob} /\ m.phase = r.phase
        /\ r.phase # "none" => m.key = r.key
  BY DEF LooseJob, NoJob
<1>2. \A j \in Jobs :
        Muted(jobs, D)[j] = IF j \in D THEN [jobs[j] EXCEPT !.clients = {}] ELSE jobs[j]
  BY DEF Muted
<1>3. Muted(jobs, D) \in [Jobs -> LooseJob \cup {NoJob}]
  BY <1>1 DEF Muted, Good
<1>4. \A j \in Jobs : /\ Muted(jobs, D)[j].phase = jobs[j].phase
                      /\ jobs[j].phase # "none" => Muted(jobs, D)[j].key = jobs[j].key
  BY <1>1, <1>2 DEF Good
<1> QED
  BY <1>3, <1>4, ClientsKeep

-------------------------------------------------------------------------------
(* One lemma per action, from a state in order and without resets.         *)

InOrder == /\ resets = 0 /\ retired = 0 /\ queue \in Seq(Keys)
           /\ Good(states, job, active)

\* A view asks for a document that has a job.
LEMMA AskedAgain ==
  ASSUME InOrder, NEW c \in Clients, NEW k \in Keys, states[k] # 0
  PROVE  LET R == [job EXCEPT ![states[k]].clients = @ \cup {c}] IN
         /\ Good(states, R, active)
         /\ \A j \in Jobs : R[j].phase = job[j].phase /\ R[j].key = job[j].key
         /\ \A j \in Jobs \ {states[k]} : R[j] = job[j]
<1> DEFINE R == [job EXCEPT ![states[k]].clients = @ \cup {c}]
<1>1. states[k] \in Jobs /\ job[states[k]] \in LooseJob
  BY JobFields DEF InOrder, Good
<1>2. [job[states[k]] EXCEPT !.clients = @ \cup {c}] \in LooseJob
  BY <1>1 DEF LooseJob
<1>3. R \in [Jobs -> LooseJob \cup {NoJob}]
  BY <1>1, <1>2 DEF InOrder, Good
<1>4. /\ \A j \in Jobs : R[j].phase = job[j].phase /\ R[j].key = job[j].key
      /\ \A j \in Jobs \ {states[k]} : R[j] = job[j]
  BY <1>1 DEF InOrder, Good, LooseJob
<1> HIDE DEF R
<1>5. Good(states, R, active)
  BY <1>3, <1>4, ClientsKeep DEF InOrder
<1> QED
  BY <1>4, <1>5 DEF R

\* A view asks for a document that has none.
LEMMA AskedFirst ==
  ASSUME InOrder, NEW c \in Clients, NEW k \in Keys, states[k] = 0, NEW j \in Free,
         NEW T, T = [states EXCEPT ![k] = j],
         NEW R, R = [job EXCEPT ![j] = Fresh(k, c)]
  PROVE  /\ Good(T, R, active) /\ Append(queue, k) \in Seq(Keys)
         /\ ~Given(R[j])
         /\ \A n \in Keys \ {k} : T[n] = states[n] /\ states[n] # j
         /\ \A i \in Jobs \ {j} : R[i] = job[i]
<1>1. j \in Jobs /\ job[j] = NoJob /\ j # 0
  BY WarmupAssumption DEF Free
<1>2. Fresh(k, c) \in LooseJob /\ Fresh(k, c).phase = "waiting" /\ Fresh(k, c).key = k
  BY WarmupAssumption DEF Fresh, LooseJob
<1>3. /\ T \in [Keys -> Jobs \cup {0}] /\ R \in [Jobs -> LooseJob \cup {NoJob}]
      /\ T[k] = j /\ R[j] = Fresh(k, c)
      /\ \A n \in Keys \ {k} : T[n] = states[n]
      /\ \A i \in Jobs \ {j} : R[i] = job[i]
  BY <1>1, <1>2 DEF InOrder, Good
<1>4. \A n \in Keys : states[n] # j
  BY <1>1 DEF InOrder, Good, NoJob
<1>5. ASSUME NEW n \in Keys, T[n] # 0
      PROVE  R[T[n]].phase # "none" /\ R[T[n]].key = n
  <2>1. CASE n = k
    BY <1>2, <1>3, <2>1
  <2>2. CASE n # k
    BY <1>3, <1>4, <1>5, <2>2 DEF InOrder, Good
  <2> QED
    BY <2>1, <2>2
<1>6. ASSUME NEW i \in Jobs, Given(R[i])
      PROVE  active \in Keys /\ T[active] = i
  <2>1. i # j
    BY <1>2, <1>3, <1>6 DEF Given
  <2>2. active \in Keys /\ states[active] = i
    BY <1>3, <1>6, <2>1 DEF InOrder, Good
  <2>3. active # k
    BY <2>2, WarmupAssumption
  <2> QED
    BY <1>3, <2>2, <2>3
<1>7. Good(T, R, active)
  BY <1>3, <1>5, <1>6 DEF Good
<1>8. Append(queue, k) \in Seq(Keys)
  BY AppendProperties DEF InOrder
<1> QED
  BY <1>2, <1>3, <1>4, <1>7, <1>8 DEF Given

LEMMA AcquireKeeps ==
  ASSUME InOrder, NEW c \in Clients, NEW k \in Keys, Acquire(c, k)
  PROVE  InOrder'
<1>1. CASE states[k] # 0
  <2>1. /\ StartNext(states, [job EXCEPT ![states[k]].clients = @ \cup {c}], queue, active)
        /\ resets' = resets
    BY <1>1 DEF Acquire
  <2> QED
    BY <1>1, <2>1, AskedAgain, StartNextKeeps DEF InOrder
<1>2. CASE states[k] = 0
  <2>1. PICK j \in Free :
          /\ StartNext([states EXCEPT ![k] = j], [job EXCEPT ![j] = Fresh(k, c)],
                       Append(queue, k), active)
          /\ resets' = resets
    BY <1>2 DEF Acquire
  <2> DEFINE T == [states EXCEPT ![k] = j]
             R == [job EXCEPT ![j] = Fresh(k, c)]
  <2>2. Good(T, R, active) /\ Append(queue, k) \in Seq(Keys)
    BY <1>2, AskedFirst
  <2>3. StartNext(T, R, Append(queue, k), active) /\ resets' = resets
    BY <2>1 DEF T, R
  <2> HIDE DEF T, R
  <2> QED
    BY <2>2, <2>3, StartNextKeeps DEF InOrder
<1> QED
  BY <1>1, <1>2

LEMMA ReleaseKeeps ==
  ASSUME InOrder, NEW c, Release(c)
  PROVE  InOrder'
<1>1. \A r \in LooseJob \cup {NoJob} :
        LET m == [r EXCEPT !.clients = @ \ {c}] IN
        /\ m \in LooseJob \cup {NoJob} /\ m.phase = r.phase
        /\ r.phase # "none" => m.key = r.key
  BY DEF LooseJob, NoJob
<1>2. job' \in [Jobs -> LooseJob \cup {NoJob}]
  BY <1>1 DEF Release, InOrder, Good
<1>3. \A j \in Jobs : /\ job'[j].phase = job[j].phase
                      /\ job[j].phase # "none" => job'[j].key = job[j].key
  BY <1>1 DEF Release, InOrder, Good
<1>4. Good(states, job', active)
  BY <1>2, <1>3, ClientsKeep DEF InOrder
<1> QED
  BY <1>4 DEF Release, InOrder

LEMMA MuteKeeps ==
  ASSUME InOrder, NEW D, job' = Muted(job, D),
         UNCHANGED <<states, queue, active, retired, resets>>
  PROVE  InOrder'
BY MutedClients DEF InOrder

LEMMA InvalidateKeeps ==
  ASSUME InOrder, Invalidate
  PROVE  InOrder'
<1> DEFINE kept == IF active = "none" THEN 0 ELSE states[active]
           T == [k \in Keys |-> IF k = active THEN states[k] ELSE 0]
           R == Muted(job, Known)
           D == Known \ {kept}
<1>1. /\ states' = T /\ job' = Dropped(R, D) /\ queue' = <<>>
      /\ UNCHANGED <<active, retired, resets>>
  BY DEF Invalidate
<1>2. Good(states, R, active)
  BY MutedClients DEF InOrder
<1>3. T \in [Keys -> Jobs \cup {0}]
  BY DEF InOrder, Good
<1>4. \A k \in Keys : T[k] # 0 => T[k] = states[k] /\ T[k] \notin D
  BY WarmupAssumption
<1>5. \A j \in Jobs \ D : Given(R[j]) => active \in Keys /\ T[active] = j
  BY <1>2 DEF Good
<1> HIDE DEF T, R, D
<1>6. Good(T, Dropped(R, D), active)
  BY <1>2, <1>3, <1>4, <1>5, DropKeeps
<1> QED
  BY <1>1, <1>6 DEF InOrder

LEMMA WorkKeeps ==
  ASSUME InOrder, NEW j \in Jobs, Work(j)
  PROVE  InOrder'
<1>1. job[j].phase \in {"submitted", "running", "working"} /\ job[j] \in LooseJob
  BY JobFields DEF Work, Begin, Chunk, ChunkDone, InOrder, Good
<1>2. PICK r \in LooseJob : /\ Given(r) /\ r.key = job[j].key
                           /\ job' = [job EXCEPT ![j] = r]
  <2>1. \A p \in {"running", "working", "ended", "failed"} :
          LET r == [job[j] EXCEPT !.phase = p] IN
          r \in LooseJob /\ Given(r) /\ r.key = job[j].key
    BY <1>1 DEF LooseJob, Given
  <2>2. CASE \E p \in {"running", "working", "ended", "failed"} :
               job' = [job EXCEPT ![j].phase = p]
    BY <2>1, <2>2
  <2>3. CASE job' = [job EXCEPT ![j].phase = "working", ![j].left = @ - 1]
    <3> DEFINE r == [job[j] EXCEPT !.phase = "working", !.left = @ - 1]
    <3>1. \A x \in LooseJob :
            LET y == [x EXCEPT !.phase = "working", !.left = @ - 1] IN
            y \in LooseJob /\ y.phase = "working" /\ y.key = x.key
      <4> SUFFICES ASSUME NEW x \in LooseJob
                   PROVE  LET y == [x EXCEPT !.phase = "working", !.left = @ - 1] IN
                          y \in LooseJob /\ y.phase = "working" /\ y.key = x.key
        OBVIOUS
      <4>1. x.left - 1 \in Int
        BY DEF LooseJob
      <4> QED
        BY <4>1 DEF LooseJob
    <3>3. r \in LooseJob /\ Given(r) /\ r.key = job[j].key
      BY <1>1, <3>1 DEF Given
    <3>2. job' = [job EXCEPT ![j] = r]
      BY <1>1, <2>3 DEF InOrder, Good
    <3> QED
      BY <3>2, <3>3
  <2> QED
    BY <2>2, <2>3 DEF Work, Begin, Chunk, ChunkDone, Advance
<1>3. /\ job' \in [Jobs -> LooseJob \cup {NoJob}] /\ job'[j] = r
      /\ \A i \in Jobs \ {j} : job'[i] = job[i]
  BY <1>2 DEF InOrder, Good
<1>4. UNCHANGED <<states, queue, active, retired, resets>>
  BY DEF Work
<1>5. ASSUME NEW k \in Keys, states[k] # 0
      PROVE  job'[states[k]].phase # "none" /\ job'[states[k]].key = k
  BY <1>2, <1>3, <1>5 DEF InOrder, Good, Given
<1>6. ASSUME NEW i \in Jobs, Given(job'[i])
      PROVE  active \in Keys /\ states[active] = i
  BY <1>1, <1>3, <1>6 DEF InOrder, Good, Given
<1>7. Good(states, job', active)
  BY <1>3, <1>5, <1>6 DEF InOrder, Good
<1> QED
  BY <1>4, <1>7 DEF InOrder

\* The answer of a job frees the slot: the job was that of the active key.
LEMMA Answered ==
  ASSUME InOrder, NEW j \in Jobs, Report(j),
         NEW T, T = [states EXCEPT ![job[j].key] = 0],
         NEW D, D = {j} \cup {i \in {states[job[j].key]} : i # 0 /\ job[i].phase = "waiting"},
         NEW a, a = IF active = job[j].key THEN "none" ELSE active
  PROVE  Good(T, Dropped(job, D), a)
<1> DEFINE k == job[j].key
<1>1. Given(job[j]) /\ job[j].phase # "waiting"
  BY DEF Report, Given
<1>2. active \in Keys /\ states[active] = j /\ j # 0
  BY <1>1, WarmupAssumption DEF InOrder, Good
<1>3. k = active
  BY <1>2 DEF InOrder, Good
<1>4. D = {j}
  BY <1>1, <1>2, <1>3
<1>5. /\ T \in [Keys -> Jobs \cup {0}] /\ T[k] = 0
      /\ \A n \in Keys \ {k} : T[n] = states[n]
  BY <1>2, <1>3 DEF InOrder, Good
<1>6. ASSUME NEW n \in Keys, T[n] # 0
      PROVE  T[n] = states[n] /\ T[n] \notin D
  BY <1>2, <1>3, <1>4, <1>5, <1>6 DEF InOrder, Good
<1>7. ASSUME NEW i \in Jobs \ D, Given(job[i])
      PROVE  a \in Keys /\ T[a] = i
  BY <1>2, <1>4, <1>7 DEF InOrder, Good
<1>8. Good(T, Dropped(job, D), a)
  <2>1. T \in [Keys -> Jobs \cup {0}] /\ Good(states, job, active)
    BY <1>5 DEF InOrder
  <2>2. /\ \A n \in Keys : T[n] # 0 => T[n] = states[n] /\ T[n] \notin D
        /\ \A i \in Jobs \ D : Given(job[i]) => a \in Keys /\ T[a] = i
    BY <1>6, <1>7
  <2> QED
    BY <2>1, <2>2, DropKeeps, ZenonT(30)
<1> QED
  BY <1>8

LEMMA ReportKeeps ==
  ASSUME InOrder, NEW j \in Jobs, Report(j)
  PROVE  InOrder'
<1> DEFINE T == [states EXCEPT ![job[j].key] = 0]
           D == {j} \cup {i \in {states[job[j].key]} : i # 0 /\ job[i].phase = "waiting"}
           a == IF active = job[j].key THEN "none" ELSE active
<1>1. StartNext(T, Dropped(job, D), queue, a) /\ resets' = resets
  BY DEF Report
<1>2. Good(T, Dropped(job, D), a)
  BY Answered
<1> HIDE DEF T, D, a
<1> QED
  BY <1>1, <1>2, StartNextKeeps DEF InOrder

-------------------------------------------------------------------------------
LEMMA WarmupStarts == WarmupInit => WarmupInv
<1> SUFFICES ASSUME WarmupInit PROVE WarmupInv
  OBVIOUS
<1>1. \A j \in Jobs : job[j] = NoJob
  BY DEF WarmupInit
<1>2. Good(states, job, active)
  BY <1>1 DEF WarmupInit, Good, Given, NoJob
<1> QED
  BY <1>2 DEF WarmupInit, WarmupInv

LEMMA ResetsGrow ==
  ASSUME resets \in Nat, [WarmupNext]_warmupVars
  PROVE  resets' \in Nat /\ (resets' = 0 => resets = 0 /\ resets' = resets)
<1>1. resets' = resets \/ resets' = resets + 1
  <2>1. (\E c \in Clients, k \in Keys : Acquire(c, k)) => resets' = resets
    BY DEF Acquire
  <2>2. (\E c \in Clients : Release(c)) => resets' = resets
    BY DEF Release
  <2>3. Invalidate \/ CloseAll \/ QuiesceLibrary \/ ResumeLibrary => resets' = resets
    BY DEF Invalidate, CloseAll, QuiesceLibrary, ResumeLibrary
  <2>4. (\E j \in Jobs : Work(j) \/ Report(j)) => resets' = resets
    BY DEF Work, Report
  <2>5. Reset => resets' = resets + 1
    BY DEF Reset
  <2> QED
    BY <2>1, <2>2, <2>3, <2>4, <2>5 DEF WarmupNext, Consumers, Workers, warmupVars
<1> QED
  BY <1>1

\* Steps before the first reset keep the tables in order; the first reset
\* ends the promise.
LEMMA WarmupStepwise == WarmupInv /\ [WarmupNext]_warmupVars => WarmupInv'
<1> SUFFICES ASSUME WarmupInv, [WarmupNext]_warmupVars PROVE WarmupInv'
  OBVIOUS
<1>1. resets' \in Nat /\ (resets' = 0 => resets = 0 /\ resets' = resets)
  BY ResetsGrow DEF WarmupInv
<1>2. ASSUME resets' = 0 PROVE InOrder'
  <2>1. InOrder
    BY <1>1, <1>2 DEF WarmupInv, InOrder
  <2>2. ASSUME NEW c \in Clients, Release(c) PROVE InOrder'
    BY <2>1, <2>2, ReleaseKeeps
  <2>3. ASSUME NEW c \in Clients, NEW k \in Keys, Acquire(c, k) PROVE InOrder'
    BY <2>1, <2>3, AcquireKeeps
  <2>4. CASE Invalidate
    BY <2>1, <2>4, InvalidateKeeps
  <2>5. CASE CloseAll
    BY <2>1, <2>5, MuteKeeps DEF CloseAll
  <2>6. CASE Reset
    BY <1>1, <1>2, <2>6 DEF Reset
  <2>7. CASE QuiesceLibrary
    BY <2>1, <2>7, MuteKeeps DEF QuiesceLibrary
  <2>8. CASE ResumeLibrary
    BY <2>1, <2>8, StartNextKeeps DEF ResumeLibrary, InOrder
  <2>9. ASSUME NEW j \in Jobs, Work(j) PROVE InOrder'
    BY <2>1, <2>9, WorkKeeps
  <2>10. ASSUME NEW j \in Jobs, Report(j) PROVE InOrder'
    BY <2>1, <2>10, ReportKeeps
  <2>11. CASE UNCHANGED warmupVars
    BY <2>1, <2>11 DEF InOrder, warmupVars
  <2> QED
    BY <2>2, <2>3, <2>4, <2>5, <2>6, <2>7, <2>8, <2>9, <2>10, <2>11
       DEF WarmupNext, Consumers, Workers
<1> QED
  BY <1>1, <1>2 DEF WarmupInv, InOrder

-------------------------------------------------------------------------------
(* While the library is quiesced: its jobs have no clients, so none of them *)
(* is submitted, and once its given jobs have answered it has none.         *)

Silent(S, jobs) == \A k \in Library : S[k] # 0 => jobs[S[k]].clients = {}
Clear(jobs) == \A j \in Jobs : Given(jobs[j]) => jobs[j].key \notin Library

\* The executor's only job is that of the active key.
LEMMA ClearByActive ==
  ASSUME NEW S, NEW jobs, NEW act, Good(S, jobs, act), act \notin Library
  PROVE  Clear(jobs)
<1> SUFFICES ASSUME NEW j \in Jobs, Given(jobs[j]) PROVE jobs[j].key = act
  BY DEF Clear
<1>1. act \in Keys /\ S[act] = j /\ j # 0
  BY WarmupAssumption DEF Good
<1> QED
  BY <1>1 DEF Good

\* What the drain of the storage waits for.
LEMMA ClearWhenDrained ==
  ASSUME NEW S, NEW jobs, NEW act, Good(S, jobs, act),
         \A k \in Library : S[k] # 0 => jobs[S[k]].phase = "waiting"
  PROVE  Clear(jobs)
<1> SUFFICES ASSUME NEW j \in Jobs, Given(jobs[j]), jobs[j].key \in Library PROVE FALSE
  BY DEF Clear
<1>1. act \in Keys /\ S[act] = j /\ j # 0
  BY WarmupAssumption DEF Good
<1>2. jobs[j].key = act
  BY <1>1 DEF Good
<1>3. jobs[j].phase = "waiting"
  BY <1>1, <1>2
<1> QED
  BY <1>3 DEF Given

\* Jobs that are only muted, dropped or left as they are.
LEMMA ClearKeeps ==
  ASSUME NEW jobs, NEW R, Clear(jobs),
         \A j \in Jobs : Given(R[j]) => Given(jobs[j]) /\ R[j].key = jobs[j].key
  PROVE  Clear(R)
BY DEF Clear

\* _start_next passes over the jobs nobody waits for.
LEMMA StartNextQuiet ==
  ASSUME retired = 0, NEW S, NEW jobs, NEW act, NEW q \in Seq(Keys),
         Good(S, jobs, act), StartNext(S, jobs, q, act), Silent(S, jobs)
  PROVE  Silent(states', job') /\ (Clear(jobs) => Clear(job'))
<1> DEFINE wanted == {i \in DOMAIN q : S[q[i]] # 0 /\ jobs[S[q[i]]].clients # {}}
           Passed(n) == {q[i] : i \in 1 .. n}
           Gone(n) == {S[k] : k \in Passed(n)}
           After(n) == [k \in Keys |-> IF k \in Passed(n) THEN 0 ELSE S[k]]
<1>1. ~Held(jobs) /\ Library \subseteq Keys
  BY WarmupAssumption DEF Held
<1>2. CASE act # "none"
  BY <1>1, <1>2 DEF StartNext
<1>3. CASE act = "none"
  <2>1. Good(states', job', active')
    BY StartNextKeeps
  <2>2. ASSUME NEW n, NEW k \in Library, After(n)[k] # 0
        PROVE  /\ After(n)[k] = S[k] /\ S[k] \in Jobs
               /\ Dropped(jobs, Gone(n))[S[k]] \in LooseJob \cup {NoJob}
               /\ Dropped(jobs, Gone(n))[S[k]].clients = {}
    <3>1. After(n)[k] = S[k] /\ S[k] # 0
      BY <1>1, <2>2
    <3>2. S[k] \in Jobs /\ jobs[S[k]] \in LooseJob \cup {NoJob} /\ jobs[S[k]].clients = {}
      BY <1>1, <3>1 DEF Good, Silent
    <3> QED
      BY <3>1, <3>2 DEF Dropped, NoJob
  <2>3. CASE wanted = {}
    <3>1. /\ states' = After(Len(q)) /\ active' = "none"
          /\ job' = Dropped(jobs, Gone(Len(q)))
      BY <1>1, <1>3, <2>3 DEF StartNext
    <3> HIDE DEF After, Gone, Passed, wanted
    <3>2. Silent(states', job')
      BY <2>2, <3>1 DEF Silent
    <3>3. Clear(job')
      BY <2>1, <3>1, ClearByActive, WarmupAssumption
    <3> QED
      BY <3>2, <3>3
  <2>4. CASE wanted # {}
    <3>1. PICK n \in wanted :
            /\ active' = q[n] /\ states' = After(n - 1)
            /\ job' = [Dropped(jobs, Gone(n - 1)) EXCEPT ![S[q[n]]].phase = "submitted"]
      BY <1>1, <1>3, <2>4 DEF StartNext
    <3>2. q[n] \notin Library
      BY <3>1 DEF Silent
    <3> HIDE DEF After, Gone, Passed, wanted
    <3>3. ASSUME NEW k \in Library, states'[k] # 0
          PROVE  job'[states'[k]].clients = {}
      <4>1. /\ states'[k] = S[k] /\ S[k] \in Jobs
            /\ Dropped(jobs, Gone(n - 1))[S[k]] \in LooseJob \cup {NoJob}
            /\ Dropped(jobs, Gone(n - 1))[S[k]].clients = {}
        BY <2>2, <3>1, <3>3
      <4>2. S[k] \in DOMAIN Dropped(jobs, Gone(n - 1))
        BY <4>1 DEF Dropped
      <4> HIDE DEF Dropped
      <4>3. job'[S[k]].clients = Dropped(jobs, Gone(n - 1))[S[k]].clients
        BY <3>1, <4>1, <4>2 DEF LooseJob, NoJob
      <4> QED
        BY <4>1, <4>3
    <3>4. Clear(job')
      BY <2>1, <3>1, <3>2, ClearByActive
    <3> QED
      BY <3>3, <3>4 DEF Silent
  <2> QED
    BY <2>3, <2>4
<1> QED
  BY <1>2, <1>3

\* Changing who wants the jobs, withdrawing at most.
LEMMA MutedQuiet ==
  ASSUME NEW S, NEW jobs, NEW act, Good(S, jobs, act), Silent(S, jobs), NEW D
  PROVE  Silent(S, Muted(jobs, D)) /\ (Clear(jobs) => Clear(Muted(jobs, D)))
<1>1. \A r \in LooseJob \cup {NoJob} :
        LET m == [r EXCEPT !.clients = {}] IN
        /\ m.clients = {} /\ m.phase = r.phase
        /\ r.phase # "none" => m.key = r.key
  BY DEF LooseJob, NoJob
<1>2. \A j \in Jobs : /\ jobs[j] \in LooseJob \cup {NoJob}
                      /\ Muted(jobs, D)[j] = IF j \in D THEN [jobs[j] EXCEPT !.clients = {}]
                                                        ELSE jobs[j]
  BY DEF Muted, Good
<1>3. \A j \in Jobs : /\ Muted(jobs, D)[j].phase = jobs[j].phase
                      /\ jobs[j].phase # "none" => Muted(jobs, D)[j].key = jobs[j].key
                      /\ jobs[j].clients = {} => Muted(jobs, D)[j].clients = {}
  BY <1>1, <1>2
<1>4. \A k \in Library : S[k] # 0 => S[k] \in Jobs
  BY WarmupAssumption DEF Good
<1> QED
  BY <1>3, <1>4, ClearKeeps DEF Silent, Given

LEMMA AcquireQuiet ==
  ASSUME InOrder, Silent(states, job), NEW c \in Clients, NEW k \in Keys \ Library, Acquire(c, k)
  PROVE  Silent(states', job') /\ (Clear(job) => Clear(job'))
<1>1. Library \subseteq Keys /\ k \in Keys /\ k \notin Library
  BY WarmupAssumption
<1>2. CASE states[k] # 0
  <2> DEFINE R == [job EXCEPT ![states[k]].clients = @ \cup {c}]
  <2>1. StartNext(states, R, queue, active)
    BY <1>2 DEF Acquire
  <2>2. /\ Good(states, R, active)
        /\ \A j \in Jobs : R[j].phase = job[j].phase /\ R[j].key = job[j].key
        /\ \A j \in Jobs \ {states[k]} : R[j] = job[j]
    BY <1>2, AskedAgain
  <2> HIDE DEF R
  <2>3. \A n \in Library : states[n] # 0 => states[n] \in Jobs \ {states[k]}
    BY <1>1, <1>2 DEF InOrder, Good
  <2>4. Silent(states, R)
    BY <2>2, <2>3 DEF Silent
  <2>5. Clear(job) => Clear(R)
    BY <2>2, ClearKeeps DEF Given
  <2> QED
    BY <2>1, <2>2, <2>4, <2>5, StartNextQuiet DEF InOrder
<1>3. CASE states[k] = 0
  <2>1. PICK j \in Free :
          StartNext([states EXCEPT ![k] = j], [job EXCEPT ![j] = Fresh(k, c)],
                    Append(queue, k), active)
    BY <1>3 DEF Acquire
  <2> DEFINE T == [states EXCEPT ![k] = j]
             R == [job EXCEPT ![j] = Fresh(k, c)]
  <2>2. StartNext(T, R, Append(queue, k), active)
    BY <2>1 DEF T, R
  <2>3. T = [states EXCEPT ![k] = j] /\ R = [job EXCEPT ![j] = Fresh(k, c)]
    OBVIOUS
  <2> HIDE DEF T, R
  <2>4. Good(T, R, active) /\ Append(queue, k) \in Seq(Keys)
    BY <1>1, <1>3, <2>3, AskedFirst
  <2>5. ~Given(R[j])
    BY <1>1, <1>3, <2>3, AskedFirst
  <2>6. \A n \in Keys \ {k} : T[n] = states[n] /\ states[n] # j
    BY <1>1, <1>3, <2>3, AskedFirst
  <2>7. \A i \in Jobs \ {j} : R[i] = job[i]
    BY <1>1, <1>3, <2>3, AskedFirst
  <2>8. Silent(T, R)
    <3>1. \A n \in Library : T[n] = states[n] /\ (states[n] # 0 => states[n] \in Jobs \ {j})
      BY <1>1, <2>6 DEF InOrder, Good
    <3> QED
      BY <2>7, <3>1 DEF Silent
  <2>9. Clear(job) => Clear(R)
    BY <2>5, <2>7, ClearKeeps
  <2> QED
    BY <2>2, <2>4, <2>8, <2>9, StartNextQuiet DEF InOrder
<1> QED
  BY <1>2, <1>3

LEMMA ReleaseQuiet ==
  ASSUME InOrder, Silent(states, job), NEW c, Release(c)
  PROVE  Silent(states', job') /\ (Clear(job) => Clear(job'))
<1>1. \A r \in LooseJob \cup {NoJob} :
        LET m == [r EXCEPT !.clients = @ \ {c}] IN
        /\ m.clients = r.clients \ {c} /\ m.phase = r.phase
        /\ r.phase # "none" => m.key = r.key
  BY DEF LooseJob, NoJob
<1>2. \A j \in Jobs : job[j] \in LooseJob \cup {NoJob}
  BY DEF InOrder, Good
<1>3. \A j \in Jobs : job'[j] = IF j \in Known THEN [job[j] EXCEPT !.clients = @ \ {c}]
                                              ELSE job[j]
  BY DEF Release
<1>4. \A j \in Jobs : /\ job'[j].phase = job[j].phase
                      /\ job[j].phase # "none" => job'[j].key = job[j].key
                      /\ job[j].clients = {} => job'[j].clients = {}
  <2> SUFFICES ASSUME NEW j \in Jobs
               PROVE  /\ job'[j].phase = job[j].phase
                      /\ job[j].phase # "none" => job'[j].key = job[j].key
                      /\ job[j].clients = {} => job'[j].clients = {}
    OBVIOUS
  <2>1. CASE j \in Known
    BY <1>1, <1>2, <1>3, <2>1
  <2>2. CASE j \notin Known
    BY <1>3, <2>2
  <2> QED
    BY <2>1, <2>2
<1>5. \A k \in Library : states'[k] = states[k] /\ (states[k] # 0 => states[k] \in Jobs)
  BY WarmupAssumption DEF InOrder, Good, Release
<1> QED
  BY <1>4, <1>5, ClearKeeps DEF Silent, Given

LEMMA InvalidateQuiet ==
  ASSUME InOrder, Silent(states, job), Invalidate
  PROVE  Silent(states', job') /\ (Clear(job) => Clear(job'))
<1> DEFINE R == Muted(job, Known)
<1>1. PICK D : job' = Dropped(R, D)
  BY DEF Invalidate
<1>2. \A k \in Library : states'[k] # 0 => states'[k] = states[k] /\ states[k] \in Jobs
  BY WarmupAssumption DEF Invalidate, InOrder, Good
<1>3. Silent(states, R) /\ (Clear(job) => Clear(R))
  BY MutedQuiet DEF InOrder
<1> HIDE DEF R
<1>4. \A j \in Jobs : job'[j] = IF j \in D THEN NoJob ELSE R[j]
  BY <1>1 DEF Dropped
<1>5. Silent(states', job')
  BY <1>2, <1>3, <1>4 DEF Silent, NoJob
<1>6. Clear(R) => Clear(job')
  BY <1>4, ClearKeeps DEF Given, NoJob
<1> QED
  BY <1>3, <1>5, <1>6

LEMMA WorkQuiet ==
  ASSUME InOrder, Silent(states, job), NEW j \in Jobs, Work(j)
  PROVE  Silent(states', job') /\ (Clear(job) => Clear(job'))
<1>1. job[j].phase \in {"submitted", "running", "working"} /\ job[j] \in LooseJob
  BY JobFields DEF Work, Begin, Chunk, ChunkDone, InOrder, Good
<1>2. job'[j].key = job[j].key /\ job'[j].clients = job[j].clients
  BY <1>1 DEF Work, Begin, Chunk, ChunkDone, Advance, InOrder, Good, LooseJob
<1>3. \A i \in Jobs \ {j} : job'[i] = job[i]
  BY DEF Work, Begin, Chunk, ChunkDone, Advance, InOrder, Good
<1>4. \A k \in Library : states'[k] = states[k] /\ (states[k] # 0 => states[k] \in Jobs)
  BY WarmupAssumption DEF Work, InOrder, Good
<1>5. Silent(states', job')
  BY <1>2, <1>3, <1>4 DEF Silent
<1>6. Clear(job) => Clear(job')
  BY <1>1, <1>2, <1>3, ClearKeeps DEF Given
<1> QED
  BY <1>5, <1>6

LEMMA ReportQuiet ==
  ASSUME InOrder, Silent(states, job), NEW j \in Jobs, Report(j)
  PROVE  Silent(states', job') /\ (Clear(job) => Clear(job'))
<1> DEFINE T == [states EXCEPT ![job[j].key] = 0]
           D == {j} \cup {i \in {states[job[j].key]} : i # 0 /\ job[i].phase = "waiting"}
           a == IF active = job[j].key THEN "none" ELSE active
<1>1. StartNext(T, Dropped(job, D), queue, a)
  BY DEF Report
<1>2. /\ T = [states EXCEPT ![job[j].key] = 0]
      /\ D = {j} \cup {i \in {states[job[j].key]} : i # 0 /\ job[i].phase = "waiting"}
      /\ a = IF active = job[j].key THEN "none" ELSE active
  OBVIOUS
<1> HIDE DEF T, D, a
<1>3. Good(T, Dropped(job, D), a)
  BY <1>2, Answered
<1>4. T \in [Keys -> Jobs \cup {0}]
  BY <1>3 DEF Good
<1>5. \A n \in Keys : T[n] # 0 => T[n] = states[n]
  BY <1>2, <1>4 DEF InOrder, Good
<1>6. \A i \in Jobs : Dropped(job, D)[i] = IF i \in D THEN NoJob ELSE job[i]
  BY DEF Dropped
<1>7. Silent(T, Dropped(job, D))
  <2> SUFFICES ASSUME NEW k \in Library, T[k] # 0
               PROVE  Dropped(job, D)[T[k]].clients = {}
    BY DEF Silent
  <2>1. k \in Keys /\ T[k] \in Jobs /\ job[T[k]].clients = {}
    BY <1>4, <1>5, WarmupAssumption DEF Silent
  <2> QED
    BY <1>6, <2>1 DEF NoJob
<1>8. Clear(job) => Clear(Dropped(job, D))
  BY <1>6, ClearKeeps DEF Given, NoJob
<1> QED
  BY <1>1, <1>3, <1>7, <1>8, StartNextQuiet DEF InOrder

\* quiesce_library mutes every job of the library.
LEMMA QuiesceQuiet ==
  ASSUME InOrder, QuiesceLibrary
  PROVE  Silent(states', job') /\ Good(states', job', active')
<1>1. job' = Muted(job, LibraryJobs) /\ UNCHANGED <<states, active>>
  BY DEF QuiesceLibrary
<1>2. Good(states', job', active')
  BY <1>1, MutedClients DEF InOrder
<1>3. \A r \in LooseJob \cup {NoJob} : [r EXCEPT !.clients = {}].clients = {}
  BY DEF LooseJob, NoJob
<1>4. ASSUME NEW k \in Library, states[k] # 0 PROVE job'[states[k]].clients = {}
  <2>1. states[k] \in LibraryJobs /\ states[k] \in Jobs /\ job[states[k]] \in LooseJob \cup {NoJob}
    BY <1>4, WarmupAssumption DEF LibraryJobs, InOrder, Good
  <2>2. job'[states[k]] = [job[states[k]] EXCEPT !.clients = {}]
    BY <1>1, <2>1 DEF Muted
  <2> QED
    BY <1>3, <2>1, <2>2
<1> QED
  BY <1>1, <1>2, <1>4 DEF Silent

\* What anybody does before a change of strategy: a quiesced library gets no
\* job, as long as nobody asks for its documents.
LEMMA QuietStep ==
  ASSUME InOrder, resets' = 0, sealed, Silent(states, job), Consumers \/ Workers
  PROVE  Silent(states', job') /\ (Clear(job) => Clear(job'))
<1>1. ASSUME NEW c \in Clients, Release(c) PROVE Silent(states', job') /\ (Clear(job) => Clear(job'))
  BY <1>1, ReleaseQuiet
<1>2. ASSUME NEW c \in Clients, NEW k \in Keys, Acquire(c, k)
      PROVE  Silent(states', job') /\ (Clear(job) => Clear(job'))
  <2>1. k \notin Library
    BY <1>2 DEF Acquire
  <2> QED
    BY <1>2, <2>1, AcquireQuiet
<1>3. CASE Invalidate
  BY <1>3, InvalidateQuiet
<1>4. CASE CloseAll
  BY <1>4, MutedQuiet DEF CloseAll, InOrder
<1>5. ~Reset
  BY DEF Reset, InOrder
<1>6. ASSUME NEW j \in Jobs, Work(j) PROVE Silent(states', job') /\ (Clear(job) => Clear(job'))
  BY <1>6, WorkQuiet
<1>7. ASSUME NEW j \in Jobs, Report(j) PROVE Silent(states', job') /\ (Clear(job) => Clear(job'))
  BY <1>7, ReportQuiet
<1> QED
  BY <1>1, <1>2, <1>3, <1>4, <1>5, <1>6, <1>7 DEF Consumers, Workers

\* ArchiveWarmupCoordinator runs one whole-document extraction at a time: as
\* long as the cache strategy has not been changed, no two workers write pages,
\* however documents are asked for, released, invalidated, quiesced and resumed.
THEOREM OneExtraction == WarmupSpec => []SingleUntilReset
<1> QED
  BY WarmupStarts, WarmupStepwise, Enough, PTL DEF WarmupSpec

-------------------------------------------------------------------------------
(* With resets: a forgotten worker goes on, and its job is in no table any  *)
(* more.  What is left of the agreement is about the jobs that are known:   *)
(* only the one of the active key has been given to the executor.  A job    *)
(* that has not ended has a chunk left whenever it looks for one.           *)

Ahead(r) == r.phase \in {"waiting", "submitted", "running"} => r.left # 0

Tables(S, jobs, act) ==
  /\ S \in [Keys -> Jobs \cup {0}]
  /\ jobs \in [Jobs -> Job \cup {NoJob}]
  /\ act \in Keys \cup {"none"}
  /\ \A k \in Keys : S[k] # 0 =>
       /\ jobs[S[k]].phase # "none" /\ jobs[S[k]].key = k
       /\ Given(jobs[S[k]]) => act = k
  /\ \A j \in Jobs : Ahead(jobs[j])

TablesInv ==
  /\ queue \in Seq(Keys) /\ retired \in Jobs \cup {0}
  /\ sealed \in BOOLEAN /\ resets \in 0 .. MaxResets
  /\ Tables(states, job, active)

\* What the typing of a job says.
LEMMA JobTyped ==
  ASSUME NEW r \in Job \cup {NoJob}
  PROVE  /\ r.phase = "none" <=> r = NoJob
         /\ r.phase # "none" => r \in Job
  BY DEF Job, NoJob

\* Forgetting keys, and dropping jobs that no remaining key has.
LEMMA TablesDrop ==
  ASSUME NEW S, NEW jobs, NEW act, Tables(S, jobs, act),
         NEW T \in [Keys -> Jobs \cup {0}], NEW D, NEW a \in Keys \cup {"none"},
         \A k \in Keys : T[k] # 0 =>
            T[k] = S[k] /\ T[k] \notin D /\ (Given(jobs[T[k]]) => a = k)
  PROVE  Tables(T, Dropped(jobs, D), a)
<1> DEFINE R == Dropped(jobs, D)
<1>1. \A j \in Jobs : R[j] = IF j \in D THEN NoJob ELSE jobs[j]
  BY DEF Dropped
<1>2. R \in [Jobs -> Job \cup {NoJob}]
  BY DEF Dropped, Tables
<1>3. ASSUME NEW k \in Keys, T[k] # 0
      PROVE  /\ R[T[k]].phase # "none" /\ R[T[k]].key = k
             /\ Given(R[T[k]]) => a = k
  BY <1>1, <1>3 DEF Tables
<1>4. \A j \in Jobs : Ahead(R[j])
  BY <1>1 DEF Tables, Ahead, NoJob
<1> HIDE DEF R
<1>5. Tables(T, R, a)
  BY <1>2, <1>3, <1>4 DEF Tables
<1> QED
  BY <1>5 DEF R

\* Changing who wants the jobs.
LEMMA TablesClients ==
  ASSUME NEW S, NEW jobs, NEW act, Tables(S, jobs, act),
         NEW R \in [Jobs -> Job \cup {NoJob}],
         \A j \in Jobs : /\ R[j].phase = jobs[j].phase
                         /\ jobs[j].phase # "none" => R[j].key = jobs[j].key /\ R[j].left = jobs[j].left
  PROVE  Tables(S, R, act)
<1>1. ASSUME NEW k \in Keys, S[k] # 0
      PROVE  R[S[k]].phase # "none" /\ R[S[k]].key = k /\ (Given(R[S[k]]) => act = k)
  BY <1>1 DEF Tables, Given
<1>2. \A j \in Jobs : Ahead(R[j])
  BY DEF Tables, Ahead
<1> QED
  BY <1>1, <1>2 DEF Tables

\* Withdrawing callbacks is a change of clients.
LEMMA TablesMuted ==
  ASSUME NEW S, NEW jobs, NEW act, Tables(S, jobs, act), NEW D
  PROVE  Tables(S, Muted(jobs, D), act)
<1>1. \A r \in Job \cup {NoJob} :
        LET m == [r EXCEPT !.clients = {}] IN
        /\ m \in Job \cup {NoJob} /\ m.phase = r.phase
        /\ r.phase # "none" => m.key = r.key /\ m.left = r.left
  BY DEF Job, NoJob
<1>2. \A j \in Jobs :
        Muted(jobs, D)[j] = IF j \in D THEN [jobs[j] EXCEPT !.clients = {}] ELSE jobs[j]
  BY DEF Muted
<1>3. Muted(jobs, D) \in [Jobs -> Job \cup {NoJob}]
  BY <1>1 DEF Muted, Tables
<1>4. \A j \in Jobs : /\ Muted(jobs, D)[j].phase = jobs[j].phase
                      /\ jobs[j].phase # "none" => /\ Muted(jobs, D)[j].key = jobs[j].key
                                                   /\ Muted(jobs, D)[j].left = jobs[j].left
  BY <1>1, <1>2 DEF Tables
<1> QED
  BY <1>3, <1>4, TablesClients

\* _start_next on tables in order, whether or not a forgotten worker holds the slot.
LEMMA TablesStart ==
  ASSUME retired \in Jobs \cup {0}, NEW S, NEW jobs, NEW act, NEW q \in Seq(Keys),
         Tables(S, jobs, act), StartNext(S, jobs, q, act)
  PROVE  /\ retired' \in Jobs \cup {0} /\ queue' \in Seq(Keys)
         /\ Tables(states', job', active')
<1> DEFINE wanted == {i \in DOMAIN q : S[q[i]] # 0 /\ jobs[S[q[i]]].clients # {}}
           Passed(n) == {q[i] : i \in 1 .. n}
           Gone(n) == {S[k] : k \in Passed(n)}
           After(n) == [k \in Keys |-> IF k \in Passed(n) THEN 0 ELSE S[k]]
<1>0. retired' \in Jobs \cup {0}
  BY DEF StartNext
<1>1. CASE Held(jobs) \/ act # "none"
  BY <1>0, <1>1 DEF StartNext
<1>2. CASE ~Held(jobs) /\ act = "none"
  <2>1. \A k \in Keys : S[k] # 0 => ~Given(jobs[S[k]])
    BY <1>2, WarmupAssumption DEF Tables
  <2>2. ASSUME NEW n \in Int, n <= Len(q)
        PROVE  /\ SubSeq(q, n + 1, Len(q)) \in Seq(Keys) \/ n < 0
               /\ Tables(After(n), Dropped(jobs, Gone(n)), "none")
    <3>1. ASSUME n >= 0 PROVE SubSeq(q, n + 1, Len(q)) \in Seq(Keys)
      <4>1. \A i \in n + 1 .. Len(q) : q[i] \in Keys
        BY <3>1
      <4> QED
        BY <4>1, SubSeqProperties
    <3>2. After(n) \in [Keys -> Jobs \cup {0}]
      BY DEF Tables
    <3>3. \A i \in 1 .. n : q[i] \in Keys
      BY <2>2
    <3>4. ASSUME NEW k \in Keys, After(n)[k] # 0
          PROVE  After(n)[k] = S[k] /\ After(n)[k] \notin Gone(n) /\ ~Given(jobs[After(n)[k]])
      <4>1. k \notin Passed(n) /\ After(n)[k] = S[k] /\ S[k] # 0
        BY <3>4
      <4>2. \A m \in Passed(n) : S[m] # S[k]
        BY <4>1, <3>3 DEF Tables
      <4> QED
        BY <4>1, <4>2, <2>1
    <3> HIDE DEF After, Gone, Passed
    <3>5. Tables(After(n), Dropped(jobs, Gone(n)), "none")
      BY <3>2, <3>4, TablesDrop
    <3> QED
      BY <3>1, <3>5
  <2>3. CASE wanted = {}
    <3>1. /\ states' = After(Len(q)) /\ queue' = SubSeq(q, Len(q) + 1, Len(q))
          /\ job' = Dropped(jobs, Gone(Len(q))) /\ active' = "none"
      BY <1>2, <2>3 DEF StartNext
    <3>2. Len(q) \in Nat
      OBVIOUS
    <3> HIDE DEF After, Gone, Passed, wanted
    <3> QED
      BY <1>0, <2>2, <3>1, <3>2
  <2>4. CASE wanted # {}
    <3>1. PICK n \in wanted :
            /\ \A i \in wanted : n <= i
            /\ active' = q[n]
            /\ states' = After(n - 1)
            /\ queue' = SubSeq(q, n + 1, Len(q))
            /\ job' = [Dropped(jobs, Gone(n - 1)) EXCEPT ![S[q[n]]].phase = "submitted"]
      BY <1>2, <2>4 DEF StartNext
    <3>2. n \in 1 .. Len(q) /\ q[n] \in Keys /\ S[q[n]] # 0
      OBVIOUS
    <3>3. q[n] \notin Passed(n - 1)
      <4> SUFFICES ASSUME NEW i \in 1 .. n - 1, q[i] = q[n] PROVE FALSE
        OBVIOUS
      <4>1. i \in wanted
        BY <3>2
      <4> HIDE DEF wanted
      <4>2. n <= i
        BY <4>1, <3>1
      <4> QED
        BY <4>2, <3>2
    <3>4. After(n - 1)[q[n]] = S[q[n]]
      BY <3>2, <3>3
    <3> DEFINE D == Dropped(jobs, Gone(n - 1))
               j == S[q[n]]
    <3>5. Tables(After(n - 1), D, "none") /\ queue' \in Seq(Keys)
      <4>1. n - 1 \in Int /\ n - 1 <= Len(q) /\ n \in Int /\ n <= Len(q) /\ ~(n < 0)
        BY <3>2
      <4>2. queue' = SubSeq(q, n + 1, Len(q))
        BY <3>1
      <4> HIDE DEF After, Gone, Passed, wanted
      <4>3. Tables(After(n - 1), D, "none")
        BY <2>2, <4>1
      <4>4. SubSeq(q, n + 1, Len(q)) \in Seq(Keys)
        BY <2>2, <4>1
      <4> QED
        BY <4>2, <4>3, <4>4
    <3>6. j \in Jobs /\ After(n - 1)[q[n]] = j /\ states' = After(n - 1)
          /\ active' = q[n] /\ job' = [D EXCEPT ![j].phase = "submitted"]
      BY <3>1, <3>2, <3>4 DEF Tables
    <3> HIDE DEF After, Gone, Passed, wanted, D, j
    <3>7. /\ D[j].phase = "waiting" /\ D[j] \in Job /\ D[j].left # 0
          /\ D \in [Jobs -> Job \cup {NoJob}]
      <4>1. D[j] \in Job \cup {NoJob} /\ D \in [Jobs -> Job \cup {NoJob}]
        BY <3>5, <3>6 DEF Tables
      <4>2. D[j].phase # "none" /\ ~Given(D[j])
        BY <3>2, <3>5, <3>6, WarmupAssumption DEF Tables
      <4>3. Ahead(D[j])
        BY <3>5, <3>6 DEF Tables
      <4> QED
        BY <4>1, <4>2, <4>3, JobTyped DEF Given, Ahead
    <3>8. /\ [D[j] EXCEPT !.phase = "submitted"] \in Job
          /\ [D[j] EXCEPT !.phase = "submitted"].left # 0
      BY <3>7 DEF Job
    <3>9. /\ job' \in [Jobs -> Job \cup {NoJob}]
          /\ job'[j] = [D[j] EXCEPT !.phase = "submitted"]
          /\ \A i \in Jobs \ {j} : job'[i] = D[i]
      BY <3>6, <3>7, <3>8
    <3>10. job'[j].phase = "submitted" /\ job'[j].key = D[j].key /\ job'[j].left # 0
      BY <3>7, <3>8, <3>9 DEF Job
    <3>11. ASSUME NEW k \in Keys, states'[k] # 0
           PROVE  /\ job'[states'[k]].phase # "none" /\ job'[states'[k]].key = k
                  /\ Given(job'[states'[k]]) => active' = k
      <4>1. D[states'[k]].phase # "none" /\ D[states'[k]].key = k /\ ~Given(D[states'[k]])
            /\ states'[k] \in Jobs
        BY <3>5, <3>6, <3>11, WarmupAssumption DEF Tables
      <4>2. CASE states'[k] = j
        <5>1. D[j].key = q[n]
          BY <3>2, <3>5, <3>6, WarmupAssumption DEF Tables
        <5> QED
          BY <3>6, <3>10, <4>1, <4>2, <5>1
      <4>3. CASE states'[k] # j
        BY <3>9, <4>1, <4>3
      <4> QED
        BY <4>2, <4>3
    <3>12. \A i \in Jobs : Ahead(job'[i])
      BY <3>5, <3>9, <3>10 DEF Tables, Ahead
    <3>13. states' \in [Keys -> Jobs \cup {0}] /\ active' \in Keys \cup {"none"}
      BY <3>2, <3>5, <3>6 DEF Tables
    <3>14. Tables(states', job', active')
      BY <3>9, <3>11, <3>12, <3>13 DEF Tables
    <3> QED
      BY <1>0, <3>5, <3>14
  <2> QED
    BY <2>3, <2>4
<1> QED
  BY <1>1, <1>2

-------------------------------------------------------------------------------
(* One lemma per action, from tables in order.                             *)

\* A view asks for a document, which has a job or gets one.
LEMMA AcquireTables ==
  ASSUME TablesInv, NEW c \in Clients, NEW k \in Keys, Acquire(c, k)
  PROVE  TablesInv'
<1> USE DEF TablesInv
<1>1. CASE states[k] # 0
  <2> DEFINE R == [job EXCEPT ![states[k]].clients = @ \cup {c}]
  <2>1. StartNext(states, R, queue, active) /\ UNCHANGED <<sealed, resets>>
    BY <1>1 DEF Acquire
  <2>2. states[k] \in Jobs /\ job[states[k]] \in Job
    BY <1>1, JobTyped DEF Tables
  <2>3. [job[states[k]] EXCEPT !.clients = @ \cup {c}] \in Job
    BY <2>2 DEF Job
  <2>4. R \in [Jobs -> Job \cup {NoJob}]
    BY <2>2, <2>3 DEF Tables
  <2>5. \A j \in Jobs : R[j].phase = job[j].phase /\ R[j].key = job[j].key /\ R[j].left = job[j].left
    BY <2>2 DEF Tables, Job
  <2> HIDE DEF R
  <2>6. Tables(states, R, active)
    BY <2>4, <2>5, TablesClients
  <2>7. Tables(states', job', active')
        /\ retired' \in Jobs \cup {0} /\ queue' \in Seq(Keys)
    BY <2>1, <2>6, TablesStart
  <2> QED
    BY <2>1, <2>6, <2>7
<1>2. CASE states[k] = 0
  <2>1. PICK j \in Free :
          /\ StartNext([states EXCEPT ![k] = j], [job EXCEPT ![j] = Fresh(k, c)],
                       Append(queue, k), active)
          /\ UNCHANGED <<sealed, resets>>
    BY <1>2 DEF Acquire
  <2> DEFINE T == [states EXCEPT ![k] = j]
             R == [job EXCEPT ![j] = Fresh(k, c)]
  <2>2. j \in Jobs /\ job[j] = NoJob /\ j # 0
    BY WarmupAssumption DEF Free
  <2>3. Fresh(k, c) \in Job /\ Fresh(k, c).phase = "waiting" /\ Fresh(k, c).key = k
        /\ Fresh(k, c).left # 0
    BY WarmupAssumption DEF Fresh, Job
  <2>4. /\ T \in [Keys -> Jobs \cup {0}] /\ R \in [Jobs -> Job \cup {NoJob}]
        /\ T[k] = j /\ R[j] = Fresh(k, c)
        /\ \A n \in Keys \ {k} : T[n] = states[n]
        /\ \A i \in Jobs \ {j} : R[i] = job[i]
    BY <2>2, <2>3 DEF Tables
  <2>5. \A n \in Keys : states[n] # j
    BY <2>2 DEF Tables, NoJob
  <2>6. ASSUME NEW n \in Keys, T[n] # 0
        PROVE  R[T[n]].phase # "none" /\ R[T[n]].key = n /\ (Given(R[T[n]]) => active = n)
    <3>1. CASE n = k
      BY <2>3, <2>4, <3>1 DEF Given
    <3>2. CASE n # k
      <4>1. T[n] = states[n] /\ states[n] \in Jobs \ {j} /\ states[n] # 0
        BY <2>4, <2>5, <2>6, <3>2 DEF Tables
      <4> QED
        BY <2>4, <4>1 DEF Tables
    <3> QED
      BY <3>1, <3>2
  <2>7. \A i \in Jobs : Ahead(R[i])
    BY <2>3, <2>4 DEF Tables, Ahead
  <2>8. Append(queue, k) \in Seq(Keys)
    BY AppendProperties
  <2>9. StartNext(T, R, Append(queue, k), active)
    BY <2>1
  <2> HIDE DEF T, R
  <2>10. Tables(T, R, active)
    BY <2>4, <2>6, <2>7 DEF Tables
  <2>11. Tables(states', job', active')
         /\ retired' \in Jobs \cup {0} /\ queue' \in Seq(Keys)
    BY <2>8, <2>9, <2>10, TablesStart
  <2> QED
    BY <2>1, <2>11
<1> QED
  BY <1>1, <1>2

\* A view shows something else.
LEMMA ReleaseTables ==
  ASSUME TablesInv, NEW c, Release(c)
  PROVE  TablesInv'
<1>1. \A r \in Job \cup {NoJob} :
        LET m == [r EXCEPT !.clients = @ \ {c}] IN
        /\ m \in Job \cup {NoJob} /\ m.phase = r.phase
        /\ r.phase # "none" => m.key = r.key /\ m.left = r.left
  BY DEF Job, NoJob
<1>2. job' \in [Jobs -> Job \cup {NoJob}]
  BY <1>1 DEF Release, TablesInv, Tables
<1>3. \A j \in Jobs : /\ job'[j].phase = job[j].phase
                      /\ job[j].phase # "none" => job'[j].key = job[j].key /\ job'[j].left = job[j].left
  BY <1>1 DEF Release, TablesInv, Tables
<1>4. Tables(states, job', active)
  BY <1>2, <1>3, TablesClients DEF TablesInv
<1> QED
  BY <1>4 DEF Release, TablesInv

\* close_all and quiesce_library withdraw callbacks.
LEMMA MuteTables ==
  ASSUME TablesInv, NEW D, job' = Muted(job, D), sealed' \in BOOLEAN,
         UNCHANGED <<states, queue, active, retired, resets>>
  PROVE  TablesInv'
BY TablesMuted DEF TablesInv

\* The limits changed: the active job alone stays known.
LEMMA InvalidateTables ==
  ASSUME TablesInv, Invalidate
  PROVE  TablesInv'
<1> DEFINE kept == IF active = "none" THEN 0 ELSE states[active]
           T == [k \in Keys |-> IF k = active THEN states[k] ELSE 0]
           R == Muted(job, Known)
           D == Known \ {kept}
<1>1. /\ states' = T /\ job' = Dropped(R, D) /\ queue' = <<>>
      /\ UNCHANGED <<active, retired, sealed, resets>>
  BY DEF Invalidate
<1>2. Tables(states, R, active)
  BY TablesMuted DEF TablesInv
<1>3. T \in [Keys -> Jobs \cup {0}] /\ active \in Keys \cup {"none"}
  BY DEF TablesInv, Tables
<1>4. \A k \in Keys : T[k] # 0 => T[k] = states[k] /\ T[k] \notin D /\ active = k
  BY WarmupAssumption
<1> HIDE DEF T, R, D
<1>5. Tables(T, Dropped(R, D), active)
  BY <1>2, <1>3, <1>4, TablesDrop
<1> QED
  BY <1>1, <1>2, <1>5 DEF TablesInv

\* The strategy changed: no job is known any more.
LEMMA ResetTables ==
  ASSUME TablesInv, Reset
  PROVE  TablesInv'
<1> DEFINE T == [k \in Keys |-> 0]
           D == {j \in Known : job[j].phase = "waiting"}
           current == IF active = "none" THEN 0 ELSE states[active]
<1>1. /\ states' = T /\ job' = Dropped(job, D) /\ queue' = <<>> /\ active' = "none"
      /\ resets < MaxResets /\ resets' = resets + 1 /\ sealed' = sealed
      /\ retired' = IF current # 0 /\ InWorker(current) THEN current ELSE 0
  BY DEF Reset
<1>2. T \in [Keys -> Jobs \cup {0}] /\ \A k \in Keys : T[k] = 0
  OBVIOUS
<1>3. current \in Jobs \cup {0}
  BY DEF TablesInv, Tables
<1> HIDE DEF T, D, current
<1>4. Tables(T, Dropped(job, D), "none")
  BY <1>2, TablesDrop DEF TablesInv
<1>5. resets' \in 0 .. MaxResets
  BY <1>1, WarmupAssumption DEF TablesInv
<1> QED
  BY <1>1, <1>3, <1>4, <1>5 DEF TablesInv

\* resume_library looks at the queue.
LEMMA ResumeTables ==
  ASSUME TablesInv, StartNext(states, job, queue, active), resets' = resets, sealed' \in BOOLEAN
  PROVE  TablesInv'
BY TablesStart DEF TablesInv

\* An answer goes by its key: the document is forgotten, whose answer it was.
LEMMA ReportTables ==
  ASSUME TablesInv, NEW j \in Jobs, Report(j)
  PROVE  TablesInv'
<1> DEFINE k == job[j].key
           T == [states EXCEPT ![k] = 0]
           D == {j} \cup {i \in {states[k]} : i # 0 /\ job[i].phase = "waiting"}
           a == IF active = k THEN "none" ELSE active
<1>1. StartNext(T, Dropped(job, D), queue, a) /\ UNCHANGED <<sealed, resets>>
  BY DEF Report
<1>2. job[j] \in Job /\ Given(job[j]) /\ k \in Keys
  BY JobTyped DEF Report, TablesInv, Tables, Given, Job
<1>3. /\ T \in [Keys -> Jobs \cup {0}] /\ T[k] = 0
      /\ \A n \in Keys \ {k} : T[n] = states[n]
  BY <1>2 DEF TablesInv, Tables
<1>4. a \in Keys \cup {"none"}
  BY DEF TablesInv, Tables
<1>5. ASSUME NEW n \in Keys, T[n] # 0
      PROVE  T[n] = states[n] /\ T[n] \notin D /\ (Given(job[T[n]]) => a = n)
  <2>1. n # k /\ T[n] = states[n] /\ states[n] # 0
    BY <1>3, <1>5
  <2>2. job[states[n]].key = n /\ (Given(job[states[n]]) => active = n)
    BY <2>1 DEF TablesInv, Tables
  <2>3. states[n] # j
    BY <2>1, <2>2
  <2>4. ~(states[n] = states[k] /\ states[k] # 0)
    BY <1>2, <2>1, <2>2 DEF TablesInv, Tables
  <2> QED
    BY <2>1, <2>2, <2>3, <2>4
<1> HIDE DEF T, D, a, k
<1>6. Tables(T, Dropped(job, D), a)
  BY <1>3, <1>4, <1>5, TablesDrop DEF TablesInv
<1>7. /\ Tables(states', job', active')
      /\ retired' \in Jobs \cup {0} /\ queue' \in Seq(Keys)
  BY <1>1, <1>6, TablesStart DEF TablesInv
<1> QED
  BY <1>1, <1>6, <1>7 DEF TablesInv

\* A worker goes on.
LEMMA WorkTables ==
  ASSUME TablesInv, NEW j \in Jobs, Work(j)
  PROVE  TablesInv'
<1>1. job[j].phase \in {"submitted", "running", "working"} /\ job[j] \in Job
  BY JobTyped DEF Work, Begin, Chunk, ChunkDone, TablesInv, Tables
<1>2. PICK r \in Job : /\ Given(r) /\ r.key = job[j].key /\ Ahead(r)
                       /\ job' = [job EXCEPT ![j] = r]
  <2>1. \A p \in {"running", "working", "ended", "failed"} :
          LET r == [job[j] EXCEPT !.phase = p] IN
          r \in Job /\ Given(r) /\ r.phase = p /\ r.key = job[j].key /\ r.left = job[j].left
    BY <1>1 DEF Job, Given
  <2>2. CASE Begin(j)
    <3>1. job[j].left # 0 /\ job[j].phase = "submitted"
      BY <2>2 DEF Begin, TablesInv, Tables, Ahead
    <3>2. job' = [job EXCEPT ![j].phase = "running"]
      BY <2>2 DEF Begin, Advance
    <3> QED
      BY <2>1, <3>1, <3>2 DEF Ahead
  <2>3. CASE Chunk(j)
    <3>1. job[j].left # 0 /\ job[j].phase = "running"
      BY <2>3 DEF Chunk, TablesInv, Tables, Ahead
    <3>2. CASE \E p \in {"failed", "ended"} : job' = [job EXCEPT ![j].phase = p]
      BY <2>1, <3>2 DEF Ahead
    <3>3. CASE Wanted(j) /\ job' = [job EXCEPT ![j].phase = "working", ![j].left = @ - 1]
      <4> DEFINE r == [job[j] EXCEPT !.phase = "working", !.left = @ - 1]
      <4>1. \A x \in Job : x.left # 0 =>
              LET y == [x EXCEPT !.phase = "working", !.left = @ - 1] IN
              y \in Job /\ y.phase = "working" /\ y.key = x.key
        <5> SUFFICES ASSUME NEW x \in Job, x.left # 0
                     PROVE  LET y == [x EXCEPT !.phase = "working", !.left = @ - 1] IN
                            y \in Job /\ y.phase = "working" /\ y.key = x.key
          OBVIOUS
        <5>1. x.left - 1 \in 0 .. Chunks
          BY WarmupAssumption DEF Job
        <5> QED
          BY <5>1 DEF Job
      <4>2. r \in Job /\ r.phase = "working" /\ r.key = job[j].key
        BY <1>1, <3>1, <4>1
      <4>3. job' = [job EXCEPT ![j] = r]
        BY <1>1, <3>3 DEF TablesInv, Tables
      <4> QED
        BY <3>3, <4>2, <4>3 DEF Given, Ahead
    <3> QED
      BY <2>3, <3>2, <3>3 DEF Chunk, Advance
  <2>4. CASE ChunkDone(j)
    <3>1. job[j].phase = "working"
      BY <2>4 DEF ChunkDone
    <3>2. PICK p \in {"failed", IF job[j].left = 0 THEN "ended" ELSE "running"} :
            job' = [job EXCEPT ![j].phase = p]
      BY <2>4 DEF ChunkDone, Advance
    <3> QED
      BY <2>1, <3>1, <3>2 DEF Ahead
  <2> QED
    BY <2>2, <2>3, <2>4 DEF Work
<1>3. /\ job' \in [Jobs -> Job \cup {NoJob}] /\ job'[j] = r
      /\ \A i \in Jobs \ {j} : job'[i] = job[i]
  BY <1>2 DEF TablesInv, Tables
<1>4. UNCHANGED <<states, queue, active, retired, sealed, resets>>
  BY DEF Work
<1>5. ASSUME NEW k \in Keys, states[k] # 0
      PROVE  /\ job'[states[k]].phase # "none" /\ job'[states[k]].key = k
             /\ Given(job'[states[k]]) => active = k
  <2>1. /\ states[k] \in Jobs /\ job[states[k]].phase # "none" /\ job[states[k]].key = k
        /\ Given(job[states[k]]) => active = k
    BY <1>5 DEF TablesInv, Tables
  <2>2. CASE states[k] = j
    <3>1. Given(job[j])
      BY <1>1 DEF Given
    <3> QED
      BY <1>2, <1>3, <2>1, <2>2, <3>1 DEF Given
  <2>3. CASE states[k] # j
    BY <1>3, <2>1, <2>3
  <2> QED
    BY <2>2, <2>3
<1>6. \A i \in Jobs : Ahead(job'[i])
  BY <1>2, <1>3 DEF TablesInv, Tables
<1>7. Tables(states, job', active)
  BY <1>3, <1>5, <1>6 DEF TablesInv, Tables
<1> QED
  BY <1>4, <1>7 DEF TablesInv

\* Every step keeps the tables in order.
LEMMA TablesStepwise ==
  ASSUME TablesInv, [WarmupNext]_warmupVars
  PROVE  TablesInv'
<1>1. ASSUME NEW c \in Clients, Release(c) PROVE TablesInv'
  BY <1>1, ReleaseTables
<1>2. ASSUME NEW c \in Clients, NEW k \in Keys, Acquire(c, k) PROVE TablesInv'
  BY <1>2, AcquireTables
<1>3. CASE Invalidate
  BY <1>3, InvalidateTables
<1>4. CASE CloseAll
  BY <1>4, MuteTables DEF CloseAll, TablesInv
<1>5. CASE Reset
  BY <1>5, ResetTables
<1>6. CASE QuiesceLibrary
  BY <1>6, MuteTables DEF QuiesceLibrary
<1>7. CASE ResumeLibrary
  BY <1>7, ResumeTables DEF ResumeLibrary
<1>8. ASSUME NEW j \in Jobs, Work(j) PROVE TablesInv'
  BY <1>8, WorkTables
<1>9. ASSUME NEW j \in Jobs, Report(j) PROVE TablesInv'
  BY <1>9, ReportTables
<1>10. CASE UNCHANGED warmupVars
  BY <1>10 DEF TablesInv, Tables, warmupVars
<1> QED
  BY <1>1, <1>2, <1>3, <1>4, <1>5, <1>6, <1>7, <1>8, <1>9, <1>10
     DEF WarmupNext, Consumers, Workers

\* Nothing is known to a coordinator that starts.
LEMMA TablesBegin == WarmupInit => TablesInv
<1> SUFFICES ASSUME WarmupInit PROVE TablesInv
  OBVIOUS
<1>1. \A j \in Jobs : job[j] = NoJob
  BY DEF WarmupInit
<1>2. Tables(states, job, active)
  BY <1>1 DEF WarmupInit, Tables, Ahead, NoJob
<1>3. sealed \in BOOLEAN /\ retired \in Jobs \cup {0}
  BY Zenon DEF WarmupInit
<1>5. resets = 0
  BY DEF WarmupInit
<1>6. resets \in 0 .. MaxResets
  BY <1>5, WarmupAssumption
<1>4. queue \in Seq(Keys)
  BY EmptySeq DEF WarmupInit
<1> QED
  BY <1>2, <1>3, <1>4, <1>6 DEF TablesInv

LEMMA TablesTyped == TablesInv => WarmupTypeOK
BY DEF TablesInv, Tables, WarmupTypeOK

\* The coordinator's tables keep their types through every reset, and no chunk
\* is counted below zero: a worker looks for a chunk only while one is left.
THEOREM WarmupTypes == WarmupSpec => []WarmupTypeOK
<1>1. TablesInv /\ [WarmupNext]_warmupVars => TablesInv'
  BY TablesStepwise
<1> QED
  BY <1>1, TablesBegin, TablesTyped, PTL DEF WarmupSpec
===============================================================================
