---------------------------- MODULE EngineProofs ----------------------------
(***************************************************************************)
(* Proofs about Engine, for any chunks, workers, queries and K.            *)
(***************************************************************************)
EXTENDS Engine, FiniteSetTheorems, SequenceTheorems, TLAPS

-----------------------------------------------------------------------------
(* The best K of the chunks' best K.                                       *)

\* The best K of what the chunks found, each its own best K, are the best K of
\* the whole collection.
LEMMA MergedTopK ==
    ASSUME NEW Parts, NEW C, NEW S, NEW T, NEW k \in Nat,
           NEW All, All = UNION {C[p] : p \in Parts}, IsFiniteSet(All),
           NEW Found, Found = UNION {S[p] : p \in Parts},
           \A p \in Parts : IsTopK(k, S[p], C[p]),
           \A p \in Parts : \A e \in C[p] : e.score \in Nat,
           IsTopK(k, T, Found)
    PROVE  IsTopK(k, T, All)
<1>1. Found \subseteq All /\ T \subseteq Found /\ \A e \in All : e.score \in Nat
  BY DEF IsTopK
<1>2. \A X \in SUBSET All : IsFiniteSet(X) /\ Cardinality(X) \in Nat
  BY FS_Subset, FS_CardinalityType
\* A part that left something out is in T wholly only if it is T.
<1>3. ASSUME NEW p \in Parts, S[p] # C[p]
      PROVE  Cardinality(S[p]) = k /\ (S[p] \subseteq T => S[p] = T)
  <2>1. Cardinality(S[p]) = k /\ S[p] \in SUBSET All /\ T \in SUBSET All
    BY <1>3, <1>1 DEF IsTopK
  <2>2. ASSUME S[p] \subseteq T PROVE S[p] = T
    <3>1. IsFiniteSet(T) /\ Cardinality(T) \in Nat /\ Cardinality(T) <= k
      BY <1>2, <2>1 DEF IsTopK
    <3>2. Cardinality(S[p]) <= Cardinality(T)
      BY <2>2, <3>1, FS_Subset
    <3>3. Cardinality(S[p]) = Cardinality(T)
      BY <2>1, <3>1, <3>2
    <3> QED
      BY <2>2, <3>1, <3>3, FS_Subset
  <2> QED
    BY <2>1, <2>2
<1>4. T # All => Cardinality(T) = k
  <2> SUFFICES ASSUME T # All PROVE Cardinality(T) = k
    OBVIOUS
  <2>1. CASE T # Found
    BY <2>1 DEF IsTopK
  <2>2. CASE T = Found
    <3>1. PICK p \in Parts : S[p] # C[p]
      BY <2>2
    <3>2. S[p] \subseteq T
      BY <2>2
    <3> QED
      BY <3>1, <3>2, <1>3
  <2> QED
    BY <2>1, <2>2
<1>5. ASSUME NEW s \in T, NEW c \in All \ T PROVE c.score <= s.score
  <2>1. CASE c \in Found
    BY <2>1 DEF IsTopK
  <2>2. CASE c \notin Found
    <3>1. PICK p \in Parts : c \in C[p]
      OBVIOUS
    <3>2. c \in C[p] \ S[p]
      BY <3>1, <2>2
    <3>3. \A e \in S[p] : c.score <= e.score
      BY <3>2 DEF IsTopK
    <3>4. CASE S[p] \subseteq T
      BY <3>4, <3>2, <3>3, <1>3
    <3>5. CASE ~(S[p] \subseteq T)
      <4>1. PICK e \in S[p] : e \notin T
        BY <3>5
      <4>2. e \in Found \ T
        BY <4>1
      <4>3. e.score <= s.score
        BY <4>2 DEF IsTopK
      <4>4. c.score <= e.score
        BY <3>3
      <4>5. c.score \in Nat /\ e.score \in Nat /\ s.score \in Nat
        BY <4>2, <1>1
      <4> QED
        BY <4>3, <4>4, <4>5
    <3> QED
      BY <3>4, <3>5
  <2> QED
    BY <2>1, <2>2
<1> QED
  BY <1>1, <1>4, <1>5 DEF IsTopK

\* Sorting and cutting to K leaves the best K, in order.
LEMMA ResizedTopK ==
    ASSUME NEW M, IsFiniteSet(M), \A e \in M : e.score \in Nat,
           NEW s \in Sorted(M)
    PROVE  LET r == Resized(s)
           IN  /\ r \in Seq(M)
               /\ \A m, n \in DOMAIN r : m < n => r[m].score >= r[n].score
               /\ IsTopK(K, {r[m] : m \in DOMAIN r}, M)
<1> DEFINE N == Cardinality(M)
           r == Resized(s)
           L == IF N > K THEN K ELSE N
           R == {r[m] : m \in DOMAIN r}
<1>1. N \in Nat /\ K \in Nat
  BY FS_CardinalityType, EngineAssumption
<1>2. /\ s \in [1..N -> M]
      /\ \A m, n \in 1..N : m # n => s[m] # s[n]
      /\ \A m, n \in 1..N : m < n => s[m].score >= s[n].score
  BY DEF Sorted
<1>3. s \in Seq(M) /\ Len(s) = N
  BY <1>1, <1>2
<1>4. L \in Nat /\ L <= N /\ L <= K
  BY <1>1
<1>5. r \in [1..L -> M] /\ \A m \in 1..L : r[m] = s[m]
  <2>1. CASE N > K
    <3>1. r = SubSeq(s, 1, K) /\ L = K
      BY <2>1, <1>3 DEF Resized
    <3>2. 1 \in Nat /\ \A m \in 1..K : s[m] \in M
      BY <2>1, <1>1, <1>2
    <3>3. SubSeq(s, 1, K) \in [1..K -> M] /\ \A m \in 1..K : SubSeq(s, 1, K)[m] = s[m]
      <4> DEFINE t == SubSeq(s, 1, K)
      <4>1. t \in Seq(M) /\ Len(t) = (IF 1 <= K THEN K - 1 + 1 ELSE 0)
        BY <3>2, <1>1, SubSeqProperties
      <4>2. \A m \in 1..(K - 1 + 1) : t[m] = s[1 + m - 1]
        BY <3>2, <1>1, SubSeqProperties
      <4>3. Len(t) = K /\ 1..(K - 1 + 1) = 1..K
        BY <4>1, <1>1
      <4>4. \A m \in 1..K : t[m] = s[m]
        <5>1. \A m \in 1..K : 1 + m - 1 = m
          OBVIOUS
        <5> QED
          BY <5>1, <4>2, <4>3
      <4> HIDE DEF t
      <4>5. t \in [1..K -> M]
        BY <4>1, <4>3
      <4> QED
        BY <4>4, <4>5 DEF t
    <3> QED
      BY <3>1, <3>3
  <2>2. CASE ~(N > K)
    BY <2>2, <1>2, <1>3 DEF Resized
  <2> QED
    BY <2>1, <2>2
<1>6. DOMAIN r = 1..L /\ 1..L \subseteq 1..N
  BY <1>5, <1>4, <1>1
<1>7. r \in Seq(M)
  BY <1>4, <1>5
<1>8. \A m, n \in DOMAIN r : m < n => r[m].score >= r[n].score
  BY <1>2, <1>5, <1>6
<1>9. IsFiniteSet(R) /\ Cardinality(R) = L
  <2>1. r \in Bijection(1..L, R)
    <3>1. r \in [1..L -> R] /\ \A e \in R : \E m \in 1..L : r[m] = e
      BY <1>5, <1>6
    <3>2. \A m, n \in 1..L : r[m] = r[n] => m = n
      BY <1>2, <1>5, <1>6
    <3>3. r \in Injection(1..L, R)
      BY ONLY <3>1, <3>2 DEF Injection, IsInjective
    <3>4. r \in Surjection(1..L, R)
      BY ONLY <3>1 DEF Surjection
    <3> QED
      BY ONLY <3>3, <3>4 DEF Bijection
  <2>2. IsFiniteSet(1..L) /\ Cardinality(1..L) = L
    <3>1. L \in Nat
      BY <1>4
    <3> HIDE DEF L
    <3>2. IsFiniteSet(1..L) /\ Cardinality(1..L) = IF 1 > L THEN 0 ELSE L - 1 + 1
      BY ONLY <3>1, FS_Interval
    <3>3. (IF 1 > L THEN 0 ELSE L - 1 + 1) = L
      BY ONLY <3>1
    <3> QED
      BY ONLY <3>2, <3>3
  <2>3. ExistsBijection(1..L, R)
    BY <2>1 DEF ExistsBijection
  <2> QED
    BY <2>2, <2>3, FS_Bijection
<1>10. R \subseteq M
  BY <1>5, <1>6
<1>11. R # M => Cardinality(R) = K
  <2> SUFFICES ASSUME L # K PROVE R = M
    BY <1>9
  <2>1. L = N
    BY <1>1
  <2>2. Cardinality(R) = Cardinality(M)
    BY <2>1, <1>9
  <2> QED
    BY <2>2, <1>10, FS_Subset
<1>12. ASSUME NEW a \in R, NEW c \in M \ R PROVE c.score <= a.score
  <2>1. PICK m \in 1..L : a = s[m]
    BY <1>5, <1>6
  <2>2. \E n \in 1..N : s[n] = c
    <3>1. s \in Injection(1..N, M)
      BY <1>2 DEF Injection, IsInjective
    <3>2. IsFiniteSet(1..N) /\ Cardinality(1..N) = N
      BY <1>1, FS_Interval
    <3>3. s \in Surjection(1..N, M)
      BY <3>1, <3>2, FS_Injection
    <3> QED
      BY <3>3 DEF Surjection
  <2>3. PICK n \in 1..N : s[n] = c
    BY <2>2
  <2>4. n \notin 1..L
    BY <2>3, <1>5, <1>6
  <2>5. m < n
    BY <2>4, <1>4, <1>1
  <2>6. s[m].score >= s[n].score /\ s[m].score \in Nat /\ s[n].score \in Nat
    BY <2>5, <1>2, <1>6
  <2> QED
    BY <2>6, <2>1, <2>3
<1>13. IsTopK(K, R, M)
  BY <1>4, <1>9, <1>10, <1>11, <1>12 DEF IsTopK
<1> QED
  BY <1>7, <1>8, <1>13

-----------------------------------------------------------------------------
(* The inductive invariant.                                                *)

Pending == running \cup {queue[n] : n \in DOMAIN queue}

\* What the main thread's place in the loop says of the pool and of the tokens.
Places ==
    /\ pc = "start" => call = "ctor" /\ added = 0
    /\ pc \in {"read", "add"} => call = "none"
    /\ pc = "wait" => call \in {"all", "none"} /\ i = NChunks
    /\ pc = "end" => call \in {"destroy", "gone"}
    /\ pc \in {"add", "wait"} => tokens \in Queries /\ q_id \in 1..NLines /\ tokens = input[q_id]
    /\ pc \in {"start", "read", "end"} \/ (pc = "wait" /\ call = "none") => Pending = {}
    /\ pc \in {"start", "read", "end"} => tokens = None
    /\ i <= added

\* The pending jobs are this line's, each for the chunk that its number tells.
JobsOfLine ==
    /\ \A j \in Pending :
          /\ j \in (added - i + 1)..added
          /\ pos[j] = j - (added - i)
          /\ arg[j] \in {None, tokens}
    /\ \A j \in Jobs : j > added => arg[j] = None

CellDone(c) == IsTopK(K, results[c], Matches(tokens, c))

\* A job of this line that is not pending any more has filled its cell.
CellsFilled ==
    pc \in {"add", "wait"} =>
      \A c \in 1..i : (added - i) + c \in Pending \/ CellDone(c)

IInv ==
    /\ TypeOK
    /\ Places
    /\ JobsOfLine
    /\ CellsFilled
    /\ merged_results = {}
    /\ AnswersAreTopK

\* The constants as the steps below use them.
LEMMA Constants ==
    /\ NChunks \in Nat \ {0} /\ K \in Nat /\ NLines \in Nat
    /\ NLines * NChunks \in Nat
    /\ Jobs \subseteq Nat /\ \A j \in Jobs : j >= 1
    /\ None \notin Queries /\ Empty \notin Queries
BY EngineAssumption DEF Jobs

\* The initial states satisfy the invariant.
LEMMA InitIInv == Init => IInv
<1> SUFFICES ASSUME Init PROVE IInv
  OBVIOUS
<1> USE DEF Init, Pool!Init
<1>1. TypeOK
  BY Constants DEF TypeOK, Jobs, Chunks
<1>2. Pending = {}
  BY DEF Pending
<1>3. Places /\ JobsOfLine /\ CellsFilled
  BY <1>2 DEF Places, JobsOfLine, CellsFilled
<1>4. AnswersAreTopK
  BY DEF AnswersAreTopK
<1> QED
  BY <1>1, <1>3, <1>4 DEF IInv

\* A step that changes neither the answers nor the input keeps them right.
LEMMA AnswersStay ==
    ASSUME AnswersAreTopK, out' = out, input' = input
    PROVE  AnswersAreTopK'
BY DEF AnswersAreTopK, AnswerIsTopK, AllMatches

\* Steps that leave the jobs, their arguments and the cells alone.
LEMMA QuietStepsKeepIInv ==
    ASSUME IInv, Construct \/ ReadLine \/ WaitAllJobs \/ EndOfInput \/ PoolReturns
    PROVE  IInv'
<1> USE Constants
<1>1. /\ UNCHANGED <<input, pos, arg, results, merged_results, out, queue, running, added>>
      /\ Pending' = Pending
  BY DEF Construct, ReadLine, WaitAllJobs, EndOfInput, PoolReturns, mine, pool, Pending,
         Pool!Construct, Pool!Call, Pool!ReturnAll
<1>2. AnswersAreTopK' /\ merged_results' = {}
  BY <1>1, AnswersStay DEF IInv
<1>3. CASE Construct
  <2> USE <1>3 DEF Construct, Pool!Construct
  <2>1. TypeOK'
    BY DEF IInv, TypeOK
  <2>2. Places' /\ JobsOfLine' /\ CellsFilled'
    BY <1>1 DEF IInv, Places, JobsOfLine, CellsFilled, CellDone
  <2> QED
    BY <2>1, <2>2, <1>2 DEF IInv
<1>4. CASE ReadLine
  <2> USE <1>4 DEF ReadLine, MoreLines, pool
  <2>1. q_id' \in 1..NLines /\ input[q_id'] \in Queries \cup {Empty}
    BY DEF IInv, TypeOK
  <2>2. TypeOK'
    BY <2>1 DEF IInv, TypeOK
  <2>3. Pending = {} /\ tokens = None
    BY DEF IInv, Places
  <2>4. Places'
    BY <2>1, <2>3, <1>1 DEF IInv, Places, TypeOK
  <2>5. JobsOfLine' /\ CellsFilled'
    BY <2>3, <1>1 DEF IInv, JobsOfLine, CellsFilled
  <2> QED
    BY <2>2, <2>4, <2>5, <1>2 DEF IInv
<1>5. CASE WaitAllJobs
  <2> USE <1>5 DEF WaitAllJobs, Pool!Call
  <2>1. TypeOK'
    BY DEF IInv, TypeOK
  <2>2. Places' /\ JobsOfLine' /\ CellsFilled'
    BY <1>1 DEF IInv, Places, JobsOfLine, CellsFilled, CellDone
  <2> QED
    BY <2>1, <2>2, <1>2 DEF IInv
<1>6. CASE EndOfInput
  <2> USE <1>6 DEF EndOfInput, Pool!Call
  <2>1. TypeOK'
    BY DEF IInv, TypeOK
  <2>2. Places' /\ JobsOfLine' /\ CellsFilled'
    BY <1>1 DEF IInv, Places, JobsOfLine, CellsFilled, CellDone
  <2> QED
    BY <2>1, <2>2, <1>2 DEF IInv
<1>7. CASE PoolReturns
  <2> USE <1>7 DEF PoolReturns, Pool!ReturnAll, mine
  <2>1. TypeOK'
    BY DEF IInv, TypeOK
  <2>2. Pending = {}
    BY DEF Pending
  <2>3. Places' /\ JobsOfLine' /\ CellsFilled'
    BY <1>1, <2>2 DEF IInv, Places, JobsOfLine, CellsFilled, CellDone
  <2> QED
    BY <2>1, <2>3, <1>2 DEF IInv
<1> QED
  BY <1>3, <1>4, <1>5, <1>6, <1>7

\* A job that is added is this line's last, for the next chunk.
LEMMA AddKeepsIInv == ASSUME IInv, AddJob PROVE IInv'
<1> USE Constants DEF AddJob, Pool!Add
<1>1. /\ queue \in Seq(Jobs) /\ queue' = Append(queue, added + 1)
      /\ added \in Nat /\ i \in Nat /\ i' = i + 1 /\ added' = added + 1
      /\ added + 1 \in Jobs /\ i <= added
  BY DEF IInv, TypeOK, Places, Jobs
<1>2. Pending' = Pending \cup {added + 1}
  <2>1. /\ DOMAIN queue' = DOMAIN queue \cup {Len(queue) + 1}
        /\ queue'[Len(queue) + 1] = added + 1
        /\ \A n \in DOMAIN queue : queue'[n] = queue[n]
    BY <1>1
  <2> QED
    BY <2>1 DEF Pending
<1>3. added' - i' = added - i
  BY <1>1
<1>4. TypeOK'
  <2>1. queue' \in Seq(Jobs) /\ added' \in 0..(NLines * NChunks) /\ i' \in 0..NChunks
    BY <1>1 DEF IInv, TypeOK
  <2>2. pos' \in [Jobs -> Chunks]
    <3>1. i + 1 \in Chunks
      BY DEF IInv, TypeOK, Chunks
    <3> QED
      BY <3>1 DEF IInv, TypeOK
  <2> QED
    BY <2>1, <2>2 DEF IInv, TypeOK
<1>5. Places'
  BY <1>1 DEF IInv, Places
<1>6. JobsOfLine'
  <2>1. \A j \in Pending : j # added + 1 /\ pos'[j] = pos[j]
    BY <1>1 DEF IInv, JobsOfLine, TypeOK
  <2>2. pos'[added + 1] = i + 1 /\ arg[added + 1] = None
    BY <1>1 DEF IInv, JobsOfLine, TypeOK
  <2>3. ASSUME NEW j \in Pending'
        PROVE  /\ j \in (added' - i' + 1)..added'
               /\ pos'[j] = j - (added' - i')
               /\ arg'[j] \in {None, tokens'}
    <3>1. CASE j \in Pending
      BY <3>1, <2>1, <1>1, <1>3 DEF IInv, JobsOfLine
    <3>2. CASE j = added + 1
      BY <3>2, <2>2, <1>1, <1>3
    <3> QED
      BY <3>1, <3>2, <1>2
  <2>4. \A j \in Jobs : j > added' => arg'[j] = None
    BY <1>1 DEF IInv, JobsOfLine
  <2> QED
    BY <2>3, <2>4 DEF JobsOfLine
<1>7. CellsFilled'
  <2> SUFFICES ASSUME NEW c \in 1..i'
               PROVE  (added' - i') + c \in Pending' \/ CellDone(c)'
    BY DEF CellsFilled
  <2>1. CASE c \in 1..i
    BY <2>1, <1>2, <1>3 DEF IInv, CellsFilled, CellDone
  <2>2. CASE c = i + 1
    <3>1. (added' - i') + c = added + 1
      BY <2>2, <1>1, <1>3
    <3> QED
      BY <3>1, <1>2
  <2> QED
    BY <2>1, <2>2, <1>1
<1>8. AnswersAreTopK' /\ merged_results' = {}
  BY AnswersStay DEF IInv
<1> QED
  BY <1>4, <1>5, <1>6, <1>7, <1>8 DEF IInv

\* A job that starts, or copies the tokens, stays pending.
LEMMA StartAndCopyKeepIInv ==
    ASSUME IInv, StartJob \/ \E j \in Jobs : CopyTokens(j)
    PROVE  IInv'
<1> USE Constants
<1>1. UNCHANGED <<input, q_id, tokens, i, pos, results, merged_results, out, pc, added, call>>
  BY DEF StartJob, CopyTokens, mine, pool, Pool!Start
<1>2. AnswersAreTopK' /\ merged_results' = {}
  BY <1>1, AnswersStay DEF IInv
<1>3. CASE StartJob
  <2> USE <1>3 DEF StartJob, Pool!Start, mine
  <2>1. queue \in Seq(Jobs) /\ queue # <<>>
    BY DEF IInv, TypeOK
  <2>2. /\ Head(queue) \in Jobs /\ Tail(queue) \in Seq(Jobs)
        /\ Head(queue) = queue[1] /\ 1 \in DOMAIN queue
        /\ DOMAIN queue = 1..Len(queue) /\ DOMAIN Tail(queue) = 1..(Len(queue) - 1)
        /\ \A n \in DOMAIN Tail(queue) : Tail(queue)[n] = queue[n + 1]
        /\ Len(queue) \in Nat
    BY <2>1
  <2>3. TypeOK'
    BY <2>2 DEF IInv, TypeOK
  <2>4. Pending' = Pending
    <3>1. \A n \in DOMAIN queue : n = 1 \/ (n - 1 \in DOMAIN Tail(queue) /\ Tail(queue)[n - 1] = queue[n])
      BY <2>2
    <3>2. \A n \in DOMAIN Tail(queue) : n + 1 \in DOMAIN queue /\ Tail(queue)[n] = queue[n + 1]
      BY <2>2
    <3>3. {queue[n] : n \in DOMAIN queue} = {Head(queue)} \cup {Tail(queue)[n] : n \in DOMAIN Tail(queue)}
      <4>1. ASSUME NEW n \in DOMAIN queue
            PROVE  queue[n] \in {Head(queue)} \cup {Tail(queue)[m] : m \in DOMAIN Tail(queue)}
        BY <3>1, <2>2
      <4>2. ASSUME NEW n \in DOMAIN Tail(queue)
            PROVE  Tail(queue)[n] \in {queue[m] : m \in DOMAIN queue}
        BY <3>2
      <4>3. Head(queue) \in {queue[m] : m \in DOMAIN queue}
        BY <2>2
      <4> QED
        BY <4>1, <4>2, <4>3
    <3> QED
      BY <3>3 DEF Pending
  <2>5. Places' /\ JobsOfLine' /\ CellsFilled'
    BY <2>4, <1>1 DEF IInv, Places, JobsOfLine, CellsFilled, CellDone
  <2> QED
    BY <2>3, <2>5, <1>2 DEF IInv
<1>4. ASSUME NEW j \in Jobs, CopyTokens(j) PROVE IInv'
  <2> USE <1>4 DEF CopyTokens, pool
  <2>1. TypeOK'
    BY DEF IInv, TypeOK
  <2>2. Pending' = Pending /\ j \in Pending
    BY DEF Pending
  <2>3. JobsOfLine'
    <3>1. j <= added
      <4>1. j \in (added - i + 1)..added
        BY <2>2 DEF IInv, JobsOfLine
      <4>2. added \in Nat /\ i \in Nat
        BY DEF IInv, TypeOK
      <4> QED
        BY <4>1, <4>2
    <3>2. arg \in [Jobs -> Queries \cup {None}]
      BY DEF IInv, TypeOK
    <3>3. \A k \in Pending : arg'[k] \in {None, tokens}
      BY <3>2 DEF IInv, JobsOfLine
    <3>4. \A k \in Jobs : k > added => arg'[k] = None
      BY <3>2, <3>1 DEF IInv, JobsOfLine, TypeOK
    <3> QED
      BY <3>3, <3>4, <2>2, <1>1 DEF IInv, JobsOfLine
  <2>4. Places' /\ CellsFilled'
    BY <2>2, <1>1 DEF IInv, Places, CellsFilled, CellDone
  <2> QED
    BY <2>1, <2>3, <2>4, <1>2 DEF IInv
<1> QED
  BY <1>3, <1>4

\* A job that finishes fills the cell of its own chunk for this line's tokens.
LEMMA FinishKeepsIInv ==
    ASSUME IInv, NEW j \in Jobs, FinishJob(j)
    PROVE  IInv'
<1> USE Constants DEF FinishJob, Pool!Finish
<1>1. /\ UNCHANGED <<input, q_id, tokens, i, pos, arg, merged_results, out, pc, queue, added, call>>
      /\ j \in Pending /\ arg[j] \in Queries /\ pos[j] \in Chunks
  BY DEF Pending, IInv, TypeOK
<1>2. PICK S \in SUBSET Matches(arg[j], pos[j]) :
         /\ IsTopK(K, S, Matches(arg[j], pos[j]))
         /\ results' = [results EXCEPT ![pos[j]] = S]
  OBVIOUS
<1>3. pc \in {"add", "wait"} /\ arg[j] = tokens /\ pos[j] = j - (added - i)
  <2>1. pc \in {"add", "wait"}
    BY <1>1 DEF IInv, Places, TypeOK
  <2>2. arg[j] \in {None, tokens} /\ pos[j] = j - (added - i)
    BY <1>1 DEF IInv, JobsOfLine
  <2> QED
    BY <2>1, <2>2, <1>1
<1>4. Pending' \subseteq Pending /\ \A k \in Pending : k \in Pending' \/ k = j
  BY <1>1 DEF Pending
<1>5. TypeOK'
  <2>1. results' \in [Chunks -> SUBSET Entries]
    <3>1. S \subseteq Entries
      BY <1>1 DEF Entries, AllMatches
    <3> QED
      BY <3>1, <1>2 DEF IInv, TypeOK
  <2> QED
    BY <2>1, <1>1 DEF IInv, TypeOK
<1>6. Places'
  BY <1>1, <1>3, <1>4 DEF IInv, Places
<1>7. JobsOfLine'
  BY <1>1, <1>4 DEF IInv, JobsOfLine
<1>8. CellsFilled'
  <2> SUFFICES ASSUME NEW c \in 1..i
               PROVE  (added - i) + c \in Pending' \/ CellDone(c)'
    BY <1>1 DEF CellsFilled
  <2>0. i \in Nat /\ added \in Nat /\ c \in Int /\ c \in Chunks
    BY DEF IInv, TypeOK, Chunks
  <2>1. CASE c = pos[j]
    <3>1. results'[c] = S
      BY <2>1, <1>2, <1>1 DEF IInv, TypeOK
    <3>2. CellDone(c)'
      BY <3>1, <2>1, <1>2, <1>3, <1>1 DEF CellDone
    <3> QED
      BY <3>2
  <2>2. CASE c # pos[j]
    <3>1. results'[c] = results[c]
      BY <2>2, <2>0, <1>2 DEF IInv, TypeOK
    <3>2. (added - i) + c # j
      BY <2>2, <2>0, <1>3
    <3>3. (added - i) + c \in Pending \/ CellDone(c)
      BY <1>3 DEF IInv, CellsFilled
    <3> QED
      BY <3>1, <3>2, <3>3, <1>4, <1>1 DEF CellDone
  <2> QED
    BY <2>1, <2>2
<1>9. AnswersAreTopK' /\ merged_results' = {}
  BY <1>1, AnswersStay DEF IInv
<1> QED
  BY <1>5, <1>6, <1>7, <1>8, <1>9 DEF IInv

\* What is printed when no job is pending is the best K of the collection.
LEMMA MergeKeepsIInv == ASSUME IInv, MergeResults PROVE IInv'
<1> USE Constants DEF MergeResults, pool
<1> DEFINE all == UNION {results[c] : c \in Chunks}
           parts == [c \in Chunks |-> Matches(tokens, c)]
<1>1. /\ Pending = {} /\ Pending' = Pending
      /\ i = NChunks /\ tokens \in Queries /\ q_id \in 1..NLines /\ tokens = input[q_id]
  BY DEF IInv, Places, Pending
<1>2. \A c \in Chunks : CellDone(c)
  BY <1>1 DEF IInv, CellsFilled, Chunks
<1>3. PICK s \in Sorted(all) :
         out' = Append(out, [q_id |-> q_id, answer |-> Resized(s)])
  <2>1. merged_results \cup UNION {results[c] : c \in Chunks} = all
    BY DEF IInv
  <2> QED
    BY <2>1
<1>4. /\ UNION {parts[c] : c \in Chunks} = AllMatches(tokens)
      /\ IsFiniteSet(AllMatches(tokens))
      /\ \A e \in AllMatches(tokens) : e.score \in Nat
  BY <1>1, EngineAssumption DEF AllMatches
<1>5. all \subseteq AllMatches(tokens)
  BY <1>2 DEF CellDone, IsTopK, AllMatches
<1>6. IsFiniteSet(all) /\ \A e \in all : e.score \in Nat
  BY <1>4, <1>5, FS_Subset
<1> DEFINE r == Resized(s)
           R == {r[m] : m \in DOMAIN r}
<1>7. /\ r \in Seq(all)
      /\ \A m, n \in DOMAIN r : m < n => r[m].score >= r[n].score
      /\ IsTopK(K, R, all)
  BY <1>6, ResizedTopK
<1>8. IsTopK(K, R, AllMatches(tokens))
  <2>1. \A c \in Chunks : IsTopK(K, results[c], parts[c])
    BY <1>2 DEF CellDone
  <2>2. \A c \in Chunks : \A e \in parts[c] : e.score \in Nat
    BY <1>1, EngineAssumption
  <2>3. PICK found : found = UNION {results[c] : c \in Chunks}
    OBVIOUS
  <2>4. IsTopK(K, R, found)
    BY <2>3, <1>7
  <2>5. PICK matching : matching = UNION {parts[c] : c \in Chunks}
    OBVIOUS
  <2>6. IsFiniteSet(matching) /\ matching = AllMatches(tokens)
    BY <2>5, <1>4
  <2> HIDE DEF R, parts, MergeResults
  <2>7. IsTopK(K, R, matching)
    BY <2>1, <2>2, <2>3, <2>4, <2>5, <2>6, MergedTopK
  <2> QED
    BY <2>7, <2>6
<1> HIDE DEF r
<1> DEFINE new == [q_id |-> q_id, answer |-> r]
<1>9. out \in Seq([q_id : 1..NLines, answer : Seq(Entries)]) /\ out' = Append(out, new)
  BY <1>3 DEF IInv, TypeOK, r
<1>10. new \in [q_id : 1..NLines, answer : Seq(Entries)]
  <2>1. all \subseteq Entries
    BY <1>5, <1>1 DEF Entries
  <2>2. r \in Seq(Entries)
    BY <2>1, <1>7
  <2> QED
    BY <2>2, <1>1
<1>11. TypeOK'
  <2>1. out' \in Seq([q_id : 1..NLines, answer : Seq(Entries)])
    BY <1>9, <1>10
  <2> QED
    BY <2>1 DEF IInv, TypeOK
<1>12. AnswersAreTopK'
  <2>1. /\ DOMAIN out' = DOMAIN out \cup {Len(out) + 1}
        /\ \A n \in DOMAIN out : out'[n] = out[n]
        /\ out'[Len(out) + 1] = new
    BY <1>9
  <2>2. AnswerIsTopK(new)
    BY <1>1, <1>7, <1>8 DEF AnswerIsTopK
  <2>3. input' = input
    OBVIOUS
  <2> HIDE DEF new, MergeResults
  <2>4. \A n \in DOMAIN out' : AnswerIsTopK(out'[n])
    BY <2>1, <2>2 DEF IInv, AnswersAreTopK
  <2> QED
    BY <2>4, <2>3 DEF AnswersAreTopK, AnswerIsTopK, AllMatches
<1>13. Places' /\ JobsOfLine' /\ CellsFilled'
  BY <1>1 DEF IInv, Places, JobsOfLine, CellsFilled
<1> QED
  BY <1>11, <1>12, <1>13 DEF IInv

\* Every step keeps the invariant.
LEMMA NextIInv == IInv /\ [Next]_vars => IInv'
<1> SUFFICES ASSUME IInv, [Next]_vars PROVE IInv'
  OBVIOUS
<1>1. CASE UNCHANGED vars
  <2> USE <1>1 DEF vars, mine, pool
  <2>1. TypeOK' /\ merged_results' = {}
    BY DEF IInv, TypeOK
  <2>2. Pending' = Pending
    BY DEF Pending
  <2>3. Places' /\ JobsOfLine'
    BY <2>2 DEF IInv, Places, JobsOfLine
  <2>4. CellsFilled'
    BY <2>2 DEF IInv, CellsFilled, CellDone
  <2>5. AnswersAreTopK'
    BY AnswersStay DEF IInv
  <2> QED
    BY <2>1, <2>3, <2>4, <2>5 DEF IInv
<1>2. CASE Next
  BY <1>1, <1>2, QuietStepsKeepIInv, AddKeepsIInv, StartAndCopyKeepIInv, FinishKeepsIInv,
     MergeKeepsIInv DEF Next, Main, Terminated
<1> QED
  BY <1>1, <1>2

-----------------------------------------------------------------------------
(* The theorems.                                                           *)

\* The invariant holds of every behaviour.
THEOREM InductiveInvariant == Spec => []IInv
BY InitIInv, NextIInv, PTL DEF Spec

\* Every variable keeps its type.
THEOREM TypeCorrect == Spec => []TypeOK
<1>1. IInv => TypeOK
  BY DEF IInv
<1> QED
  BY <1>1, InductiveInvariant, PTL

\* What is printed for a line is the best K of the whole collection, best first,
\* for any number of chunks and workers.
THEOREM AnswersCorrect == Spec => []AnswersAreTopK
<1>1. IInv => AnswersAreTopK
  BY DEF IInv
<1> QED
  BY <1>1, InductiveInvariant, PTL

\* The tokens and the cells are let go only when no job is queued or running.
THEOREM NoJobOutlivesItsLine == Spec => LineOutlivesItsJobs
<1>1. IInv /\ [Next]_vars =>
        [(tokens' # tokens \/ out' # out) => (queue = <<>> /\ running = {})]_vars
  <2> SUFFICES ASSUME IInv, Next, tokens' # tokens \/ out' # out
               PROVE  queue = <<>> /\ running = {}
    BY DEF vars, mine
  <2>1. ReadLine \/ MergeResults
    BY DEF Next, Main, Construct, AddJob, WaitAllJobs, EndOfInput, StartJob, CopyTokens,
           FinishJob, PoolReturns, Terminated, vars, mine
  <2>2. Pending = {}
    BY <2>1 DEF IInv, Places, ReadLine, MergeResults
  <2>3. running = {} /\ {queue[n] : n \in DOMAIN queue} = {}
    BY <2>2 DEF Pending
  <2>4. queue \in Seq(Jobs)
    BY DEF IInv, TypeOK
  <2>5. DOMAIN queue = {}
    BY <2>3
  <2>6. \A s \in Seq(Jobs) : DOMAIN s = {} => s = <<>>
    OBVIOUS
  <2> QED
    BY <2>3, <2>4, <2>5, <2>6
<1> QED
  BY <1>1, InductiveInvariant, PTL DEF Spec, LineOutlivesItsJobs

=============================================================================
