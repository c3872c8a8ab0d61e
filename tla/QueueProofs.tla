---------------------------- MODULE QueueProofs ----------------------------
(***************************************************************************)
(* The two queues that are filtered while others add to them: the answers  *)
(* the exam page has still to send (ExamClient), and the retry jobs of     *)
(* the post-submission pipeline (FailureRecovery).  Both invariants rest   *)
(* on what Keep returns, which comes first.  Then come the merge of a      *)
(* batch (AnswerBatch), the page and the server with the record they       *)
(* implement (ExamRecord), and the retry queue with its policy.            *)
(***************************************************************************)
EXTENDS ExamClient, FailureRecovery, FiniteSetTheorems, SequenceTheorems, TLAPS

-----------------------------------------------------------------------------
(* Subsequences.                                                           *)

(* A finite set with an element has a size from 1 on.                      *)
LEMMA SizeOfNonempty ==
    ASSUME NEW S, IsFiniteSet(S), S # {}
    PROVE  Cardinality(S) \in Nat /\ Cardinality(S) >= 1
<1>1. Cardinality(S) \in Nat
  BY FS_CardinalityType
<1>2. Cardinality(S) # 0
  BY FS_EmptySet
<1> QED
  BY <1>1, <1>2

(* A subset is finite and no larger, and smaller when it is proper.        *)
LEMMA SizeOfSubset ==
    ASSUME NEW S, IsFiniteSet(S), NEW T, T \subseteq S
    PROVE  /\ IsFiniteSet(T)
           /\ Cardinality(T) \in Nat /\ Cardinality(S) \in Nat
           /\ Cardinality(T) <= Cardinality(S)
           /\ T # S => Cardinality(T) < Cardinality(S)
<1>1. T \in SUBSET S
  OBVIOUS
<1>2. /\ IsFiniteSet(T) /\ Cardinality(T) <= Cardinality(S)
      /\ Cardinality(S) = Cardinality(T) => S = T
  BY <1>1, FS_Subset
<1>3. Cardinality(T) \in Nat /\ Cardinality(S) \in Nat
  BY <1>2, FS_CardinalityType
<1> QED
  BY <1>2, <1>3

(* The first n numbers.                                                    *)
LEMMA SizeOfInterval ==
    ASSUME NEW n \in Nat
    PROVE  IsFiniteSet(1..n) /\ Cardinality(1..n) = n
  BY FS_Interval

(* Ranking numbers the positions P of a sequence from 1, without a gap.    *)
LEMMA RankNumbers ==
    ASSUME NEW n \in Nat, NEW P \in SUBSET (1..n)
    PROVE  /\ IsFiniteSet(P)
           /\ Cardinality(P) \in Nat
           /\ [i \in P |-> Rank(P, i)] \in Bijection(P, 1..Cardinality(P))
<1> DEFINE Low(i) == {k \in P : k <= i}
           f == [i \in P |-> Rank(P, i)]
<1>1. IsFiniteSet(P) /\ Cardinality(P) \in Nat
  <2>1. IsFiniteSet(1..n) /\ P \subseteq 1..n
    BY FS_Interval
  <2> QED
    BY <2>1, SizeOfSubset
<1>a. \A i \in P : Low(i) \subseteq P /\ i \in Low(i)
                 /\ Rank(P, i) = Cardinality(Low(i))
  BY DEF Rank
<1>b. ASSUME NEW i \in P, NEW j \in P, i < j
      PROVE  Low(i) \subseteq Low(j) /\ j \notin Low(i)
  <2>1. i \in Int /\ j \in Int /\ \A k \in P : k \in Int
    OBVIOUS
  <2>2. ASSUME NEW k \in P, k <= i PROVE k <= j
    BY <1>b, <2>1, <2>2
  <2>3. ~(j <= i)
    BY <1>b, <2>1
  <2> QED
    BY <2>2, <2>3
<1> HIDE DEF Low
<1>2. ASSUME NEW i \in P
      PROVE  IsFiniteSet(Low(i)) /\ Rank(P, i) \in 1..Cardinality(P)
  <2>1. /\ IsFiniteSet(Low(i)) /\ Cardinality(Low(i)) \in Nat
        /\ Cardinality(Low(i)) <= Cardinality(P)
    BY <1>1, <1>a, SizeOfSubset
  <2>2. Low(i) # {}
    BY <1>a
  <2>3. Cardinality(Low(i)) >= 1
    BY <2>1, <2>2, SizeOfNonempty
  <2> QED
    BY <1>1, <1>a, <2>1, <2>3
<1>3. ASSUME NEW i \in P, NEW j \in P, i < j PROVE Rank(P, i) # Rank(P, j)
  <2>1. Low(i) \subseteq Low(j) /\ Low(i) # Low(j) /\ IsFiniteSet(Low(j))
    BY <1>2, <1>3, <1>a, <1>b
  <2>2. Cardinality(Low(i)) < Cardinality(Low(j))
        /\ Cardinality(Low(i)) \in Nat /\ Cardinality(Low(j)) \in Nat
    BY <2>1, SizeOfSubset
  <2> QED
    BY <1>a, <2>2
<1>4. f \in Injection(P, 1..Cardinality(P))
  <2>1. f \in [P -> 1..Cardinality(P)]
    BY <1>2
  <2>2. \A i, j \in P : f[i] = f[j] => i = j
    BY <1>3
  <2> QED
    BY <2>1, <2>2 DEF Injection, IsInjective
<1>5. /\ IsFiniteSet(1..Cardinality(P))
      /\ Cardinality(1..Cardinality(P)) = Cardinality(P)
  BY <1>1, FS_Interval
<1>6. f \in Surjection(P, 1..Cardinality(P))
  BY <1>4, <1>5, FS_Injection
<1> QED
  BY <1>1, <1>4, <1>6 DEF Bijection

(* A set of positions has a last one.                                      *)
LEMMA LastPosition ==
    ASSUME NEW n \in Nat, NEW P \in SUBSET (1..n), P # {}
    PROVE  \E m \in P : \A k \in P : k <= m
<1>1. /\ IsFiniteSet(P) /\ Cardinality(P) \in Nat
      /\ \A c \in 1..Cardinality(P) : \E i \in P : Rank(P, i) = c
  <2>1. [i \in P |-> Rank(P, i)] \in Surjection(P, 1..Cardinality(P))
    BY RankNumbers DEF Bijection
  <2> QED
    BY <2>1, RankNumbers DEF Surjection
<1>2. Cardinality(P) # 0
  BY <1>1, FS_EmptySet
<1>3. PICK m \in P : Rank(P, m) = Cardinality(P)
  BY <1>1, <1>2
<1>4. {k \in P : k <= m} = P
  <2> DEFINE Low == {k \in P : k <= m}
  <2>1. Low \subseteq P /\ Cardinality(P) = Cardinality(Low)
    BY <1>3 DEF Rank
  <2> HIDE DEF Low
  <2>2. P = Low
    <3>1. IsFiniteSet(P) /\ Cardinality(P) \in Nat
      BY <1>1
    <3>2. Low # P => Cardinality(Low) < Cardinality(P)
      BY <2>1, <3>1, SizeOfSubset
    <3> QED
      BY <2>1, <3>1, <3>2
  <2> QED
    BY <2>2 DEF Low
<1> QED
  BY <1>4

(* Keep returns the elements at the positions P, each of them once.        *)
LEMMA KeepNumbers ==
    ASSUME NEW T, NEW s \in Seq(T), NEW P \in SUBSET DOMAIN s
    PROVE  /\ Keep(s, P) \in Seq(T)
           /\ Len(Keep(s, P)) <= Len(s)
           /\ \E f \in [DOMAIN Keep(s, P) -> P] :
                /\ \A m \in DOMAIN Keep(s, P) : Keep(s, P)[m] = s[f[m]]
                /\ \A m, k \in DOMAIN Keep(s, P) : f[m] = f[k] => m = k
                /\ \A i \in P : \E m \in DOMAIN Keep(s, P) : f[m] = i
<1> DEFINE C == Cardinality(P)
           f == [m \in 1..C |-> CHOOSE i \in P : Rank(P, i) = m]
<1>1. Len(s) \in Nat /\ DOMAIN s = 1..Len(s)
  BY LenProperties
<1>2. /\ C \in Nat
      /\ [i \in P |-> Rank(P, i)] \in Bijection(P, 1..C)
  BY <1>1, RankNumbers
<1>3. C <= Len(s)
  <2>1. IsFiniteSet(1..Len(s)) /\ Cardinality(1..Len(s)) = Len(s)
    BY <1>1, SizeOfInterval
  <2>2. P \subseteq 1..Len(s)
    BY <1>1
  <2> QED
    BY <2>1, <2>2, SizeOfSubset
<1>4. /\ \A i \in P : Rank(P, i) \in 1..C
      /\ \A i, j \in P : Rank(P, i) = Rank(P, j) => i = j
      /\ \A m \in 1..C : \E i \in P : Rank(P, i) = m
  <2> DEFINE r == [i \in P |-> Rank(P, i)]
  <2>1. /\ r \in [P -> 1..C]
        /\ \A i, j \in P : r[i] = r[j] => i = j
        /\ \A m \in 1..C : \E i \in P : r[i] = m
    BY <1>2 DEF Bijection, Injection, Surjection, IsInjective
  <2>2. \A i \in P : r[i] = Rank(P, i)
    OBVIOUS
  <2> QED
    BY <2>1, <2>2
<1>5. \A m \in 1..C : f[m] \in P /\ Rank(P, f[m]) = m
  BY <1>4
<1>6. Keep(s, P) = [m \in 1..C |-> s[f[m]]]
  BY DEF Keep
<1>7. \A m \in 1..C : s[f[m]] \in T
  BY <1>1, <1>5, ElementOfSeq
<1>8. Keep(s, P) \in Seq(T) /\ Len(Keep(s, P)) = C /\ DOMAIN Keep(s, P) = 1..C
  <2> HIDE DEF C, f
  <2>1. Keep(s, P) \in [1..C -> T]
    BY <1>6, <1>7
  <2> QED
    BY <1>2, <2>1
<1>9. f \in [1..C -> P]
  BY <1>5
<1>10. \A m \in 1..C : Keep(s, P)[m] = s[f[m]]
  BY <1>6
<1>11. \A m, k \in 1..C : f[m] = f[k] => m = k
  BY <1>5
<1>12. \A i \in P : \E m \in 1..C : f[m] = i
  BY <1>4, <1>5
<1>13. /\ Keep(s, P) \in Seq(T)
       /\ Len(Keep(s, P)) <= Len(s)
  BY <1>3, <1>8
<1> HIDE DEF f, C
<1>14. /\ f \in [DOMAIN Keep(s, P) -> P]
       /\ \A m \in DOMAIN Keep(s, P) : Keep(s, P)[m] = s[f[m]]
       /\ \A m, k \in DOMAIN Keep(s, P) : f[m] = f[k] => m = k
       /\ \A i \in P : \E m \in DOMAIN Keep(s, P) : f[m] = i
  <2>1. DOMAIN Keep(s, P) = 1..C
    BY <1>8
  <2> QED
    BY ONLY <2>1, <1>9, <1>10, <1>11, <1>12
<1>15. \E g \in [DOMAIN Keep(s, P) -> P] :
          /\ \A m \in DOMAIN Keep(s, P) : Keep(s, P)[m] = s[g[m]]
          /\ \A m, k \in DOMAIN Keep(s, P) : g[m] = g[k] => m = k
          /\ \A i \in P : \E m \in DOMAIN Keep(s, P) : g[m] = i
  BY ONLY <1>14
<1> QED
  BY ONLY <1>13, <1>15

-----------------------------------------------------------------------------
(* The merge of a batch into the sheet.                                    *)

Answers == Writes(Clock)
Sheets == [Questions -> [option : Responses \cup {Absent},
                         at : Clock \cup {-1}, spent : Nat]]

\* A batch has at most one write of a question.
OneEach(batch) ==
  \A i, j \in DOMAIN batch : batch[i].question = batch[j].question => i = j

(* What an answer is made of.                                              *)
LEMMA AnswerFields ==
    ASSUME NEW w \in Answers
    PROVE  /\ w.question \in Questions /\ w.option \in Responses
           /\ w.at \in Nat /\ w.at <= Horizon
           /\ w.spent \in Nat /\ w.spent <= Horizon
  BY ExamClientAssumption DEF Answers, Writes, Clock

(* What the sheet holds of a question.                                     *)
LEMMA SheetFields ==
    ASSUME NEW s \in Sheets, NEW q \in Questions
    PROVE  /\ s[q].option \in Responses \cup {Absent}
           /\ s[q].at \in Int /\ s[q].at >= -1 /\ s[q].at <= Horizon
           /\ s[q].spent \in Nat
  BY ExamClientAssumption DEF Sheets, Clock

(* What a write adds.                                                      *)
LEMMA DeltaIs ==
    ASSUME NEW s \in Sheets, NEW w \in Answers
    PROVE  /\ Delta(s, w) \in Nat
           /\ w.at > s[w.question].at => Delta(s, w) = w.spent
           /\ w.at <= s[w.question].at => Delta(s, w) = 0
<1>1. /\ w.question \in Questions /\ w.at \in Nat /\ w.spent \in Nat
      /\ s[w.question].at \in Int
  BY AnswerFields, SheetFields
<1> QED
  BY <1>1 DEF Delta, Replay

(* A question of the sheet is as it was, every write of the batch older, or *)
(* it is that of a write of the batch, not older.                           *)
LEMMA MergedIs ==
    ASSUME NEW s \in Sheets, NEW b \in Seq(Answers), OneEach(b)
    PROVE  /\ Merged(s, b) \in Sheets
           /\ \A q \in Questions :
                \/ /\ Merged(s, b)[q] = s[q]
                   /\ \A i \in DOMAIN b : b[i].question = q => b[i].at < s[q].at
                \/ \E i \in Fresh(s, b) :
                     /\ b[i].question = q /\ b[i].at >= s[q].at
                     /\ Merged(s, b)[q] =
                          [option |-> b[i].option, at |-> b[i].at,
                           spent |-> s[q].spent + Delta(s, b[i])]
<1>1. \A i \in DOMAIN b : b[i] \in Answers
  BY LenProperties, ElementOfSeq
<1>2. ASSUME NEW q \in Questions
      PROVE  \/ /\ Merged(s, b)[q] = s[q]
                /\ \A i \in DOMAIN b : b[i].question = q => b[i].at < s[q].at
             \/ \E i \in Fresh(s, b) :
                  /\ b[i].question = q /\ b[i].at >= s[q].at
                  /\ Merged(s, b)[q] =
                       [option |-> b[i].option, at |-> b[i].at,
                        spent |-> s[q].spent + Delta(s, b[i])]
  <2> DEFINE mine == {i \in Fresh(s, b) : b[i].question = q}
  <2>1. CASE mine = {}
    <3>1. Merged(s, b)[q] = s[q]
      BY <2>1 DEF Merged
    <3>2. \A i \in DOMAIN b : b[i].question = q => b[i].at < s[q].at
      BY <2>1 DEF Fresh, Stale
    <3> QED
      BY <3>1, <3>2
  <2>2. CASE mine # {}
    <3>1. PICK i \in mine : TRUE
      BY <2>2
    <3>2. i \in Fresh(s, b) /\ i \in DOMAIN b /\ i \in Nat /\ b[i].question = q
      BY <3>1, LenProperties DEF Fresh
    <3>3. \A j \in mine : j = i
      BY <3>2 DEF Fresh, OneEach
    <3>4. (CHOOSE k \in mine : \A j \in mine : j <= k) = i
      BY <3>1, <3>2, <3>3
    <3>5. Merged(s, b)[q] = [option |-> b[i].option, at |-> b[i].at,
                             spent |-> s[q].spent + Delta(s, b[i])]
      BY <2>2, <3>4 DEF Merged
    <3>6. b[i] \in Answers
      BY <1>1, <3>2
    <3>7. b[i].at \in Nat /\ s[q].at \in Int
      BY <3>6, AnswerFields, SheetFields
    <3>8. b[i].at >= s[q].at
      BY <3>2, <3>7 DEF Fresh, Stale
    <3> QED
      BY <3>2, <3>5, <3>8
  <2> QED
    BY <2>1, <2>2
<1>3. ASSUME NEW q \in Questions
      PROVE  Merged(s, b)[q] \in [option : Responses \cup {Absent},
                                  at : Clock \cup {-1}, spent : Nat]
  <2>1. CASE Merged(s, b)[q] = s[q]
    BY <2>1 DEF Sheets
  <2>2. CASE Merged(s, b)[q] # s[q]
    <3>1. PICK i \in DOMAIN b :
            Merged(s, b)[q] = [option |-> b[i].option, at |-> b[i].at,
                               spent |-> s[q].spent + Delta(s, b[i])]
      BY <1>2, <2>2 DEF Fresh
    <3>2. b[i] \in Answers
      BY <1>1
    <3>3. s[q].spent \in Nat /\ Delta(s, b[i]) \in Nat
      BY <3>2, SheetFields, DeltaIs
    <3> QED
      BY <3>1, <3>2, <3>3 DEF Answers, Writes
  <2> QED
    BY <2>1, <2>2
<1>4. Merged(s, b) = [q \in Questions |-> Merged(s, b)[q]]
  BY DEF Merged
<1>5. Merged(s, b) \in Sheets
  BY <1>3, <1>4 DEF Sheets
<1> QED
  BY <1>2, <1>5

(* Finitely many numbers of units are finitely many units.                 *)
LEMMA UnitsAreFinite ==
    ASSUME NEW I, IsFiniteSet(I), NEW size \in [I -> Nat]
    PROVE  IsFiniteSet(UNION {{j} \X (1..size[j]) : j \in I})
<1> DEFINE f == [j \in I |-> {j} \X (1..size[j])]
           U == {{j} \X (1..size[j]) : j \in I}
<1>1. f \in Surjection(I, U)
  BY DEF Surjection
<1>2. ASSUME NEW j \in I PROVE IsFiniteSet({j} \X (1..size[j]))
  <2>1. IsFiniteSet({j})
    BY FS_Singleton
  <2>2. IsFiniteSet(1..size[j])
    BY SizeOfInterval
  <2> QED
    BY <2>1, <2>2, FS_Product
<1>3. \A T \in U : IsFiniteSet(T)
  BY <1>2
<1> HIDE DEF f, U
<1>4. IsFiniteSet(U)
  BY <1>1, FS_Surjection
<1>5. IsFiniteSet(UNION U)
  BY <1>3, <1>4, FS_UNION
<1> QED
  BY <1>5 DEF U

(* The total of a valid batch bounds the stored times: the last write that  *)
(* is not ignored has been compared with all of them.                       *)
LEMMA MergedTotal ==
    ASSUME NEW s \in Sheets, NEW b \in Seq(Answers), OneEach(b), Valid(s, b),
           Fresh(s, b) # {}
    PROVE  \E q \in Questions :
             /\ Merged(s, b)[q].option # Absent
             /\ TotalSpent(Merged(s, b)) <= Merged(s, b)[q].at + Tolerance
<1> DEFINE F == Fresh(s, b)
           m == Merged(s, b)
<1>1. /\ Len(b) \in Nat /\ F \in SUBSET (1..Len(b))
      /\ \A i \in F : b[i] \in Answers
  BY LenProperties, ElementOfSeq DEF Fresh
<1>2. PICK last \in F : \A k \in F : k <= last
  BY <1>1, LastPosition
<1> DEFINE A == Added(s, b, last)
           size == [j \in F |-> Delta(s, b[j])]
           old == [q \in Questions |-> s[q].spent]
           g == [u \in A |-> <<b[u[1]].question,
                              s[b[u[1]].question].spent + u[2]>>]
           T == {g[u] : u \in A}
<1>3. A = UNION {{j} \X (1..size[j]) : j \in F}
  <2>1. {k \in F : k <= last} = F
    BY <1>2
  <2> QED
    BY <2>1 DEF Added
<1>4. IsFiniteSet(A) /\ Cardinality(A) \in Nat
  <2>1. IsFiniteSet(F)
    BY <1>1, RankNumbers
  <2>2. size \in [F -> Nat]
    BY <1>1, DeltaIs
  <2>3. IsFiniteSet(A)
    <3> HIDE DEF A, size, F
    <3> QED
      BY <1>3, <2>1, <2>2, UnitsAreFinite
  <2> QED
    BY <2>3, FS_CardinalityType
<1>5. IsFiniteSet(Units(s)) /\ Cardinality(Units(s)) \in Nat
  <2>1. old \in [Questions -> Nat]
    BY SheetFields
  <2>2. Units(s) = UNION {{q} \X (1..old[q]) : q \in Questions}
    BY DEF Units
  <2>3. IsFiniteSet(Units(s))
    <3> HIDE DEF old
    <3> QED
      BY <2>1, <2>2, UnitsAreFinite, AnswerBatchAssumption
  <2> QED
    BY <2>3, FS_CardinalityType
<1>6. IsFiniteSet(T) /\ Cardinality(T) <= Cardinality(A)
  <2>1. g \in Surjection(A, T)
    BY DEF Surjection
  <2> HIDE DEF g, T, A
  <2> QED
    BY <1>4, <2>1, FS_Surjection
<1>7. Units(m) \subseteq Units(s) \cup T
  <2> SUFFICES ASSUME NEW q \in Questions, NEW n \in 1..m[q].spent
               PROVE  <<q, n>> \in Units(s) \cup T
    BY DEF Units
  <2>1. s[q].spent \in Nat /\ n \in Nat /\ n >= 1
    BY SheetFields
  <2>2. CASE n <= s[q].spent
    BY <2>1, <2>2 DEF Units
  <2>3. CASE ~(n <= s[q].spent)
    <3>1. m[q] # s[q]
      BY <2>1, <2>3
    <3>2. PICK i \in F : b[i].question = q
                         /\ m[q].spent = s[q].spent + Delta(s, b[i])
      <4>1. PICK i \in F : /\ b[i].question = q
                           /\ m[q] = [option |-> b[i].option, at |-> b[i].at,
                                      spent |-> s[q].spent + Delta(s, b[i])]
        BY <3>1, MergedIs
      <4> HIDE DEF m
      <4> QED
        BY <4>1
    <3>3. Delta(s, b[i]) \in Nat
      BY <1>1, DeltaIs
    <3>4. n - s[q].spent \in 1..size[i]
      BY <2>1, <2>3, <3>2, <3>3
    <3>5. <<i, n - s[q].spent>> \in A
      BY <1>3, <3>4
    <3>6. g[<<i, n - s[q].spent>>] = <<q, n>>
      BY <2>1, <3>2, <3>5
    <3> QED
      BY <3>5, <3>6
  <2> QED
    BY <2>2, <2>3
<1>8. Cardinality(Units(m)) <= Cardinality(Units(s)) + Cardinality(A)
  <2> HIDE DEF A, T, m
  <2>1. /\ IsFiniteSet(Units(s) \cup T)
        /\ Cardinality(Units(s) \cup T) =
             Cardinality(Units(s)) + Cardinality(T) - Cardinality(Units(s) \cap T)
    BY <1>5, <1>6, FS_Union
  <2>2. IsFiniteSet(Units(s) \cap T) /\ Cardinality(Units(s) \cap T) \in Nat
    BY <1>6, SizeOfSubset
  <2>3. /\ Cardinality(Units(m)) <= Cardinality(Units(s) \cup T)
        /\ Cardinality(Units(m)) \in Nat /\ Cardinality(Units(s) \cup T) \in Nat
    BY <1>7, <2>1, SizeOfSubset
  <2>4. Cardinality(T) \in Nat
    BY <1>6, FS_CardinalityType
  <2> QED
    BY <1>4, <1>5, <1>6, <2>1, <2>2, <2>3, <2>4
<1>9. TotalSpent(s) + Cardinality(A) <= b[last].at + Tolerance
  BY <1>2 DEF Valid, Fits, Projected
<1>10. b[last] \in Answers /\ b[last].question \in Questions
       /\ b[last].at \in Nat /\ b[last].option \in Responses
  BY <1>1, AnswerFields
<1>11. m[b[last].question].at = b[last].at
       /\ m[b[last].question].option = b[last].option
  <2> DEFINE q == b[last].question
  <2>1. ~(b[last].at < s[q].at) /\ last \in DOMAIN b
    BY <1>2 DEF Fresh, Stale
  <2>2. PICK i \in F : /\ b[i].question = q
                       /\ m[q] = [option |-> b[i].option, at |-> b[i].at,
                                  spent |-> s[q].spent + Delta(s, b[i])]
    <3>1. q \in Questions /\ b[last].question = q
      BY <1>10
    <3>2. \/ /\ m[q] = s[q]
             /\ \A i \in DOMAIN b : b[i].question = q => b[i].at < s[q].at
          \/ \E i \in F :
               /\ b[i].question = q /\ b[i].at >= s[q].at
               /\ m[q] = [option |-> b[i].option, at |-> b[i].at,
                          spent |-> s[q].spent + Delta(s, b[i])]
      BY <1>2, <3>1, MergedIs
    <3>3. ~(\A i \in DOMAIN b : b[i].question = q => b[i].at < s[q].at)
      BY <2>1, <3>1
    <3> HIDE DEF q, m, F
    <3> QED
      BY ONLY <3>2, <3>3
  <2>3. i = last
    BY <2>1, <2>2 DEF OneEach, Fresh
  <2> QED
    BY <2>2, <2>3
<1>12. Cardinality(Units(m)) <= b[last].at + Tolerance
  <2>1. Cardinality(Units(m)) \in Nat
    <3>1. IsFiniteSet(Units(s) \cup T)
      BY <1>5, <1>6, FS_Union
    <3> QED
      BY <1>7, <3>1, SizeOfSubset
  <2> HIDE DEF m, A
  <2> QED
    BY <1>4, <1>5, <1>8, <1>9, <1>10, <2>1, AnswerBatchAssumption DEF TotalSpent
<1>13. b[last].option # Absent
  BY <1>10, AnswerBatchAssumption DEF Responses
<1> QED
  BY <1>10, <1>11, <1>12, <1>13 DEF TotalSpent

-----------------------------------------------------------------------------
(* The page's queue.                                                       *)

(* What is sent: the first answers of the queue, at most MaxBatch.         *)
LEMMA FirstOfIs ==
    ASSUME NEW s \in Seq(Answers), OneEach(s)
    PROVE  /\ FirstOf(s) \in Seq(Answers) /\ OneEach(FirstOf(s))
           /\ s # <<>> => Len(FirstOf(s)) \in 1..MaxBatch
           /\ s = <<>> => FirstOf(s) = <<>>
           /\ \A i \in DOMAIN FirstOf(s) : i \in DOMAIN s /\ FirstOf(s)[i] = s[i]
<1> DEFINE n == IF Len(s) < MaxBatch THEN Len(s) ELSE MaxBatch
<1>1. /\ Len(s) \in Nat /\ DOMAIN s = 1..Len(s)
      /\ n \in 0..Len(s) /\ n <= MaxBatch
      /\ s # <<>> => n >= 1
  BY LenProperties, EmptySeq, AnswerBatchAssumption
<1>2. FirstOf(s) = SubSeq(s, 1, n)
  BY DEF FirstOf
<1>3. /\ FirstOf(s) \in Seq(Answers) /\ Len(FirstOf(s)) = n
      /\ \A i \in 1..n : FirstOf(s)[i] = s[i]
  <2>1. \A i \in 1..n : i \in DOMAIN s
    BY <1>1
  <2> HIDE DEF n
  <2> QED
    BY <1>1, <1>2, <2>1, SubSeqProperties
<1>4. DOMAIN FirstOf(s) = 1..n
  BY <1>3, LenProperties
<1>5. \A i \in 1..n : i \in DOMAIN s
  BY <1>1
<1>6. OneEach(FirstOf(s))
  BY <1>3, <1>4, <1>5 DEF OneEach
<1>7. s = <<>> => FirstOf(s) = <<>>
  <2>1. s = <<>> => n = 0
    BY EmptySeq, AnswerBatchAssumption
  <2> QED
    BY <1>3, <2>1, EmptySeq
<1> QED
  BY <1>1, <1>3, <1>4, <1>5, <1>6, <1>7, AnswerBatchAssumption

(* A write takes the place of its question's write, or comes last.         *)
LEMMA QueueIs ==
    ASSUME NEW s \in Seq(Answers), OneEach(s), NEW w \in Answers
    PROVE  /\ Queue(s, w) \in Seq(Answers) /\ OneEach(Queue(s, w))
           /\ \A i \in DOMAIN Queue(s, w) :
                Queue(s, w)[i] = w \/ \E j \in DOMAIN s : Queue(s, w)[i] = s[j]
           /\ \E i \in DOMAIN Queue(s, w) : Queue(s, w)[i] = w
           /\ \A j \in DOMAIN s : s[j].question # w.question =>
                \E i \in DOMAIN Queue(s, w) : Queue(s, w)[i] = s[j]
<1> DEFINE t == Queue(s, w)
<1>1. Len(s) \in Nat /\ DOMAIN s = 1..Len(s) /\ \A i \in DOMAIN s : s[i] \in Answers
  BY LenProperties, ElementOfSeq
<1>2. CASE \E i \in DOMAIN s : s[i].question = w.question
  <2>1. t = [i \in DOMAIN s |-> IF s[i].question = w.question THEN w ELSE s[i]]
    BY <1>2 DEF Queue
  <2>2. t \in [1..Len(s) -> Answers]
    BY <1>1, <2>1
  <2>3. t \in Seq(Answers) /\ DOMAIN t = DOMAIN s
    BY <1>1, <2>1, <2>2
  <2>4. \A i \in DOMAIN s : t[i] = IF s[i].question = w.question THEN w ELSE s[i]
    BY <2>1
  <2>5. OneEach(t)
    BY <2>3, <2>4 DEF OneEach
  <2>6. PICK i \in DOMAIN s : s[i].question = w.question
    BY <1>2
  <2>7. t[i] = w
    BY <2>4, <2>6
  <2> HIDE DEF t
  <2> QED
    BY <2>3, <2>4, <2>5, <2>7 DEF t
<1>3. CASE ~\E i \in DOMAIN s : s[i].question = w.question
  <2>1. t = Append(s, w)
    BY <1>3 DEF Queue
  <2>2. /\ t \in Seq(Answers) /\ Len(t) = Len(s) + 1
        /\ \A i \in 1..Len(s) : t[i] = s[i]
        /\ t[Len(s) + 1] = w
    BY <2>1, AppendProperties
  <2>3. DOMAIN t = 1..Len(s) + 1
    BY <2>2, LenProperties
  <2>4. \A i \in DOMAIN t : i \in DOMAIN s \/ i = Len(s) + 1
    BY <1>1, <2>3
  <2>5. /\ \A i \in DOMAIN s : i \in DOMAIN t /\ t[i] = s[i]
        /\ Len(s) + 1 \in DOMAIN t
    BY <1>1, <2>2, <2>3
  <2>6. OneEach(t)
    BY <1>3, <2>2, <2>4, <2>5 DEF OneEach
  <2> HIDE DEF t
  <2> QED
    BY <2>2, <2>4, <2>5, <2>6 DEF t
<1> QED
  BY <1>2, <1>3

(* The reply to a batch leaves the writes of the other questions.          *)
LEMMA UnsettledIs ==
    ASSUME pending \in Seq(Answers), OneEach(pending), NEW f
    PROVE  /\ Unsettled(f) \in Seq(Answers) /\ OneEach(Unsettled(f))
           /\ \A i \in DOMAIN Unsettled(f) :
                \E j \in DOMAIN pending : Unsettled(f)[i] = pending[j]
           /\ \A j \in DOMAIN pending : pending[j].question \notin Settled(f) =>
                \E i \in DOMAIN Unsettled(f) : Unsettled(f)[i] = pending[j]
<1> DEFINE P == {i \in DOMAIN pending : pending[i].question \notin Settled(f)}
<1>1. Unsettled(f) = Keep(pending, P) /\ P \in SUBSET DOMAIN pending
  BY DEF Unsettled
<1>2. \A j \in DOMAIN pending : pending[j].question \notin Settled(f) => j \in P
  OBVIOUS
<1> HIDE DEF P
<1>3. Unsettled(f) \in Seq(Answers)
  BY <1>1, KeepNumbers
<1>4. PICK g \in [DOMAIN Unsettled(f) -> P] :
        /\ \A m \in DOMAIN Unsettled(f) : Unsettled(f)[m] = pending[g[m]]
        /\ \A m, k \in DOMAIN Unsettled(f) : g[m] = g[k] => m = k
        /\ \A i \in P : \E m \in DOMAIN Unsettled(f) : g[m] = i
  BY <1>1, KeepNumbers
<1>5. OneEach(Unsettled(f))
  BY <1>1, <1>4 DEF OneEach
<1> QED
  BY <1>1, <1>2, <1>3, <1>4, <1>5

-----------------------------------------------------------------------------
(* The inductive invariant of the exam page and the server.                *)

\* The sheet has the answers of a batch, or newer ones.
OnSheet(batch) ==
  \A i \in DOMAIN batch : sheet[batch[i].question].at >= batch[i].at

FlightsAreSound ==
  \A f \in flights :
    /\ OneEach(f.answers)
    /\ f.stage # "sent" => f.awaited
    /\ f.stage = "ok" => OnSheet(f.answers)

\* The flight a submission waits for is the only one, and carries "final".
LastFlush ==
  /\ \A f \in flights : f.for = "submit" /\ f.awaited =>
       phase = "flush" /\ f.answers = final
  /\ \A f, g \in flights :
       f.for = "submit" /\ f.awaited /\ g.for = "submit" /\ g.awaited => f = g

\* Nothing of a question is of the future.
Past(q) ==
  /\ spent[q] <= now /\ sheet[q].at <= now
  /\ sheet[q].option = Absent <=> sheet[q].at = -1
  /\ \A w \in WritesOf(q) : w.at <= now

\* Two writes of a question at the same time are the same write: only a
\* submission queues a question twice without a change.
SameMoment(q) ==
  /\ \A v, w \in WritesOf(q) : v.at = w.at => v = w
  /\ \A w \in WritesOf(q) : w.at = sheet[q].at => w.option = sheet[q].option
  /\ \A w \in WritesOf(q) : w.at = now => w.option = shown[q] /\ w.spent = spent[q]
  /\ sheet[q].at = now => sheet[q].option = shown[q]

\* A question's first answer is the only one there is, as long as it is.
FirstAnswer(q) ==
  /\ writes[q] = 0 => WritesOf(q) = {} /\ sheet[q].option = Absent
  /\ writes[q] = 1 =>
       /\ \A w \in WritesOf(q) : w.option = shown[q]
       /\ sheet[q].option = Absent =>
            \E i \in DOMAIN pending : pending[i].question = q
       /\ sheet[q].option \in {Absent, shown[q]}

\* The units of time of the writes of W newer than t, each write known by its
\* own time.
NewerUnits(W, t) ==
  UNION {{w.at} \X (1..w.spent) : w \in {v \in W : v.at > t}}

\* The time counted and the time that may still be counted are together no
\* more than the time reported.
TimeReserved(q) ==
  sheet[q].spent + Cardinality(NewerUnits(WritesOf(q), sheet[q].at)) <= reported[q]

QuestionInv(q) == Past(q) /\ SameMoment(q) /\ FirstAnswer(q) /\ TimeReserved(q)

ExamInv ==
  /\ TypeOK
  /\ FlightsAreSound
  /\ LastFlush
  /\ FlushedBeforePost
  /\ TimeWithinElapsed
  /\ \A q \in Questions : QuestionInv(q)

-----------------------------------------------------------------------------
(* Types.                                                                  *)

(* The types the argument uses, with the flights taken apart.              *)
LEMMA TypeParts ==
    ASSUME TypeOK
    PROVE  /\ pending \in Seq(Answers) /\ OneEach(pending) /\ sheet \in Sheets
           /\ final \in Seq(Answers)
           /\ \A f \in flights :
                /\ f.answers \in Seq(Answers) /\ f.stage \in {"sent", "ok", "refused"}
                /\ f.for \in {"sync", "submit"} /\ f.awaited \in BOOLEAN
                /\ f.sentAt \in Clock /\ Len(f.answers) \in 1..MaxBatch
  BY DEF TypeOK, Answers, Sheets, OneEach, Flights

(* What the page sends: the first answers of its queue.                    *)
LEMMA FlightIs ==
    ASSUME TypeOK, pending # <<>>, NEW purpose \in {"sync", "submit"}
    PROVE  /\ Flight(purpose) \in Flights
           /\ Flight(purpose).answers = FirstOf(pending)
           /\ Len(Flight(purpose).answers) \in 1..MaxBatch
           /\ Flight(purpose).stage = "sent" /\ Flight(purpose).awaited
           /\ Flight(purpose).for = purpose
<1>1. pending \in Seq(Answers) /\ OneEach(pending)
  BY TypeParts
<1>2. FirstOf(pending) \in Seq(Writes(Clock)) /\ Len(FirstOf(pending)) \in 1..MaxBatch
  BY <1>1, FirstOfIs DEF Answers
<1>3. now \in Clock /\ now - lastWrite \in Int
  BY ExamClientAssumption, AnswerBatchAssumption DEF TypeOK, Clock
<1> QED
  BY <1>2, <1>3 DEF Flight, Flights

(* A batch leaves a sheet of answers.                                      *)
LEMMA SheetStaysTyped ==
    ASSUME TypeOK, NEW b \in Seq(Answers), OneEach(b), NEW since
    PROVE  AfterBatch(status, sheet, b, since) \in Sheets
  BY TypeParts, MergedIs DEF AfterBatch

(* Queueing an answer keeps the types.                                     *)
LEMMA QueueAnswerTyped ==
    ASSUME TypeOK, NEW q \in Questions, NEW r \in Responses, QueueAnswer(q, r)
    PROVE  /\ WriteOf(q, r) \in Answers
           /\ pending' \in Seq(Answers) /\ OneEach(pending')
           /\ writes' \in [Questions -> 0..MaxWrites]
           /\ reported' \in [Questions -> Nat]
<1>1. WriteOf(q, r) \in Answers
  BY DEF TypeOK, WriteOf, Answers, Writes
<1>2. pending' \in Seq(Answers) /\ OneEach(pending')
  BY <1>1, TypeParts, QueueIs DEF QueueAnswer
<1>3. writes' \in [Questions -> 0..MaxWrites]
  <2>1. writes[q] + 1 \in 0..MaxWrites
    BY ExamClientAssumption DEF TypeOK, QueueAnswer
  <2>2. writes' = [writes EXCEPT ![q] = writes[q] + 1]
    BY DEF QueueAnswer
  <2>3. writes \in [Questions -> 0..MaxWrites]
    BY DEF TypeOK
  <2> QED
    BY ONLY <2>1, <2>2, <2>3
<1>4. reported' \in [Questions -> Nat]
  <2>1. reported[q] + spent[q] \in Nat
    BY ExamClientAssumption DEF TypeOK, Clock
  <2>2. reported' = [reported EXCEPT ![q] = reported[q] + spent[q]]
    BY DEF QueueAnswer
  <2>3. reported \in [Questions -> Nat]
    BY DEF TypeOK
  <2> QED
    BY ONLY <2>1, <2>2, <2>3
<1> QED
  BY <1>1, <1>2, <1>3, <1>4

(* Beginning a submission keeps the types.                                 *)
LEMMA BeginTyped ==
    ASSUME TypeOK, NEW why \in {"manual", "expiry"}, BeginSubmission(why)
    PROVE  /\ phase' \in {"flush", "post"} /\ reason' = why
           /\ final' \in Seq(Answers)
           /\ flights' \subseteq Flights
           /\ \A f \in flights' : Len(f.answers) \in 1..MaxBatch
           /\ post' \in {"none", "sent", "served"}
<1>1. final' \in Seq(Answers) /\ reason' = why
  BY TypeParts, FirstOfIs DEF BeginSubmission
<1>2. CASE pending = <<>>
  BY <1>1, <1>2 DEF BeginSubmission, TypeOK
<1>3. CASE pending # <<>>
  <2>1. /\ Flight("submit") \in Flights
        /\ Len(Flight("submit").answers) \in 1..MaxBatch
    BY <1>3, FlightIs
  <2>2. flights' = flights \cup {Flight("submit")} /\ phase' = "flush" /\ post' = post
    BY <1>3 DEF BeginSubmission, Send
  <2> QED
    BY <1>1, <2>1, <2>2 DEF TypeOK
<1> QED
  BY <1>2, <1>3

(* Every step keeps the types.                                             *)
LEMMA TypeStep ==
    ASSUME TypeOK, FlightsAreSound, LastFlush,
           \A q \in Questions : spent[q] <= now, [Next]_vars
    PROVE  TypeOK'
<1> USE DEF page, server, history, network
<1>1. CASE Tick
  <2>1. now' \in Clock
    BY <1>1, ExamClientAssumption DEF Tick, TypeOK, Clock
  <2>2. spent' \in [Questions -> Clock]
    <3>1. selected \in Questions /\ now < Horizon /\ now \in Nat
      BY <1>1 DEF Tick, TypeOK, Clock
    <3>2. spent[selected] \in Nat /\ spent[selected] <= now
      BY <3>1 DEF TypeOK, Clock
    <3>3. spent[selected] + 1 \in Clock
      BY <3>1, <3>2, ExamClientAssumption DEF Clock
    <3> QED
      BY <1>1, <3>3 DEF Tick, TypeOK
  <2> QED
    BY <1>1, <2>1, <2>2 DEF Tick, TypeOK
<1>2. ASSUME NEW q \in Questions, Select(q) PROVE TypeOK'
  BY <1>2 DEF Select, TypeOK
<1>3. ASSUME NEW r \in Responses, Answer(r) PROVE TypeOK'
  <2>1. selected \in Questions /\ QueueAnswer(selected, r)
    BY <1>3 DEF Answer, TypeOK
  <2>2. /\ pending' \in Seq(Answers) /\ OneEach(pending')
        /\ writes' \in [Questions -> 0..MaxWrites]
        /\ reported' \in [Questions -> Nat]
    BY <2>1, QueueAnswerTyped
  <2>3. shown' \in [Questions -> Responses]
    BY <1>3, <2>1 DEF Answer, TypeOK
  <2> QED
    BY <1>3, <2>2, <2>3 DEF Answer, TypeOK, OneEach, Answers
<1>4. CASE Sync
  <2>1. /\ Flight("sync") \in Flights
        /\ Len(Flight("sync").answers) \in 1..MaxBatch
    BY <1>4, FlightIs DEF Sync
  <2>2. flights' = flights \cup {Flight("sync")}
    BY <1>4 DEF Sync, Send
  <2> QED
    BY <1>4, <2>1, <2>2 DEF Sync, TypeOK
<1>5. ASSUME NEW f \in flights, ServeBatch(f) PROVE TypeOK'
  <2>1. sheet' \in Sheets
    BY <1>5, TypeParts, SheetStaysTyped DEF ServeBatch, FlightsAreSound
  <2>2. /\ f \in Flights /\ Len(f.answers) \in 1..MaxBatch
        /\ [f EXCEPT !.stage = "ok"] \in Flights
        /\ [f EXCEPT !.stage = "refused"] \in Flights
        /\ [f EXCEPT !.stage = "ok"].answers = f.answers
        /\ [f EXCEPT !.stage = "refused"].answers = f.answers
    BY DEF TypeOK, Flights
  <2>3. \A g \in flights' : g \in flights \/ g = [f EXCEPT !.stage = "ok"]
                                          \/ g = [f EXCEPT !.stage = "refused"]
    BY <1>5 DEF ServeBatch
  <2>4. \A g \in flights' : g \in Flights /\ Len(g.answers) \in 1..MaxBatch
    BY <2>2, <2>3 DEF TypeOK
  <2> QED
    BY <1>5, <2>1, <2>4 DEF ServeBatch, TypeOK, Sheets
<1>6. ASSUME NEW f \in flights, BatchStored(f) PROVE TypeOK'
  <2>1. pending' \in Seq(Answers) /\ OneEach(pending')
    BY <1>6, TypeParts, UnsettledIs DEF BatchStored
  <2>2. lastWrite' \in -Interval..Horizon
    BY <1>6, TypeParts, AnswerBatchAssumption, ExamClientAssumption
       DEF BatchStored, Clock
  <2>3. /\ phase' \in {"none", "flush", "post"} /\ post' \in {"none", "sent", "served"}
        /\ (phase' = "none") = (reason' = "none")
    BY <1>6 DEF BatchStored, LastFlush, TypeOK
  <2> QED
    BY <1>6, <2>1, <2>2, <2>3 DEF BatchStored, TypeOK, OneEach, Answers
<1>7. ASSUME NEW f \in flights, FlushFails(f)
      PROVE  /\ life' \in {"active", "expired", "submitted", "terminated"}
             /\ phase' \in {"none", "flush", "post"}
             /\ reason' \in {"none", "manual", "expiry"}
             /\ (phase' = "none") = (reason' = "none")
             /\ final' \in Seq(Answers) /\ post' = post
  <2>1. CASE f.for = "submit"
    <3>1. phase' = "none" /\ reason' = "none" /\ final' = <<>> /\ post' = post
          /\ life' \in {"terminated", life}
      BY <1>7, <2>1 DEF FlushFails, SubmissionFails, SubmissionEnds
    <3> QED
      BY <3>1 DEF TypeOK
  <2>2. CASE f.for # "submit"
    BY <1>7, <2>2, TypeParts DEF FlushFails, TypeOK
  <2> QED
    BY <2>1, <2>2
<1>8. ASSUME NEW f \in flights, BatchRefused(f) PROVE TypeOK'
  BY <1>7, <1>8 DEF BatchRefused, TypeOK, Answers
<1>9. ASSUME NEW f \in flights, BatchLost(f) PROVE TypeOK'
  <2>1. /\ [f EXCEPT !.awaited = FALSE] \in Flights
        /\ [f EXCEPT !.awaited = FALSE].answers = f.answers
        /\ Len(f.answers) \in 1..MaxBatch
    BY DEF TypeOK, Flights
  <2>2. \A g \in flights' : g \in flights \/ g = [f EXCEPT !.awaited = FALSE]
    BY <1>9 DEF BatchLost
  <2>3. \A g \in flights' : g \in Flights /\ Len(g.answers) \in 1..MaxBatch
    BY <2>1, <2>2 DEF TypeOK
  <2>4. lost' \in 0..MaxLosses
    BY <1>9, ExamClientAssumption DEF BatchLost, TypeOK
  <2> QED
    BY <1>7, <1>9, <2>3, <2>4 DEF BatchLost, TypeOK, Answers
<1>10. CASE Expire
  BY <1>10 DEF Expire, TypeOK
<1>11. CASE SubmitManually
  <2>1. selected \in Questions /\ shown[selected] \in Responses
    BY DEF TypeOK
  <2>2. /\ pending' \in Seq(Answers) /\ OneEach(pending')
        /\ writes' \in [Questions -> 0..MaxWrites]
        /\ reported' \in [Questions -> Nat]
    BY <1>11, <2>1, QueueAnswerTyped DEF SubmitManually
  <2>3. /\ phase' \in {"flush", "post"} /\ reason' = "manual"
        /\ final' \in Seq(Answers) /\ flights' \subseteq Flights
        /\ \A f \in flights' : Len(f.answers) \in 1..MaxBatch
        /\ post' \in {"none", "sent", "served"}
    BY <1>11, BeginTyped DEF SubmitManually
  <2> QED
    BY <1>11, <2>2, <2>3 DEF SubmitManually, TypeOK, OneEach, Answers
<1>12. CASE SubmitOnExpiry
  <2>1. /\ phase' \in {"flush", "post"} /\ reason' = "expiry"
        /\ final' \in Seq(Answers) /\ flights' \subseteq Flights
        /\ \A f \in flights' : Len(f.answers) \in 1..MaxBatch
        /\ post' \in {"none", "sent", "served"}
    BY <1>12, BeginTyped DEF SubmitOnExpiry
  <2> QED
    BY <1>12, <2>1 DEF SubmitOnExpiry, TypeOK, Answers
<1>13. CASE ServeSubmission
  BY <1>13 DEF ServeSubmission, TypeOK
<1>14. CASE Submitted
  BY <1>14, TypeParts DEF Submitted, SubmissionEnds, TypeOK
<1>15. CASE PostFails
  <2>1. lost' \in 0..MaxLosses
    BY <1>15, ExamClientAssumption DEF PostFails, TypeOK
  <2> QED
    BY <1>15, <2>1 DEF PostFails, SubmissionFails, SubmissionEnds, TypeOK
<1>16. CASE UNCHANGED vars
  BY <1>16 DEF vars, TypeOK
<1> QED
  BY <1>1, <1>2, <1>3, <1>4, <1>5, <1>6, <1>8, <1>9, <1>10, <1>11, <1>12, <1>13,
     <1>14, <1>15, <1>16 DEF Next

-----------------------------------------------------------------------------
(* Batches and submissions.                                                *)

(* What the server does with a batch: to every question nothing, or what a  *)
(* write of the batch that is not older brings; a reply "ok" says that the  *)
(* batch, or newer answers, are on the sheet.                               *)
LEMMA ServedIs ==
    ASSUME TypeOK, FlightsAreSound, NEW f \in flights, ServeBatch(f)
    PROVE  /\ \A q \in Questions :
                \/ sheet'[q] = sheet[q]
                \/ \E i \in DOMAIN f.answers :
                     /\ f.answers[i] \in Answers /\ f.answers[i].question = q
                     /\ f.answers[i].at >= sheet[q].at
                     /\ sheet'[q] = [option |-> f.answers[i].option,
                                     at |-> f.answers[i].at,
                                     spent |-> sheet[q].spent
                                                 + Delta(sheet, f.answers[i])]
           /\ \A g \in flights' :
                \/ g \in flights \ {f}
                \/ /\ g.answers = f.answers /\ g.for = f.for
                   /\ f.awaited /\ g.awaited
                   /\ g.stage = "ok" => OnSheet(f.answers)'
<1> DEFINE b == f.answers
<1>1. /\ b \in Seq(Answers) /\ OneEach(b) /\ sheet \in Sheets
      /\ \A i \in DOMAIN b : b[i] \in Answers
  BY TypeParts, LenProperties, ElementOfSeq DEF FlightsAreSound
<1>2. CASE BatchAccepted(status, sheet, b, f.since)
  <2>1. sheet' = Merged(sheet, b)
    BY <1>2 DEF ServeBatch, AfterBatch
  <2>2. ASSUME NEW q \in Questions
        PROVE  \/ sheet'[q] = sheet[q]
               \/ \E i \in DOMAIN b :
                    /\ b[i] \in Answers /\ b[i].question = q
                    /\ b[i].at >= sheet[q].at
                    /\ sheet'[q] = [option |-> b[i].option, at |-> b[i].at,
                                    spent |-> sheet[q].spent + Delta(sheet, b[i])]
    BY <1>1, <2>1, MergedIs DEF Fresh
  <2>3. ASSUME NEW i \in DOMAIN b PROVE sheet'[b[i].question].at >= b[i].at
    <3> DEFINE q == b[i].question
    <3>1. q \in Questions /\ b[i].at \in Nat /\ sheet[q].at \in Int
      BY <1>1, AnswerFields, SheetFields
    <3>2. CASE \E j \in Fresh(sheet, b) :
                 /\ b[j].question = q
                 /\ sheet'[q] = [option |-> b[j].option, at |-> b[j].at,
                                 spent |-> sheet[q].spent + Delta(sheet, b[j])]
      <4>1. sheet'[q].at = b[i].at
        BY <1>1, <3>2 DEF OneEach, Fresh
      <4> QED
        BY <3>1, <4>1
    <3>3. CASE sheet'[q] = sheet[q] /\ b[i].at < sheet[q].at
      BY <3>1, <3>3
    <3>4. \/ /\ sheet'[q] = sheet[q]
             /\ \A j \in DOMAIN b : b[j].question = q => b[j].at < sheet[q].at
          \/ \E j \in Fresh(sheet, b) :
               /\ b[j].question = q
               /\ sheet'[q] = [option |-> b[j].option, at |-> b[j].at,
                               spent |-> sheet[q].spent + Delta(sheet, b[j])]
      BY <1>1, <2>1, <3>1, MergedIs
    <3> QED
      BY <3>2, <3>3, <3>4
  <2>4. OnSheet(b)'
    BY <2>3 DEF OnSheet
  <2>5. \A g \in flights' :
          \/ g \in flights \ {f}
          \/ g = [f EXCEPT !.stage = "ok"] /\ f.awaited
    BY <1>2 DEF ServeBatch
  <2>6. /\ [f EXCEPT !.stage = "ok"].answers = b
        /\ [f EXCEPT !.stage = "ok"].for = f.for
        /\ [f EXCEPT !.stage = "ok"].awaited = f.awaited
    BY DEF TypeOK, Flights
  <2> QED
    BY <2>2, <2>4, <2>5, <2>6
<1>3. CASE ~BatchAccepted(status, sheet, b, f.since)
  <2>1. sheet' = sheet
    BY <1>3 DEF ServeBatch, AfterBatch
  <2>2. \A g \in flights' :
          \/ g \in flights \ {f}
          \/ g = [f EXCEPT !.stage = "refused"] /\ f.awaited
    BY <1>3 DEF ServeBatch
  <2>3. /\ [f EXCEPT !.stage = "refused"].answers = b
        /\ [f EXCEPT !.stage = "refused"].for = f.for
        /\ [f EXCEPT !.stage = "refused"].awaited = f.awaited
        /\ [f EXCEPT !.stage = "refused"].stage = "refused"
    BY DEF TypeOK, Flights
  <2> QED
    BY <2>1, <2>2, <2>3
<1> QED
  BY <1>2, <1>3

(* Only batches change the sheet.                                          *)
LEMMA SheetChanges ==
    ASSUME [Next]_vars
    PROVE  \/ sheet' = sheet
           \/ \E f \in flights : ServeBatch(f)
  BY DEF Next, vars, page, server, history, network, Tick, Select, Answer, Sync,
         BatchStored, BatchRefused, BatchLost, Expire, SubmitManually,
         SubmitOnExpiry, ServeSubmission, Submitted, PostFails

(* The time of a question's answer on the sheet never goes back.           *)
LEMMA SheetGrows ==
    ASSUME TypeOK, FlightsAreSound, [Next]_vars, NEW q \in Questions
    PROVE  sheet'[q].at >= sheet[q].at /\ sheet'[q].at \in Int
<1>1. sheet \in Sheets /\ sheet[q].at \in Int
  BY TypeParts, SheetFields
<1>2. ASSUME NEW f \in flights, ServeBatch(f)
      PROVE  sheet'[q].at >= sheet[q].at /\ sheet'[q].at \in Int
  <2>1. CASE sheet'[q] = sheet[q]
    BY <1>1, <2>1
  <2>2. CASE sheet'[q] # sheet[q]
    <3>1. PICK i \in DOMAIN f.answers :
            /\ f.answers[i] \in Answers /\ f.answers[i].at >= sheet[q].at
            /\ sheet'[q] = [option |-> f.answers[i].option,
                            at |-> f.answers[i].at,
                            spent |-> sheet[q].spent
                                        + Delta(sheet, f.answers[i])]
      BY <1>2, <2>2, ServedIs
    <3>2. sheet'[q].at = f.answers[i].at
      BY <3>1
    <3> QED
      BY <3>1, <3>2, AnswerFields
  <2> QED
    BY <2>1, <2>2
<1> QED
  BY <1>1, <1>2, SheetChanges

(* What the sheet has of a batch it keeps, or it has something newer.      *)
LEMMA OnSheetStays ==
    ASSUME TypeOK, FlightsAreSound, [Next]_vars,
           NEW b \in Seq(Answers), OnSheet(b)
    PROVE  OnSheet(b)'
<1> SUFFICES ASSUME NEW i \in DOMAIN b
             PROVE  sheet'[b[i].question].at >= b[i].at
  BY DEF OnSheet
<1>1. b[i] \in Answers
  BY LenProperties, ElementOfSeq
<1>2. b[i].question \in Questions /\ b[i].at \in Nat
  BY <1>1, AnswerFields
<1>3. sheet[b[i].question].at >= b[i].at /\ sheet[b[i].question].at \in Int
  BY <1>2, TypeParts, SheetFields DEF OnSheet
<1> QED
  BY <1>2, <1>3, SheetGrows

(* A submission begins: the only flight more is that of the submission.    *)
LEMMA BeginIs ==
    ASSUME TypeOK, FlightsAreSound, LastFlush, NEW why, BeginSubmission(why)
    PROVE  /\ \A f \in flights : ~(f.for = "submit" /\ f.awaited)
           /\ \/ phase' = "post" /\ flights' = flights /\ final' = <<>>
              \/ /\ phase' = "flush" /\ pending # <<>>
                 /\ final' = FirstOf(pending)
                 /\ flights' = flights \cup {Flight("submit")}
<1>1. \A f \in flights : ~(f.for = "submit" /\ f.awaited)
  BY DEF BeginSubmission, LastFlush
<1>2. CASE pending = <<>>
  BY <1>1, <1>2, TypeParts, FirstOfIs DEF BeginSubmission
<1>3. CASE pending # <<>>
  BY <1>1, <1>3 DEF BeginSubmission, Send
<1> QED
  BY <1>2, <1>3

(* The flights after a step: those before it, perhaps answered or given up, *)
(* and new ones with the first of the queue.                               *)
LEMMA FlightsStep ==
    ASSUME TypeOK, FlightsAreSound, LastFlush, [Next]_vars
    PROVE  FlightsAreSound'
<1> DEFINE Sound(g) == /\ OneEach(g.answers)
                       /\ g.stage # "sent" => g.awaited
                       /\ g.stage = "ok" => OnSheet(g.answers)'
<1>1. \A g \in flights : Sound(g)
  <2>1. \A g \in flights : g.answers \in Seq(Answers)
    BY TypeParts
  <2>2. ASSUME NEW g \in flights, g.stage = "ok" PROVE OnSheet(g.answers)'
    BY <2>1, <2>2, OnSheetStays DEF FlightsAreSound
  <2> QED
    BY <2>2 DEF FlightsAreSound
<1>2. ASSUME pending # <<>>, NEW purpose \in {"sync", "submit"}
      PROVE  Sound(Flight(purpose))
  BY <1>2, FlightIs, FirstOfIs, TypeParts
<1>3. ASSUME NEW f \in flights
      PROVE  Sound([f EXCEPT !.awaited = FALSE]) \/ f.stage # "sent"
  <2>1. /\ [f EXCEPT !.awaited = FALSE].answers = f.answers
        /\ [f EXCEPT !.awaited = FALSE].stage = f.stage
    BY DEF TypeOK, Flights
  <2> QED
    BY <1>1, <2>1
<1>4. ASSUME NEW g \in flights' PROVE Sound(g)
  <2>1. CASE flights' \subseteq flights
    BY <1>1, <2>1
  <2>2. CASE Sync
    <3>1. flights' = flights \cup {Flight("sync")} /\ pending # <<>>
      BY <2>2 DEF Sync, Send
    <3> HIDE DEF Sound
    <3> QED
      BY <1>1, <1>2, <3>1
  <2>3. ASSUME NEW f \in flights, ServeBatch(f) PROVE Sound(g)
    <3>1. CASE g \in flights
      BY <1>1, <3>1
    <3>2. CASE /\ g.answers = f.answers /\ g.awaited
               /\ g.stage = "ok" => OnSheet(f.answers)'
      BY <1>1, <3>2
    <3> QED
      BY <2>3, <3>1, <3>2, ServedIs
  <2>4. ASSUME NEW f \in flights, BatchLost(f) PROVE Sound(g)
    <3>1. g \in flights \/ (f.stage = "sent" /\ g = [f EXCEPT !.awaited = FALSE])
      BY <2>4 DEF BatchLost
    <3> QED
      BY <1>1, <1>3, <3>1
  <2>5. ASSUME NEW why, BeginSubmission(why) PROVE Sound(g)
    <3>1. g \in flights \/ (pending # <<>> /\ g = Flight("submit"))
      BY <2>5, BeginIs
    <3> HIDE DEF Sound
    <3> QED
      BY <1>1, <1>2, <3>1
  <2> HIDE DEF Sound
  <2>6. \/ flights' \subseteq flights \/ Sync
        \/ \E f \in flights : ServeBatch(f) \/ BatchLost(f)
        \/ \E why \in {"manual", "expiry"} : BeginSubmission(why)
    BY DEF Next, vars, page, server, history, network, Tick, Select, Answer,
           BatchStored, BatchRefused, Expire, SubmitManually, SubmitOnExpiry,
           ServeSubmission, Submitted, PostFails
  <2> QED
    BY <2>1, <2>2, <2>3, <2>4, <2>5, <2>6
<1> QED
  BY <1>4 DEF FlightsAreSound, OnSheet

(* A step with which a submission's flush is over.                         *)
LEMMA FlushOver ==
    ASSUME LastFlush, flights' \subseteq flights,
           \A f \in flights' : ~(f.for = "submit" /\ f.awaited)
    PROVE  LastFlush'
  BY DEF LastFlush

(* A submission that waits for its flush waits for one flight only.        *)
LEMMA LastFlushStep ==
    ASSUME TypeOK, FlightsAreSound, LastFlush, [Next]_vars
    PROVE  LastFlush'
<1> DEFINE Waited(g) == g.for = "submit" /\ g.awaited
<1>1. \A f, g \in flights : Waited(f) /\ Waited(g) => f = g
  BY DEF LastFlush
<1>2. CASE flights' = flights /\ phase' = phase /\ final' = final
  BY <1>2 DEF LastFlush
<1>3. CASE Sync
  <2>1. /\ flights' = flights \cup {Flight("sync")}
        /\ phase' = phase /\ final' = final
        /\ Flight("sync").for = "sync"
    BY <1>3, FlightIs DEF Sync, Send, page, history
  <2> QED
    BY <2>1 DEF LastFlush
<1>4. ASSUME NEW f \in flights, ServeBatch(f) PROVE LastFlush'
  <2>1. phase' = phase /\ final' = final
    BY <1>4 DEF ServeBatch, page, history
  <2>2. \A g \in flights' :
          \/ g \in flights \ {f}
          \/ g.answers = f.answers /\ g.for = f.for /\ f.awaited /\ g.awaited
    BY <1>4, ServedIs
  <2>3. \A g \in flights' : Waited(g) => phase = "flush" /\ g.answers = final
    BY <2>2 DEF LastFlush
  <2>4. ASSUME NEW g \in flights', NEW h \in flights', Waited(g), Waited(h)
        PROVE  g = h
    <3>1. CASE g \in flights \ {f} /\ h \in flights \ {f}
      BY <1>1, <2>4, <3>1
    <3>2. CASE g \notin flights \ {f} \/ h \notin flights \ {f}
      <4>1. Waited(f)
        BY <2>2, <2>4, <3>2
      <4>2. g \notin flights \ {f} /\ h \notin flights \ {f}
        BY <1>1, <2>4, <4>1
      <4> QED
        BY <1>4, <4>2 DEF ServeBatch
    <3> QED
      BY <3>1, <3>2
  <2> QED
    BY <2>1, <2>3, <2>4 DEF LastFlush
<1>5. ASSUME NEW f \in flights, BatchStored(f) PROVE LastFlush'
  <2>1. flights' = flights \ {f} /\ final' = final
        /\ (f.for # "submit" => phase' = phase)
    BY <1>5 DEF BatchStored, history
  <2>2. CASE f.for = "submit"
    BY <1>1, <1>5, <2>1, <2>2, FlushOver DEF BatchStored
  <2>3. CASE f.for # "submit"
    BY <2>1, <2>3 DEF LastFlush
  <2> QED
    BY <2>2, <2>3
<1>6. ASSUME NEW f \in flights, FlushFails(f), flights' = flights \ {f}, f.awaited
      PROVE  LastFlush'
  <2>1. CASE f.for = "submit"
    BY <1>1, <1>6, <2>1, FlushOver
  <2>2. CASE f.for # "submit"
    BY <1>6, <2>2 DEF LastFlush, FlushFails
  <2> QED
    BY <2>1, <2>2
<1>7. ASSUME NEW f \in flights, BatchRefused(f) PROVE LastFlush'
  BY <1>6, <1>7 DEF BatchRefused, FlightsAreSound
<1>8. ASSUME NEW f \in flights, BatchLost(f) PROVE LastFlush'
  <2>1. CASE flights' = flights \ {f}
    BY <1>6, <1>8, <2>1 DEF BatchLost
  <2>2. CASE flights' = (flights \ {f}) \cup {[f EXCEPT !.awaited = FALSE]}
    <3>1. [f EXCEPT !.awaited = FALSE].awaited = FALSE
      BY DEF TypeOK, Flights
    <3>2. CASE f.for = "submit"
      BY <1>1, <1>8, <2>2, <3>1, <3>2 DEF LastFlush, BatchLost
    <3>3. CASE f.for # "submit"
      BY <1>8, <2>2, <3>1, <3>3 DEF LastFlush, BatchLost, FlushFails
    <3> QED
      BY <3>2, <3>3
  <2> QED
    BY <1>8, <2>1, <2>2 DEF BatchLost
<1>9. ASSUME NEW why, BeginSubmission(why) PROVE LastFlush'
  <2>1. \A f \in flights : ~Waited(f)
    BY <1>9, BeginIs
  <2>2. CASE flights' = flights
    BY <2>1, <2>2 DEF LastFlush
  <2>3. CASE /\ phase' = "flush" /\ pending # <<>> /\ final' = FirstOf(pending)
             /\ flights' = flights \cup {Flight("submit")}
    BY <2>1, <2>3, FlightIs DEF LastFlush
  <2> QED
    BY <1>9, <2>2, <2>3, BeginIs
<1>10. ASSUME phase = "post", flights' = flights PROVE LastFlush'
  BY <1>10 DEF LastFlush
<1>11. CASE Submitted \/ PostFails
  BY <1>10, <1>11 DEF Submitted, PostFails
<1> HIDE DEF Waited
<1>12. \/ flights' = flights /\ phase' = phase /\ final' = final
       \/ Sync \/ Submitted \/ PostFails
       \/ \E f \in flights : \/ ServeBatch(f) \/ BatchStored(f)
                             \/ BatchRefused(f) \/ BatchLost(f)
       \/ \E why \in {"manual", "expiry"} : BeginSubmission(why)
  BY DEF Next, vars, page, server, history, network, Tick, Select, Answer,
         Expire, SubmitManually, SubmitOnExpiry, ServeSubmission
<1> QED
  BY <1>2, <1>3, <1>4, <1>5, <1>7, <1>8, <1>9, <1>11, <1>12

(* The flush of a submission is on the sheet when it is posted.            *)
LEMMA FlushedStep ==
    ASSUME TypeOK, FlightsAreSound, LastFlush, FlushedBeforePost,
           \A q \in Questions : Past(q)', [Next]_vars
    PROVE  FlushedBeforePost'
<1>1. ASSUME NEW b \in Seq(Answers), OnSheet(b)'
      PROVE  \A i \in DOMAIN b : InSheet(b[i].question)'
                                /\ sheet'[b[i].question].at >= b[i].at
  <2> SUFFICES ASSUME NEW i \in DOMAIN b
               PROVE  InSheet(b[i].question)' /\ sheet'[b[i].question].at >= b[i].at
    OBVIOUS
  <2>1. b[i] \in Answers
    BY LenProperties, ElementOfSeq
  <2>2. b[i].question \in Questions /\ b[i].at \in Nat
    BY <2>1, AnswerFields
  <2>3. sheet'[b[i].question].at >= b[i].at
    BY <1>1 DEF OnSheet
  <2>4. sheet'[b[i].question].option = Absent => sheet'[b[i].question].at = -1
    BY <2>2 DEF Past
  <2> QED
    BY <2>2, <2>3, <2>4 DEF InSheet
<1>2. CASE phase' = "post" /\ phase = "post" /\ final' = final
  <2>1. final \in Seq(Answers) /\ OnSheet(final)
    BY <1>2, TypeParts DEF FlushedBeforePost, OnSheet
  <2>2. OnSheet(final)'
    BY <1>2, <2>1, OnSheetStays
  <2> QED
    BY <1>1, <1>2, <2>1, <2>2 DEF FlushedBeforePost
<1>3. ASSUME NEW f \in flights, BatchStored(f), f.for = "submit"
      PROVE  FlushedBeforePost'
  <2>1. f.answers = final /\ final' = final /\ final \in Seq(Answers)
        /\ f.answers \in Seq(Answers)
    BY <1>3, TypeParts DEF BatchStored, LastFlush, history
  <2>2. OnSheet(f.answers)
    BY <1>3 DEF BatchStored, FlightsAreSound
  <2>3. OnSheet(final)'
    BY <2>1, <2>2, OnSheetStays
  <2> QED
    BY <1>1, <2>1, <2>3 DEF FlushedBeforePost
<1>4. CASE final' = <<>>
  BY <1>4, EmptySeq DEF FlushedBeforePost
<1>5. CASE phase' # "post"
  BY <1>5 DEF FlushedBeforePost
<1>6. \/ phase' = phase /\ final' = final
      \/ phase' # "post" \/ final' = <<>>
      \/ \E f \in flights : BatchStored(f) /\ f.for = "submit"
  <2>1. ASSUME NEW why, BeginSubmission(why)
        PROVE  phase' # "post" \/ final' = <<>>
    BY <2>1, BeginIs
  <2> QED
    BY <2>1 DEF Next, vars, page, server, history, network, Tick, Select, Answer,
       Sync, ServeBatch, BatchStored, BatchRefused, BatchLost, FlushFails,
       Expire, SubmitManually, SubmitOnExpiry, ServeSubmission, Submitted,
       PostFails, SubmissionFails, SubmissionEnds
<1> QED
  BY <1>2, <1>3, <1>4, <1>5, <1>6

(* The total of the sheet.                                                 *)
LEMMA ElapsedStep ==
    ASSUME TypeOK, FlightsAreSound, TimeWithinElapsed, [Next]_vars
    PROVE  TimeWithinElapsed'
<1>1. CASE sheet' = sheet
  BY <1>1 DEF TimeWithinElapsed, InSheet
<1>2. ASSUME NEW f \in flights, ServeBatch(f), sheet' # sheet
      PROVE  TimeWithinElapsed'
  <2>1. f.answers \in Seq(Answers) /\ OneEach(f.answers) /\ sheet \in Sheets
    BY TypeParts DEF FlightsAreSound
  <2>2. sheet' = Merged(sheet, f.answers) /\ Valid(sheet, f.answers)
    BY <1>2 DEF ServeBatch, AfterBatch, BatchAccepted
  <2>3. Fresh(sheet, f.answers) # {}
    <3>1. SUFFICES ASSUME Fresh(sheet, f.answers) = {} PROVE sheet' = sheet
      BY <1>2
    <3>2. \A q \in Questions : sheet'[q] = sheet[q]
      BY <2>2, <3>1 DEF Merged
    <3>3. sheet' = [q \in Questions |-> sheet'[q]]
      BY <2>2 DEF Merged
    <3>4. sheet = [q \in Questions |-> sheet[q]]
      BY <2>1 DEF Sheets
    <3> QED
      BY <3>2, <3>3, <3>4
  <2> QED
    BY <2>1, <2>2, <2>3, MergedTotal DEF TimeWithinElapsed
<1> QED
  BY <1>1, <1>2, SheetChanges

-----------------------------------------------------------------------------
(* The time that may still be counted.                                     *)

(* It is finitely many units.                                              *)
LEMMA NewerIsFinite ==
    ASSUME NEW W \in SUBSET Answers, NEW t
    PROVE  /\ IsFiniteSet(NewerUnits(W, t))
           /\ Cardinality(NewerUnits(W, t)) \in Nat
<1>1. IsFiniteSet(0..Horizon) /\ IsFiniteSet(1..Horizon)
  BY FS_Interval, ExamClientAssumption
<1>2. IsFiniteSet((0..Horizon) \X (1..Horizon))
  BY <1>1, FS_Product
<1>3. NewerUnits(W, t) \subseteq (0..Horizon) \X (1..Horizon)
  <2> SUFFICES ASSUME NEW w \in W, NEW n \in 1..w.spent
               PROVE  <<w.at, n>> \in (0..Horizon) \X (1..Horizon)
    BY DEF NewerUnits
  <2> QED
    BY AnswerFields, ExamClientAssumption
<1> QED
  BY <1>2, <1>3, SizeOfSubset

(* It does not grow when writes go and the sheet's answer becomes newer.   *)
LEMMA NewerShrinks ==
    ASSUME NEW W \in SUBSET Answers, NEW V \in SUBSET W,
           NEW t \in Int, NEW u \in Int, t <= u
    PROVE  Cardinality(NewerUnits(V, u)) <= Cardinality(NewerUnits(W, t))
<1>1. \A w \in V : w.at \in Int
  BY AnswerFields
<1>2. NewerUnits(V, u) \subseteq NewerUnits(W, t)
  BY <1>1 DEF NewerUnits
<1> QED
  BY <1>2, NewerIsFinite, SizeOfSubset

(* The units of one write.                                                 *)
LEMMA UnitsOfWrite ==
    ASSUME NEW w \in Answers
    PROVE  /\ IsFiniteSet({w.at} \X (1..w.spent))
           /\ Cardinality({w.at} \X (1..w.spent)) = w.spent
<1>1. w.spent \in Nat
  BY AnswerFields
<1>2. IsFiniteSet({w.at}) /\ Cardinality({w.at}) = 1
  BY FS_Singleton
<1>3. IsFiniteSet(1..w.spent) /\ Cardinality(1..w.spent) = w.spent
  BY <1>1, SizeOfInterval
<1> DEFINE T == {w.at}
           N == 1..w.spent
<1>4. IsFiniteSet(T \X N) /\ Cardinality(T \X N) = Cardinality(T) * Cardinality(N)
  <2> HIDE DEF T, N
  <2>1. IsFiniteSet(T) /\ IsFiniteSet(N)
    BY <1>2, <1>3 DEF T, N
  <2> QED
    BY <2>1, FS_Product
<1>5. Cardinality(T) * Cardinality(N) = w.spent
  BY <1>1, <1>2, <1>3
<1> QED
  BY <1>4, <1>5

(* A write adds at most its own time.                                      *)
LEMMA NewerAdds ==
    ASSUME NEW W \in SUBSET Answers, NEW w \in Answers,
           NEW V \in SUBSET (W \cup {w}), NEW t \in Int
    PROVE  Cardinality(NewerUnits(V, t)) <= Cardinality(NewerUnits(W, t)) + w.spent
<1> DEFINE N == NewerUnits(W, t)
           U == {w.at} \X (1..w.spent)
<1>1. NewerUnits(V, t) \subseteq N \cup U
  BY DEF NewerUnits
<1>2. IsFiniteSet(N) /\ Cardinality(N) \in Nat
  BY NewerIsFinite
<1>3. IsFiniteSet(U) /\ Cardinality(U) = w.spent /\ w.spent \in Nat
  BY UnitsOfWrite, AnswerFields
<1> HIDE DEF N, U
<1>4. /\ IsFiniteSet(N \cup U)
      /\ Cardinality(N \cup U) = Cardinality(N) + Cardinality(U) - Cardinality(N \cap U)
  BY <1>2, <1>3, FS_Union
<1>5. Cardinality(N \cap U) \in Nat
  BY <1>2, SizeOfSubset
<1>6. /\ Cardinality(NewerUnits(V, t)) <= Cardinality(N \cup U)
      /\ Cardinality(NewerUnits(V, t)) \in Nat
  BY <1>1, <1>4, SizeOfSubset
<1> QED
  BY <1>2, <1>3, <1>4, <1>5, <1>6 DEF N

(* A write that is counted takes its time out of it.                       *)
LEMMA NewerTakes ==
    ASSUME NEW W \in SUBSET Answers, NEW V \in SUBSET W,
           NEW w \in W, NEW t \in Int, w.at > t
    PROVE  Cardinality(NewerUnits(V, w.at)) + w.spent
             <= Cardinality(NewerUnits(W, t))
<1> DEFINE N == NewerUnits(V, w.at)
           U == {w.at} \X (1..w.spent)
<1>1. \A v \in W : v.at \in Int
  BY AnswerFields
<1>2. N \subseteq NewerUnits(W, t) /\ N \cap U = {}
  BY <1>1 DEF NewerUnits
<1>3. U \subseteq NewerUnits(W, t)
  BY DEF NewerUnits
<1>4. IsFiniteSet(N) /\ Cardinality(N) \in Nat
  BY NewerIsFinite
<1>5. IsFiniteSet(U) /\ Cardinality(U) = w.spent /\ w.spent \in Nat
  BY UnitsOfWrite, AnswerFields
<1> HIDE DEF N, U
<1>6. Cardinality(N \cup U) = Cardinality(N) + Cardinality(U) - Cardinality({})
  BY <1>2, <1>4, <1>5, FS_Union
<1>7. Cardinality({}) = 0
  BY FS_EmptySet
<1>8. /\ Cardinality(N \cup U) <= Cardinality(NewerUnits(W, t))
      /\ Cardinality(NewerUnits(W, t)) \in Nat
  BY <1>2, <1>3, NewerIsFinite, SizeOfSubset
<1> QED
  BY <1>4, <1>5, <1>6, <1>7, <1>8 DEF N

-----------------------------------------------------------------------------
(* The part of a question.                                                 *)

(* What the page or the network holds of a question.                       *)
LEMMA HeldIs ==
    ASSUME NEW q
    PROVE  /\ \A w : w \in WritesOf(q) <=>
                /\ w.question = q
                /\ \/ \E i \in DOMAIN pending : w = pending[i]
                   \/ \E f \in flights : \E i \in DOMAIN f.answers : w = f.answers[i]
           /\ \A w : w \in WritesOf(q)' <=>
                /\ w.question = q
                /\ \/ \E i \in DOMAIN pending' : w = pending'[i]
                   \/ \E f \in flights' : \E i \in DOMAIN f.answers : w = f.answers[i]
  BY DEF WritesOf, ToSet

(* The writes that are queued or on their way are answers.                 *)
LEMMA HeldAreAnswers ==
    ASSUME TypeOK, NEW q
    PROVE  WritesOf(q) \in SUBSET Answers
<1>1. \A i \in DOMAIN pending : pending[i] \in Answers
  BY TypeParts, LenProperties, ElementOfSeq
<1>2. ASSUME NEW f \in flights PROVE \A i \in DOMAIN f.answers : f.answers[i] \in Answers
  <2>1. f.answers \in Seq(Answers)
    BY TypeParts
  <2> QED
    BY <2>1, LenProperties, ElementOfSeq
<1>3. \A w \in WritesOf(q) : w \in Answers
  BY <1>1, <1>2, HeldIs
<1> QED
  BY <1>3

(* A step after which no more is held of the question than before, and that *)
(* leaves the rest of it alone.  It may end its stay in the queue only if   *)
(* it is on the sheet.                                                     *)
LEMMA QuietStep ==
    ASSUME TypeOK, NEW q \in Questions, QuestionInv(q),
           WritesOf(q)' \subseteq WritesOf(q), now' = now,
           spent'[q] = spent[q], shown'[q] = shown[q], sheet'[q] = sheet[q],
           writes'[q] = writes[q], reported'[q] = reported[q],
           (\E i \in DOMAIN pending : pending[i].question = q) =>
             InSheet(q) \/ \E i \in DOMAIN pending' : pending'[i].question = q
    PROVE  QuestionInv(q)'
<1>1. Past(q)'
  BY DEF QuestionInv, Past
<1>2. SameMoment(q)'
  BY DEF QuestionInv, SameMoment
<1>3. FirstAnswer(q)'
  BY DEF QuestionInv, FirstAnswer, InSheet
<1>4. TimeReserved(q)'
  <2>1. WritesOf(q) \in SUBSET Answers /\ sheet[q].at \in Int /\ sheet[q].spent \in Nat
        /\ reported[q] \in Nat
    BY HeldAreAnswers, TypeParts, SheetFields DEF TypeOK
  <2>2. WritesOf(q)' \in SUBSET Answers
    BY <2>1
  <2>3. /\ Cardinality(NewerUnits(WritesOf(q)', sheet[q].at))
             <= Cardinality(NewerUnits(WritesOf(q), sheet[q].at))
        /\ Cardinality(NewerUnits(WritesOf(q)', sheet[q].at)) \in Nat
        /\ Cardinality(NewerUnits(WritesOf(q), sheet[q].at)) \in Nat
    BY <2>1, <2>2, NewerShrinks, NewerIsFinite
  <2> QED
    BY <2>1, <2>3 DEF QuestionInv, TimeReserved
<1> QED
  BY <1>1, <1>2, <1>3, <1>4 DEF QuestionInv

(* The clock moves on.                                                     *)
LEMMA TickStep ==
    ASSUME TypeOK, NEW q \in Questions, QuestionInv(q), Tick
    PROVE  QuestionInv(q)'
<1>1. /\ now' = now + 1 /\ now \in Nat
      /\ pending' = pending /\ flights' = flights /\ shown' = shown
      /\ sheet' = sheet /\ writes' = writes /\ reported' = reported
  BY DEF Tick, network, server, history, TypeOK, Clock
<1>2. WritesOf(q)' = WritesOf(q)
  BY <1>1 DEF WritesOf
<1>3. spent'[q] <= spent[q] + 1 /\ spent'[q] \in Nat /\ spent[q] \in Nat
  BY DEF Tick, TypeOK, Clock
<1>4. sheet[q].at \in Int /\ \A w \in WritesOf(q) : w.at \in Nat
  BY TypeParts, SheetFields, HeldAreAnswers, AnswerFields
<1>5. Past(q)'
  BY <1>1, <1>2, <1>3, <1>4 DEF QuestionInv, Past
<1>6. SameMoment(q)'
  <2>1. \A w \in WritesOf(q) : w.at # now'
    BY <1>1, <1>4 DEF QuestionInv, Past
  <2>2. sheet[q].at # now'
    BY <1>1, <1>4 DEF QuestionInv, Past
  <2> QED
    BY <1>1, <1>2, <2>1, <2>2 DEF QuestionInv, SameMoment
<1>7. FirstAnswer(q)'
  BY <1>1, <1>2 DEF QuestionInv, FirstAnswer
<1>8. TimeReserved(q)'
  BY <1>1, <1>2 DEF QuestionInv, TimeReserved
<1> QED
  BY <1>5, <1>6, <1>7, <1>8 DEF QuestionInv

(* An answer of the question is queued: a new one, later than all there is, *)
(* or the one shown, once more.                                            *)
LEMMA QueuedStep ==
    ASSUME TypeOK, NEW q \in Questions, QuestionInv(q), NEW r \in Responses,
           QueueAnswer(q, r),
           WritesOf(q)' \subseteq WritesOf(q) \cup {WriteOf(q, r)},
           now' = now, spent' = spent, sheet' = sheet, shown'[q] = r,
           \/ r = shown[q]
           \/ (\A w \in WritesOf(q) : w.at < now) /\ sheet[q].at < now
    PROVE  QuestionInv(q)'
<1> DEFINE n == WriteOf(q, r)
<1>1. /\ n \in Answers /\ n.question = q /\ n.option = r
      /\ n.at = now /\ n.spent = spent[q]
  BY QueueAnswerTyped DEF WriteOf
<1>2. /\ WritesOf(q) \in SUBSET Answers /\ \A w \in WritesOf(q) : w.at \in Nat
      /\ sheet[q].at \in Int /\ sheet[q].spent \in Nat
      /\ now \in Nat /\ spent[q] \in Nat /\ reported[q] \in Nat
      /\ writes[q] \in Nat
  <2>1. now \in Nat /\ spent[q] \in Nat /\ reported[q] \in Nat /\ writes[q] \in Nat
    BY ExamClientAssumption DEF TypeOK, Clock
  <2> QED
    BY <2>1, HeldAreAnswers, AnswerFields, TypeParts, SheetFields
<1>3. writes'[q] = writes[q] + 1 /\ reported'[q] = reported[q] + spent[q]
  BY DEF QueueAnswer, TypeOK
<1>4. \A w \in WritesOf(q) : w.at = now => w = n
  <2> SUFFICES ASSUME NEW w \in WritesOf(q), w.at = now PROVE w = n
    OBVIOUS
  <2>1. w.option = shown[q] /\ w.spent = spent[q] /\ r = shown[q]
    BY <1>2 DEF QuestionInv, SameMoment
  <2>2. w \in [question : Questions, option : Responses, at : Clock, spent : Clock]
        /\ w.question = q
    BY <1>2, HeldIs DEF Answers, Writes
  <2>3. w = [question |-> q, option |-> r, at |-> now, spent |-> spent[q]]
    BY <2>1, <2>2
  <2> QED
    BY <2>3 DEF WriteOf
<1>5. sheet[q].at = now => sheet[q].option = r
  BY <1>2 DEF QuestionInv, SameMoment
<1>6. \A w \in WritesOf(q) : w.at = now => w.option = r /\ w.spent = spent[q]
  BY <1>1, <1>4
<1> HIDE DEF n
<1>7. Past(q)'
  BY <1>1, <1>2 DEF QuestionInv, Past, n
<1>8. SameMoment(q)'
  <2>1. \A w \in WritesOf(q)' : w \in WritesOf(q) \/ w = n
    BY DEF n
  <2>2. \A v, w \in WritesOf(q)' : v.at = w.at => v = w
    BY <1>1, <1>4, <2>1 DEF QuestionInv, SameMoment
  <2>3. \A w \in WritesOf(q)' : w.at = sheet[q].at => w.option = sheet[q].option
    BY <1>1, <1>5, <2>1 DEF QuestionInv, SameMoment
  <2>4. \A w \in WritesOf(q)' : w.at = now => w.option = r /\ w.spent = spent[q]
    BY <1>1, <1>6, <2>1
  <2> QED
    BY <1>5, <2>2, <2>3, <2>4 DEF SameMoment
<1>9. FirstAnswer(q)'
  <2>1. \E i \in DOMAIN pending' : pending'[i].question = q
    <3>1. pending' = Queue(pending, n)
      BY DEF QueueAnswer, n
    <3>2. \E i \in DOMAIN Queue(pending, n) : Queue(pending, n)[i] = n
      BY <1>1, TypeParts, QueueIs
    <3> QED
      BY <1>1, <3>1, <3>2
  <2>2. writes'[q] # 0
    BY <1>2, <1>3
  <2>3. ASSUME writes'[q] = 1
        PROVE  /\ \A w \in WritesOf(q)' : w.option = r
               /\ sheet[q].option = Absent
    <3>1. writes[q] = 0
      BY <1>2, <1>3, <2>3
    <3>2. WritesOf(q) = {} /\ sheet[q].option = Absent
      BY <3>1 DEF QuestionInv, FirstAnswer
    <3>3. \A w \in WritesOf(q)' : w = n
      BY <3>2 DEF n
    <3> QED
      BY <1>1, <3>2, <3>3
  <2> QED
    BY <2>1, <2>2, <2>3 DEF FirstAnswer
<1>10. TimeReserved(q)'
  <2>1. /\ WritesOf(q)' \in SUBSET (WritesOf(q) \cup {n})
        /\ WritesOf(q)' \in SUBSET Answers
    BY <1>1, <1>2 DEF n
  <2>2. /\ Cardinality(NewerUnits(WritesOf(q)', sheet[q].at))
             <= Cardinality(NewerUnits(WritesOf(q), sheet[q].at)) + n.spent
        /\ Cardinality(NewerUnits(WritesOf(q)', sheet[q].at)) \in Nat
        /\ Cardinality(NewerUnits(WritesOf(q), sheet[q].at)) \in Nat
    BY <1>1, <1>2, <2>1, NewerAdds, NewerIsFinite
  <2> QED
    BY <1>1, <1>2, <1>3, <2>2 DEF QuestionInv, TimeReserved
<1> QED
  BY <1>7, <1>8, <1>9, <1>10 DEF QuestionInv

(* The server takes a batch.                                               *)
LEMMA ServedStep ==
    ASSUME TypeOK, FlightsAreSound, NEW q \in Questions, QuestionInv(q),
           NEW f \in flights, ServeBatch(f)
    PROVE  QuestionInv(q)'
<1>1. /\ now' = now /\ spent' = spent /\ shown' = shown /\ pending' = pending
      /\ writes' = writes /\ reported' = reported
  BY DEF ServeBatch, page, history
<1>2. WritesOf(q)' \subseteq WritesOf(q)
  <2>1. ASSUME NEW g \in flights'
        PROVE  \E h \in flights : g.answers = h.answers
    BY ServedIs
  <2> QED
    BY <1>1, <2>1, HeldIs
<1>3. CASE sheet'[q] = sheet[q]
  BY <1>1, <1>2, <1>3, QuietStep
<1>4. ASSUME NEW i \in DOMAIN f.answers, f.answers[i] \in Answers,
             f.answers[i].question = q, f.answers[i].at >= sheet[q].at,
             sheet'[q] = [option |-> f.answers[i].option, at |-> f.answers[i].at,
                          spent |-> sheet[q].spent + Delta(sheet, f.answers[i])]
      PROVE  QuestionInv(q)'
  <2> DEFINE w == f.answers[i]
  <2>1. /\ w \in WritesOf(q) /\ w \in Answers /\ w.question = q
        /\ w.at \in Nat /\ w.option \in Responses /\ w.spent \in Nat
        /\ w.at >= sheet[q].at
    BY <1>4, HeldIs, AnswerFields
  <2>2. /\ sheet'[q].option = w.option /\ sheet'[q].at = w.at
        /\ sheet'[q].spent = sheet[q].spent + Delta(sheet, w)
    BY <1>4
  <2>3. /\ WritesOf(q) \in SUBSET Answers /\ \A v \in WritesOf(q) : v.at \in Nat
        /\ sheet[q].at \in Int /\ sheet[q].spent \in Nat /\ reported[q] \in Nat
    BY HeldAreAnswers, AnswerFields, TypeParts, SheetFields DEF TypeOK
  <2>4. w.option # Absent
    BY <2>1, AnswerBatchAssumption DEF Responses
  <2> HIDE DEF w
  <2>5. Past(q)'
    BY <1>1, <1>2, <2>1, <2>2, <2>4 DEF QuestionInv, Past
  <2>6. SameMoment(q)'
    BY <1>1, <1>2, <2>1, <2>2 DEF QuestionInv, SameMoment
  <2>7. FirstAnswer(q)'
    BY <1>1, <1>2, <2>1, <2>2, <2>4 DEF QuestionInv, FirstAnswer
  <2>8. TimeReserved(q)'
    <3>1. WritesOf(q)' \in SUBSET WritesOf(q) /\ WritesOf(q)' \in SUBSET Answers
      BY <1>2, <2>3
    <3>2. /\ Cardinality(NewerUnits(WritesOf(q)', w.at)) \in Nat
          /\ Cardinality(NewerUnits(WritesOf(q), sheet[q].at)) \in Nat
      BY <2>3, <3>1, NewerIsFinite
    <3>3. CASE w.at > sheet[q].at
      <4>1. Delta(sheet, w) = w.spent
        BY <2>1, <3>3, TypeParts, DeltaIs
      <4>2. Cardinality(NewerUnits(WritesOf(q)', w.at)) + w.spent
              <= Cardinality(NewerUnits(WritesOf(q), sheet[q].at))
        BY <2>1, <2>3, <3>1, <3>3, NewerTakes
      <4> QED
        BY <1>1, <2>1, <2>2, <2>3, <3>2, <4>1, <4>2 DEF QuestionInv, TimeReserved
    <3>4. CASE w.at = sheet[q].at
      <4>1. Delta(sheet, w) = 0
        BY <2>1, <3>4, TypeParts, DeltaIs
      <4>2. Cardinality(NewerUnits(WritesOf(q)', w.at))
              <= Cardinality(NewerUnits(WritesOf(q), sheet[q].at))
        BY <2>1, <2>3, <3>1, <3>4, NewerShrinks
      <4> QED
        BY <1>1, <2>1, <2>2, <2>3, <3>2, <4>1, <4>2 DEF QuestionInv, TimeReserved
    <3> QED
      BY <2>1, <2>3, <3>3, <3>4
  <2> QED
    BY <2>5, <2>6, <2>7, <2>8 DEF QuestionInv
<1> QED
  BY <1>3, <1>4, ServedIs

(* A flight carries what another carried before, or answers of the queue.  *)
LEMMA FlightsCarry ==
    ASSUME TypeOK, FlightsAreSound, LastFlush, [Next]_vars, NEW g \in flights'
    PROVE  \/ \E f \in flights : g.answers = f.answers
           \/ \A i \in DOMAIN g.answers : \E j \in DOMAIN pending : g.answers[i] = pending[j]
<1>1. ASSUME pending # <<>>, NEW purpose \in {"sync", "submit"}, g = Flight(purpose)
      PROVE  \A i \in DOMAIN g.answers : \E j \in DOMAIN pending : g.answers[i] = pending[j]
  BY <1>1, FlightIs, TypeParts, FirstOfIs
<1>2. CASE g \in flights
  BY <1>2
<1>3. CASE Sync
  BY <1>1, <1>2, <1>3 DEF Sync, Send
<1>4. ASSUME NEW f \in flights, ServeBatch(f)
      PROVE  \E h \in flights : g.answers = h.answers
  BY <1>4, ServedIs
<1>5. ASSUME NEW f \in flights, BatchLost(f)
      PROVE  \E h \in flights : g.answers = h.answers
  <2>1. [f EXCEPT !.awaited = FALSE].answers = f.answers
    BY DEF TypeOK, Flights
  <2>2. g \in flights \/ g = [f EXCEPT !.awaited = FALSE]
    BY <1>5 DEF BatchLost
  <2> QED
    BY <2>1, <2>2
<1>6. ASSUME NEW why, BeginSubmission(why)
      PROVE  g \in flights \/ (pending # <<>> /\ g = Flight("submit"))
  BY <1>6, BeginIs
<1>7. \/ flights' \subseteq flights \/ Sync
      \/ \E f \in flights : ServeBatch(f) \/ BatchLost(f)
      \/ \E why \in {"manual", "expiry"} : BeginSubmission(why)
  BY DEF Next, vars, page, server, history, network, Tick, Select, Answer,
         BatchStored, BatchRefused, Expire, SubmitManually, SubmitOnExpiry,
         ServeSubmission, Submitted, PostFails
<1> QED
  BY <1>1, <1>2, <1>3, <1>4, <1>5, <1>6, <1>7

(* If the queue has nothing new of the question, no more of it is held.    *)
LEMMA HeldShrinks ==
    ASSUME TypeOK, FlightsAreSound, LastFlush, [Next]_vars, NEW q,
           \A i \in DOMAIN pending' : pending'[i].question = q =>
             \E j \in DOMAIN pending : pending'[i] = pending[j]
    PROVE  WritesOf(q)' \subseteq WritesOf(q)
<1> SUFFICES ASSUME NEW w \in WritesOf(q)' PROVE w \in WritesOf(q)
  OBVIOUS
<1>1. CASE \E i \in DOMAIN pending' : w = pending'[i] /\ w.question = q
  BY <1>1, HeldIs
<1>2. ASSUME NEW g \in flights', NEW i \in DOMAIN g.answers,
             w = g.answers[i], w.question = q
      PROVE  w \in WritesOf(q)
  BY <1>2, FlightsCarry, HeldIs
<1> QED
  BY <1>1, <1>2, HeldIs

(* The answer queued is the only one that is new.                          *)
LEMMA HeldGrows ==
    ASSUME TypeOK, FlightsAreSound, LastFlush, [Next]_vars, NEW q \in Questions,
           NEW p \in Questions, NEW r \in Responses, QueueAnswer(p, r)
    PROVE  /\ WritesOf(q)' \subseteq WritesOf(q) \cup {WriteOf(p, r)}
           /\ q # p => /\ WritesOf(q)' \subseteq WritesOf(q)
                       /\ (\E i \in DOMAIN pending : pending[i].question = q) =>
                            \E i \in DOMAIN pending' : pending'[i].question = q
<1> DEFINE n == WriteOf(p, r)
<1>1. n \in Answers /\ n.question = p
  BY QueueAnswerTyped DEF WriteOf
<1>2. /\ pending' = Queue(pending, n)
      /\ pending \in Seq(Answers) /\ OneEach(pending)
  BY TypeParts DEF QueueAnswer
<1> HIDE DEF n
<1>3. /\ \A i \in DOMAIN pending' :
           pending'[i] = n \/ \E j \in DOMAIN pending : pending'[i] = pending[j]
      /\ \A j \in DOMAIN pending : pending[j].question # p =>
           \E i \in DOMAIN pending' : pending'[i] = pending[j]
  <2> DEFINE new == Queue(pending, n)
  <2>1. /\ \A i \in DOMAIN new :
             new[i] = n \/ \E j \in DOMAIN pending : new[i] = pending[j]
        /\ \A j \in DOMAIN pending : pending[j].question # n.question =>
             \E i \in DOMAIN new : new[i] = pending[j]
    BY <1>1, <1>2, QueueIs
  <2> HIDE DEF new
  <2>2. pending' = new
    BY <1>2 DEF new
  <2> QED
    BY <1>1, <2>1, <2>2
<1>4. WritesOf(q)' \subseteq WritesOf(q) \cup {n}
  <2> SUFFICES ASSUME NEW w \in WritesOf(q)' PROVE w \in WritesOf(q) \/ w = n
    OBVIOUS
  <2>1. CASE \E i \in DOMAIN pending' : w = pending'[i] /\ w.question = q
    BY <1>3, <2>1, HeldIs
  <2>2. ASSUME NEW g \in flights', NEW i \in DOMAIN g.answers,
               w = g.answers[i], w.question = q
        PROVE  w \in WritesOf(q)
    BY <2>2, FlightsCarry, HeldIs
  <2> QED
    BY <2>1, <2>2, HeldIs
<1>5. q # p => WritesOf(q)' \subseteq WritesOf(q)
  BY <1>1, <1>4, HeldIs
<1> QED
  BY <1>3, <1>4, <1>5 DEF n

(* Every step keeps what holds of a question.                              *)
LEMMA QuestionStep ==
    ASSUME ExamInv, [Next]_vars, NEW q \in Questions
    PROVE  QuestionInv(q)'
<1>1. TypeOK /\ FlightsAreSound /\ LastFlush /\ QuestionInv(q)
  BY DEF ExamInv
<1> DEFINE Same == /\ now' = now /\ spent' = spent /\ shown' = shown
                   /\ sheet' = sheet /\ writes' = writes /\ reported' = reported
<1>2. CASE Tick
  BY <1>1, <1>2, TickStep
<1>3. CASE Same /\ pending' = pending
  BY <1>1, <1>3, HeldShrinks, QuietStep
<1>4. ASSUME NEW f \in flights, ServeBatch(f) PROVE QuestionInv(q)'
  BY <1>1, <1>4, ServedStep
<1>5. ASSUME NEW f \in flights, BatchStored(f) PROVE QuestionInv(q)'
  <2>1. Same /\ pending' = Unsettled(f)
    BY <1>5 DEF BatchStored, server, history
  <2>2. pending \in Seq(Answers) /\ OneEach(pending)
    BY <1>1, TypeParts
  <2>3. WritesOf(q)' \subseteq WritesOf(q)
    BY <1>1, <2>1, <2>2, UnsettledIs, HeldShrinks
  <2>4. CASE q \in Settled(f)
    <3>1. PICK i \in DOMAIN f.answers : f.answers[i].question = q
      BY <2>4 DEF Settled
    <3>2. f.answers \in Seq(Answers)
      BY <1>1, TypeParts
    <3>3. f.answers[i] \in Answers
      BY <3>2, LenProperties, ElementOfSeq
    <3>4. sheet[q].at >= f.answers[i].at /\ f.answers[i].at \in Nat
      BY <1>1, <1>5, <3>1, <3>3, AnswerFields
         DEF BatchStored, FlightsAreSound, OnSheet
    <3>5. InSheet(q)
      BY <1>1, <3>4 DEF QuestionInv, Past, InSheet
    <3> QED
      BY <1>1, <2>1, <2>3, <3>5, QuietStep
  <2>5. CASE q \notin Settled(f)
    <3>1. (\E i \in DOMAIN pending : pending[i].question = q) =>
            \E i \in DOMAIN pending' : pending'[i].question = q
      BY <2>1, <2>2, <2>5, UnsettledIs
    <3> QED
      BY <1>1, <2>1, <2>3, <3>1, QuietStep
  <2> QED
    BY <2>4, <2>5
<1>6. ASSUME NEW p \in Questions, NEW r \in Responses, QueueAnswer(p, r),
             now' = now, spent' = spent, sheet' = sheet,
             shown' = [shown EXCEPT ![p] = r],
             \/ r = shown[p]
             \/ (\A w \in WritesOf(p) : w.at < now) /\ sheet[p].at < now
      PROVE  QuestionInv(q)'
  <2>1. CASE q = p
    <3>1. shown'[q] = r
      BY <1>1, <1>6, <2>1 DEF TypeOK
    <3>2. WritesOf(q)' \subseteq WritesOf(q) \cup {WriteOf(q, r)}
      BY <1>1, <1>6, <2>1, HeldGrows
    <3> QED
      BY <1>1, <1>6, <2>1, <3>1, <3>2, QueuedStep
  <2>2. CASE q # p
    <3>1. /\ WritesOf(q)' \subseteq WritesOf(q)
          /\ (\E i \in DOMAIN pending : pending[i].question = q) =>
               \E i \in DOMAIN pending' : pending'[i].question = q
      BY <1>1, <1>6, <2>2, HeldGrows
    <3>2. /\ shown'[q] = shown[q] /\ writes'[q] = writes[q]
          /\ reported'[q] = reported[q] /\ spent'[q] = spent[q]
          /\ sheet'[q] = sheet[q] /\ now' = now
      BY <1>1, <1>6, <2>2 DEF QueueAnswer, TypeOK
    <3> QED
      BY <1>1, <3>1, <3>2, QuietStep
  <2> QED
    BY <2>1, <2>2
<1>7. ASSUME NEW r \in Responses, Answer(r) PROVE QuestionInv(q)'
  <2>1. selected \in Questions
    BY <1>1 DEF TypeOK
  <2> QED
    BY <1>6, <1>7, <2>1 DEF Answer, server
<1>8. CASE SubmitManually
  <2>1. selected \in Questions /\ shown[selected] \in Responses
    BY <1>1 DEF TypeOK
  <2>2. shown' = [shown EXCEPT ![selected] = shown[selected]]
    BY <1>1, <1>8 DEF SubmitManually, TypeOK
  <2>3. /\ QueueAnswer(selected, shown[selected])
        /\ now' = now /\ spent' = spent /\ sheet' = sheet
    BY <1>8 DEF SubmitManually, server
  <2> QED
    BY <1>6, <2>1, <2>2, <2>3
<1>9. \/ Tick \/ (Same /\ pending' = pending)
      \/ \E r \in Responses : Answer(r)
      \/ SubmitManually
      \/ \E f \in flights : ServeBatch(f) \/ BatchStored(f)
  BY DEF Next, vars, page, server, history, network, Select, Sync,
         BatchRefused, BatchLost, Expire, SubmitOnExpiry,
         ServeSubmission, Submitted, PostFails
<1> HIDE DEF Same
<1> QED
  BY <1>2, <1>3, <1>4, <1>5, <1>7, <1>8, <1>9

-----------------------------------------------------------------------------
(* The theorems about the exam page and the server.                        *)

(* Nothing is answered when the page opens.                                *)
LEMMA ExamInit == Init => ExamInv
<1> SUFFICES ASSUME Init PROVE ExamInv
  OBVIOUS
<1>1. \A q \in Questions : WritesOf(q) = {}
  BY EmptySeq DEF Init, WritesOf, ToSet
<1>2. TypeOK
  <2>1. /\ -Interval \in -Interval..Horizon /\ 0 \in Clock
        /\ 0 \in 0..MaxLosses /\ 0 \in 0..MaxWrites
    BY AnswerBatchAssumption, ExamClientAssumption DEF Clock
  <2>2. NoAnswers \in [Questions -> [option : Responses \cup {Absent},
                                     at : Clock \cup {-1}, spent : Nat]]
    BY DEF NoAnswers
  <2>3. <<>> \in Seq(Writes(Clock)) /\ DOMAIN <<>> = {}
    OBVIOUS
  <2> QED
    BY <2>1, <2>2, <2>3, ExamClientAssumption DEF Init, TypeOK, Responses
<1>3. FlightsAreSound /\ LastFlush /\ FlushedBeforePost
  BY DEF Init, FlightsAreSound, LastFlush, FlushedBeforePost
<1>4. TimeWithinElapsed
  BY DEF Init, TimeWithinElapsed, InSheet, NoAnswers
<1>5. ASSUME NEW q \in Questions PROVE QuestionInv(q)
  <2>1. /\ sheet[q] = [option |-> Absent, at |-> -1, spent |-> 0]
        /\ now = 0 /\ spent[q] = 0 /\ writes[q] = 0 /\ reported[q] = 0
    BY DEF Init, NoAnswers
  <2>2. Past(q) /\ SameMoment(q) /\ FirstAnswer(q)
    BY <1>1, <2>1 DEF Past, SameMoment, FirstAnswer
  <2>3. NewerUnits({}, -1) = {}
    BY DEF NewerUnits
  <2>4. TimeReserved(q)
    BY <1>1, <2>1, <2>3, FS_EmptySet DEF TimeReserved
  <2> QED
    BY <2>2, <2>4 DEF QuestionInv
<1> QED
  BY <1>2, <1>3, <1>4, <1>5 DEF ExamInv

(* Every step keeps the invariant of the page and the server.              *)
LEMMA ExamStep == ExamInv /\ [Next]_vars => ExamInv'
<1> SUFFICES ASSUME ExamInv, [Next]_vars PROVE ExamInv'
  OBVIOUS
<1>1. /\ TypeOK /\ FlightsAreSound /\ LastFlush /\ FlushedBeforePost
      /\ TimeWithinElapsed
      /\ \A q \in Questions : spent[q] <= now
  BY DEF ExamInv, QuestionInv, Past
<1>2. \A q \in Questions : QuestionInv(q)'
  BY QuestionStep
<1>3. TypeOK' /\ FlightsAreSound' /\ LastFlush' /\ TimeWithinElapsed'
  BY <1>1, TypeStep, FlightsStep, LastFlushStep, ElapsedStep
<1>4. FlushedBeforePost'
  BY <1>1, <1>2, FlushedStep DEF QuestionInv
<1> QED
  BY <1>2, <1>3, <1>4 DEF ExamInv

(* The inductive invariant of ExamClient: what is held of a question, on    *)
(* the page, under way and on the sheet, belongs to one history of writes. *)
THEOREM ExamInvariant == Spec => []ExamInv
  BY ExamInit, ExamStep, PTL DEF Spec

(* ExamClient is type correct: above all no batch is empty or too long, and *)
(* no question is twice in the queue.                                      *)
THEOREM ExamTypeCorrect == Spec => []TypeOK
<1>1. ExamInv => TypeOK
  BY DEF ExamInv
<1> QED
  BY <1>1, ExamInvariant, PTL

(* A question answered once is on the sheet or in the queue, through failed, *)
(* repeated and late batches.                                              *)
THEOREM AnsweredOnceIsKeptAlways == Spec => []AnsweredOnceIsKept
<1>1. ASSUME ExamInv PROVE AnsweredOnceIsKept
  <2> SUFFICES ASSUME NEW q \in Questions, writes[q] = 1
               PROVE  \/ sheet[q].option = shown[q]
                      \/ \E i \in DOMAIN pending :
                           pending[i].question = q /\ pending[i].option = shown[q]
    BY DEF AnsweredOnceIsKept
  <2>1. /\ \A w \in WritesOf(q) : w.option = shown[q]
        /\ sheet[q].option = Absent =>
             \E i \in DOMAIN pending : pending[i].question = q
        /\ sheet[q].option \in {Absent, shown[q]}
    BY <1>1 DEF ExamInv, QuestionInv, FirstAnswer
  <2>2. \A i \in DOMAIN pending : pending[i].question = q => pending[i] \in WritesOf(q)
    BY HeldIs
  <2> QED
    BY <2>1, <2>2
<1> QED
  BY <1>1, ExamInvariant, PTL

(* The server counts the time of every answer at most once.                *)
THEOREM TimeCountedOnceAlways == Spec => []TimeCountedOnce
<1>1. ASSUME ExamInv PROVE TimeCountedOnce
  <2> SUFFICES ASSUME NEW q \in Questions PROVE sheet[q].spent <= reported[q]
    BY DEF TimeCountedOnce
  <2>1. TypeOK /\ TimeReserved(q)
    BY <1>1 DEF ExamInv, QuestionInv
  <2>2. sheet[q].spent \in Nat /\ reported[q] \in Nat
    BY <2>1, TypeParts, SheetFields DEF TypeOK
  <2>3. Cardinality(NewerUnits(WritesOf(q), sheet[q].at)) \in Nat
    BY <2>1, HeldAreAnswers, NewerIsFinite
  <2> QED
    BY <2>1, <2>2, <2>3 DEF TimeReserved
<1> QED
  BY <1>1, ExamInvariant, PTL

(* The stored times add up to no more than the exam had lasted.            *)
THEOREM TimeWithinElapsedAlways == Spec => []TimeWithinElapsed
<1>1. ExamInv => TimeWithinElapsed
  BY DEF ExamInv
<1> QED
  BY <1>1, ExamInvariant, PTL

(* The last flush is on the sheet when the page asks for the grading.      *)
THEOREM FlushedBeforePostAlways == Spec => []FlushedBeforePost
<1>1. ExamInv => FlushedBeforePost
  BY DEF ExamInv
<1> QED
  BY <1>1, ExamInvariant, PTL

(* A question's stored answer is replaced by one given later, or stays.    *)
LEMMA NewestStep ==
    ASSUME ExamInv, [Next]_vars, NEW q \in Questions
    PROVE  /\ sheet'[q].at >= sheet[q].at
           /\ sheet'[q].at = sheet[q].at => sheet'[q] = sheet[q]
<1>1. TypeOK /\ FlightsAreSound
  BY DEF ExamInv
<1>2. sheet'[q].at >= sheet[q].at
  BY <1>1, SheetGrows
<1>3. ASSUME sheet'[q].at = sheet[q].at, sheet'[q] # sheet[q]
      PROVE  FALSE
  <2>1. PICK f \in flights : ServeBatch(f)
    BY <1>3, SheetChanges
  <2>2. PICK i \in DOMAIN f.answers :
          /\ f.answers[i] \in Answers /\ f.answers[i].question = q
          /\ sheet'[q] = [option |-> f.answers[i].option,
                          at |-> f.answers[i].at,
                          spent |-> sheet[q].spent
                                      + Delta(sheet, f.answers[i])]
    BY <1>1, <1>3, <2>1, ServedIs
  <2> DEFINE w == f.answers[i]
  <2>3. w.at = sheet[q].at /\ w \in WritesOf(q) /\ w \in Answers /\ w.question = q
    BY <1>3, <2>2, HeldIs
  <2> HIDE DEF w
  <2>4. w.option = sheet[q].option
    BY <2>3 DEF ExamInv, QuestionInv, SameMoment
  <2>5. w.at \in Nat /\ sheet \in Sheets /\ sheet[q].spent \in Nat
    BY <1>1, <2>3, AnswerFields, TypeParts, SheetFields
  <2>6. Delta(sheet, w) = 0
    BY <2>3, <2>5, DeltaIs
  <2>7. sheet'[q] = [option |-> sheet[q].option, at |-> sheet[q].at,
                     spent |-> sheet[q].spent]
    BY <2>2, <2>3, <2>4, <2>5, <2>6 DEF w
  <2>8. sheet[q] \in [option : Responses \cup {Absent},
                      at : Clock \cup {-1}, spent : Nat]
    BY <2>5 DEF Sheets
  <2> QED
    BY <1>3, <2>7, <2>8
<1> QED
  BY <1>2, <1>3

(* No batch, however late or often it arrives, brings an old answer back.  *)
THEOREM NewestStaysAlways == Spec => NewestStays
<1> DEFINE Stays == \A q \in Questions :
                     /\ sheet'[q].at >= sheet[q].at
                     /\ sheet'[q].at = sheet[q].at => sheet'[q] = sheet[q]
<1>1. ExamInv /\ [Next]_vars => [Stays]_vars
  BY NewestStep
<1> QED
  BY <1>1, ExamInvariant, PTL DEF Spec, NewestStays

-----------------------------------------------------------------------------
(* The page and the server implement ExamRecord.                           *)

\* What is held of a question is in the queue, or something newer is, until
\* the question is on the sheet: only the reply to a stored batch takes a
\* question out of the queue.
HeldIsQueued ==
  \A q \in Questions : \A w \in WritesOf(q) :
    \/ InSheet(q)
    \/ \E i \in DOMAIN pending : pending[i].question = q /\ pending[i].at >= w.at

(* A question on the sheet stays on it.                                    *)
LEMMA InSheetStays ==
    ASSUME ExamInv, [Next]_vars, NEW q \in Questions, InSheet(q)
    PROVE  InSheet(q)'
<1>1. sheet[q].at \in Int /\ sheet[q].at >= -1
  BY TypeParts, SheetFields DEF ExamInv
<1>2. sheet[q].at # -1
  BY DEF ExamInv, QuestionInv, Past, InSheet
<1>3. sheet'[q].at >= sheet[q].at /\ sheet'[q].at \in Int
  BY SheetGrows DEF ExamInv
<1>4. sheet'[q].at # -1
  BY <1>1, <1>2, <1>3
<1> QED
  BY <1>4, QuestionStep DEF QuestionInv, Past, InSheet

(* What is queued stays so, or something newer does, until its question is *)
(* on the sheet.                                                           *)
LEMMA QueuedStays ==
    ASSUME ExamInv, [Next]_vars, NEW w, \E i \in DOMAIN pending : w = pending[i]
    PROVE  \/ InSheet(w.question)'
           \/ \E j \in DOMAIN pending' : /\ pending'[j].question = w.question
                                         /\ pending'[j].at >= w.at
<1>1. TypeOK /\ FlightsAreSound /\ pending \in Seq(Answers) /\ OneEach(pending)
  BY TypeParts DEF ExamInv
<1>2. w \in Answers /\ w.question \in Questions /\ w.at \in Nat
  BY <1>1, LenProperties, ElementOfSeq, AnswerFields
<1>3. CASE pending' = pending
  BY <1>2, <1>3
<1>4. ASSUME NEW f \in flights, BatchStored(f)
      PROVE  \/ InSheet(w.question)'
             \/ \E j \in DOMAIN pending' : pending'[j] = w
  <2>1. pending' = Unsettled(f)
    BY <1>4 DEF BatchStored
  <2>2. CASE w.question \notin Settled(f)
    BY <1>1, <2>1, <2>2, UnsettledIs
  <2>3. CASE w.question \in Settled(f)
    <3>1. PICK k \in DOMAIN f.answers : f.answers[k].question = w.question
      BY <2>3 DEF Settled
    <3>2. f.answers[k] \in Answers /\ f.answers[k].at \in Nat
      BY <1>1, TypeParts, LenProperties, ElementOfSeq, AnswerFields
    <3>3. sheet[w.question].at >= f.answers[k].at /\ sheet[w.question].at \in Int
      BY <1>1, <1>2, <1>4, <3>1, TypeParts, SheetFields
      DEF BatchStored, FlightsAreSound, OnSheet
    <3>4. sheet[w.question].at # -1
      BY <3>2, <3>3
    <3>5. InSheet(w.question)
      BY <1>2, <3>4 DEF ExamInv, QuestionInv, Past, InSheet
    <3> QED
      BY <1>2, <3>5, InSheetStays
  <2> QED
    BY <2>2, <2>3
<1>5. ASSUME NEW p \in Questions, NEW r \in Responses, QueueAnswer(p, r)
      PROVE  \E j \in DOMAIN pending' : /\ pending'[j].question = w.question
                                        /\ pending'[j].at >= w.at
  <2> DEFINE n == WriteOf(p, r)
             new == Queue(pending, n)
  <2>1. n \in Answers /\ n.question = p /\ n.at = now
    BY <1>1, <1>5, QueueAnswerTyped DEF WriteOf
  <2>2. pending' = new
    BY <1>5 DEF QueueAnswer
  <2> HIDE DEF n
  <2>3. /\ \E j \in DOMAIN new : new[j] = n
        /\ \A i \in DOMAIN pending : pending[i].question # n.question =>
             \E j \in DOMAIN new : new[j] = pending[i]
    BY <1>1, <2>1, QueueIs
  <2> HIDE DEF new
  <2>4. CASE w.question = p
    <3>1. w \in WritesOf(p)
      BY <1>1, <2>4, HeldIs
    <3>2. w.at <= now
      BY <3>1 DEF ExamInv, QuestionInv, Past
    <3> QED
      BY <1>2, <2>1, <2>2, <2>3, <2>4, <3>2
  <2>5. CASE w.question # p
    BY <1>2, <2>1, <2>2, <2>3, <2>5
  <2> QED
    BY <2>4, <2>5
<1>6. \/ pending' = pending
      \/ \E f \in flights : BatchStored(f)
      \/ \E p \in Questions, r \in Responses : QueueAnswer(p, r)
  <2>1. CASE SubmitManually
    <3>1. selected \in Questions /\ shown[selected] \in Responses
      BY <1>1 DEF TypeOK
    <3> QED
      BY <2>1, <3>1 DEF SubmitManually
  <2>2. ASSUME NEW r \in Responses, Answer(r)
        PROVE  selected \in Questions /\ QueueAnswer(selected, r)
    BY <1>1, <2>2 DEF Answer, TypeOK
  <2>3. CASE [Next]_vars /\ ~SubmitManually /\ ~\E r \in Responses : Answer(r)
    BY <2>3 DEF Next, vars, page, server, history, network, Tick, Select, Sync,
                ServeBatch, BatchRefused, BatchLost, Expire, SubmitOnExpiry,
                ServeSubmission, Submitted, PostFails
  <2> QED
    BY <2>1, <2>2, <2>3
<1>7. CASE \E f \in flights : BatchStored(f)
  BY <1>2, <1>4, <1>7
<1> QED
  BY <1>3, <1>5, <1>6, <1>7

(* What is held of a question is queued, or something newer, after a step  *)
(* too, unless the question is on the sheet.                               *)
LEMMA HeldStays ==
    ASSUME ExamInv, HeldIsQueued, [Next]_vars,
           NEW q \in Questions, NEW w \in WritesOf(q)
    PROVE  \/ InSheet(q)'
           \/ \E j \in DOMAIN pending' : pending'[j].question = q /\ pending'[j].at >= w.at
<1>1. CASE InSheet(q)
  BY <1>1, InSheetStays
<1>2. ASSUME NEW i \in DOMAIN pending, pending[i].question = q, pending[i].at >= w.at
      PROVE  \/ InSheet(q)'
             \/ \E j \in DOMAIN pending' : pending'[j].question = q
                                           /\ pending'[j].at >= w.at
  <2>1. w.at \in Int /\ pending[i].at \in Int
    BY HeldAreAnswers, TypeParts, LenProperties, ElementOfSeq, AnswerFields DEF ExamInv
  <2>2. \A j \in DOMAIN pending' : pending'[j].at \in Int
    <3>1. TypeOK'
      BY ExamStep DEF ExamInv
    <3>2. pending' \in Seq(Answers)
      BY <3>1 DEF TypeOK, Answers
    <3> QED
      BY <3>2, LenProperties, ElementOfSeq, AnswerFields
  <2>3. \/ InSheet(q)'
        \/ \E j \in DOMAIN pending' : pending'[j].question = q
                                      /\ pending'[j].at >= pending[i].at
    BY <1>2, QueuedStays
  <2> QED
    BY <1>2, <2>1, <2>2, <2>3
<1> QED
  BY <1>1, <1>2 DEF HeldIsQueued

(* Every step keeps this.                                                  *)
LEMMA HeldIsQueuedStep ==
    ASSUME ExamInv, HeldIsQueued, [Next]_vars
    PROVE  HeldIsQueued'
<1> SUFFICES ASSUME NEW q \in Questions, NEW w \in WritesOf(q)'
             PROVE  \/ InSheet(q)'
                    \/ \E i \in DOMAIN pending' : pending'[i].question = q
                                                  /\ pending'[i].at >= w.at
  BY DEF HeldIsQueued
<1>1. CASE \E i \in DOMAIN pending' : w = pending'[i] /\ w.question = q
  <2>1. TypeOK'
    BY ExamStep DEF ExamInv
  <2>2. pending' \in Seq(Answers)
    BY <2>1 DEF TypeOK, Answers
  <2>3. w.at \in Int
    BY <1>1, <2>2, LenProperties, ElementOfSeq, AnswerFields
  <2> QED
    BY <1>1, <2>3
<1>2. ASSUME NEW g \in flights', NEW i \in DOMAIN g.answers,
             w = g.answers[i], w.question = q
      PROVE  w \in WritesOf(q)
  BY <1>2, FlightsCarry, HeldIs DEF ExamInv
<1> QED
  BY <1>1, <1>2, HeldIs, HeldStays

(* What ExamRecord holds.                                                  *)
LEMMA HeldIsWrites ==
    ASSUME TypeOK
    PROVE  /\ \A w : w \in Held <=> w.question \in Questions /\ w \in WritesOf(w.question)
           /\ \A w \in Held : w \in Answers
<1>1. \A q \in Questions : \A w \in WritesOf(q) : w \in Answers /\ w.question = q
  BY HeldAreAnswers, HeldIs
<1> QED
  BY <1>1 DEF Held

(* No step loses all that is held of a question.                           *)
LEMMA NoneIsLost ==
    ASSUME ExamInv, HeldIsQueued, [Next]_vars
    PROVE  Record!NoneLost
<1> SUFFICES ASSUME NEW w \in Held
             PROVE  \/ sheet'[w.question].option # Absent
                    \/ \E v \in Held' : v.question = w.question /\ v.at >= w.at
  BY DEF Record!NoneLost
<1>1. w.question \in Questions /\ w \in WritesOf(w.question)
  BY HeldIsWrites DEF ExamInv
<1>2. \/ InSheet(w.question)'
      \/ \E j \in DOMAIN pending' : pending'[j].question = w.question
                                    /\ pending'[j].at >= w.at
  BY <1>1, HeldStays
<1>3. \A j \in DOMAIN pending' : pending'[j].question = w.question =>
        pending'[j] \in WritesOf(w.question)'
  BY <1>1, HeldIs
<1>4. WritesOf(w.question)' \subseteq Held'
  BY <1>1 DEF Held
<1> QED
  BY <1>2, <1>3, <1>4 DEF InSheet

(* A step that queues an answer gives it.                                  *)
LEMMA QueueAnswerGives ==
    ASSUME ExamInv, HeldIsQueued, [Next]_vars,
           NEW p \in Questions, NEW r \in Responses, QueueAnswer(p, r),
           sheet' = sheet, status' = status,
           (\A v \in WritesOf(p) : v.at < now) \/ r = shown[p]
    PROVE  Record!Give(WriteOf(p, r)) /\ WriteOf(p, r) \in Answers
<1> DEFINE n == WriteOf(p, r)
<1>1. TypeOK /\ FlightsAreSound /\ LastFlush
  BY DEF ExamInv
<1>2. n \in Answers /\ pending \in Seq(Answers) /\ OneEach(pending)
  BY <1>1, QueueAnswerTyped, TypeParts
<1>3. n = [question |-> p, option |-> r, at |-> now, spent |-> spent[p]]
  BY DEF WriteOf
<1>4. sheet[p].at <= now
  BY <1>1 DEF ExamInv, QuestionInv, Past
<1>5. ASSUME NEW v \in Held, v.question = p PROVE v.at < now \/ v = n
  <2>1. v \in Answers /\ v \in WritesOf(p)
    BY <1>1, <1>5, HeldIsWrites
  <2>2. CASE v.at < now
    BY <2>2
  <2>3. CASE r = shown[p] /\ ~(v.at < now)
    <3>1. v.at <= now
      BY <2>1 DEF ExamInv, QuestionInv, Past
    <3>2. v.at \in Int /\ now \in Int
      BY <1>1, <2>1, AnswerFields, ExamClientAssumption DEF TypeOK, Clock
    <3>3. v.at = now
      BY <2>3, <3>1, <3>2
    <3>4. v.option = r /\ v.spent = spent[p]
      BY <1>1, <2>1, <2>3, <3>3 DEF ExamInv, QuestionInv, SameMoment
    <3>5. v = [question |-> v.question, option |-> v.option, at |-> v.at,
               spent |-> v.spent]
      BY <2>1 DEF Answers, Writes
    <3> QED
      BY <1>3, <1>5, <3>3, <3>4, <3>5
  <2> QED
    BY <2>1, <2>2, <2>3
<1>6. n \in Held'
  <2>1. \E i \in DOMAIN pending' : pending'[i] = n
    BY <1>2, QueueIs DEF QueueAnswer
  <2>2. n \in WritesOf(p)'
    BY <1>3, <2>1, HeldIs
  <2> QED
    BY <1>1, <2>2 DEF Held
<1>7. Held' \subseteq Held \cup {n}
  <2>1. \A q \in Questions : WritesOf(q)' \subseteq WritesOf(q) \cup {n}
    BY <1>1, HeldGrows
  <2> QED
    BY <2>1 DEF Held
<1>8. n.question = p /\ n.at = now
  BY <1>3
<1> HIDE DEF n
<1> QED
  BY <1>2, <1>4, <1>5, <1>6, <1>7, <1>8, NoneIsLost DEF Record!Give, n

(* A step that stores a batch records answers held.                        *)
LEMMA ServedIsStored ==
    ASSUME ExamInv, HeldIsQueued, [Next]_vars, NEW f \in flights, ServeBatch(f)
    PROVE  Record!Store \/ Record!Drop
<1>1. TypeOK /\ FlightsAreSound /\ LastFlush /\ sheet \in Sheets
  BY TypeParts DEF ExamInv
<1>2. Held' \subseteq Held /\ status' = status
  <2>1. pending' = pending /\ status' = status
    BY DEF ServeBatch, page
  <2>2. \A q \in Questions : WritesOf(q)' \subseteq WritesOf(q)
    BY <1>1, <2>1, HeldShrinks
  <2> QED
    BY <2>1, <2>2 DEF Held
<1>3. CASE sheet' = sheet
  BY <1>2, <1>3, NoneIsLost DEF Record!Drop
<1>4. CASE sheet' # sheet
  <2>1. status = "active"
    BY <1>1, <1>4 DEF TypeOK, ServeBatch, AfterBatch, BatchAccepted, Writable
  <2>2. sheet' = [q \in Questions |-> sheet'[q]]
    <3>1. TypeOK'
      BY ExamStep DEF ExamInv
    <3> QED
      BY <3>1 DEF TypeOK
  <2>3. ASSUME NEW q \in Questions, sheet'[q] # sheet[q]
        PROVE  \E w \in Held : /\ w.question = q /\ w.at > sheet[q].at
                               /\ sheet'[q] = [option |-> w.option, at |-> w.at,
                                               spent |-> sheet[w.question].spent + w.spent]
    <3>1. PICK i \in DOMAIN f.answers :
            /\ f.answers[i] \in Answers /\ f.answers[i].question = q
            /\ f.answers[i].at >= sheet[q].at
            /\ sheet'[q] = [option |-> f.answers[i].option,
                            at |-> f.answers[i].at,
                            spent |-> sheet[q].spent
                                        + Delta(sheet, f.answers[i])]
      BY <1>1, <2>3, ServedIs
    <3> DEFINE w == f.answers[i]
    <3>2. w \in Answers /\ w.question = q /\ w \in WritesOf(q)
      BY <3>1, HeldIs
    <3>3. w.at \in Int /\ w.at >= sheet[q].at /\ sheet[q].at \in Int /\ sheet'[q].at = w.at
      BY <1>1, <3>1, AnswerFields, SheetFields
    <3>4. sheet'[q] = [option |-> w.option, at |-> w.at,
                       spent |-> sheet[q].spent + Delta(sheet, w)]
      BY <3>1
    <3> HIDE DEF w
    <3>5. w.at # sheet[q].at
      BY <2>3, <3>3, NewestStep
    <3>6. w.at > sheet[q].at
      BY <3>3, <3>5
    <3>7. Delta(sheet, w) = w.spent
      BY <1>1, <3>2, <3>6, DeltaIs
    <3>8. w \in Held
      BY <3>2 DEF Held
    <3> QED
      BY <3>2, <3>4, <3>6, <3>7, <3>8
  <2> QED
    BY <1>2, <2>1, <2>2, <2>3, NoneIsLost DEF Record!Store, Record!With
<1> QED
  BY <1>3, <1>4

(* Every other step changes neither the sheet nor adds to what is held; the *)
(* submission closes the record.                                           *)
LEMMA OtherStepsDrop ==
    ASSUME ExamInv, HeldIsQueued, [Next]_vars, sheet' = sheet,
           \A i \in DOMAIN pending' : \E j \in DOMAIN pending : pending'[i] = pending[j],
           status' = status \/ ServeSubmission
    PROVE  Record!Drop \/ Record!Close
<1>1. Held' \subseteq Held
  <2>1. \A q \in Questions : WritesOf(q)' \subseteq WritesOf(q)
    BY HeldShrinks DEF ExamInv
  <2> QED
    BY <2>1 DEF Held
<1>2. CASE status' = status
  BY <1>1, <1>2, NoneIsLost DEF Record!Drop
<1>3. CASE ServeSubmission
  <2>1. pending' = pending /\ flights' = flights /\ status' = "submitted"
    BY <1>3 DEF ServeSubmission, page
  <2>2. Held' = Held
    BY <2>1 DEF Held, WritesOf
  <2> QED
    BY <2>1, <2>2 DEF Record!Close
<1> QED
  BY <1>2, <1>3

(* A step of the page, the network or the server is one of the record.     *)
LEMMA RecordStep ==
    ASSUME ExamInv, HeldIsQueued, [Next]_vars
    PROVE  [Record!Next]_(Record!vars)
<1>1. TypeOK /\ pending \in Seq(Answers) /\ OneEach(pending)
  BY TypeParts DEF ExamInv
<1>2. ASSUME NEW r \in Responses, Answer(r) PROVE Record!Next
  <2>1. PICK p \in Questions :
          /\ p = selected /\ QueueAnswer(p, r)
          /\ \A v \in WritesOf(p) : v.at < now
    BY <1>1, <1>2 DEF Answer, TypeOK
  <2>2. sheet' = sheet /\ status' = status
    BY <1>2 DEF Answer, server
  <2>3. Record!Give(WriteOf(p, r)) /\ WriteOf(p, r) \in Answers
    BY <2>1, <2>2, QueueAnswerGives
  <2> QED
    BY <2>3 DEF Record!Next, Answers
<1>3. CASE SubmitManually
  <2>1. PICK p \in Questions :
          p = selected /\ shown[p] \in Responses /\ QueueAnswer(p, shown[p])
    BY <1>1, <1>3 DEF SubmitManually, TypeOK
  <2>2. sheet' = sheet /\ status' = status
    BY <1>3 DEF SubmitManually, server
  <2>3. Record!Give(WriteOf(p, shown[p])) /\ WriteOf(p, shown[p]) \in Answers
    BY <2>1, <2>2, QueueAnswerGives
  <2> QED
    BY <2>3 DEF Record!Next, Answers
<1>4. ASSUME NEW f \in flights, ServeBatch(f) PROVE Record!Next
  BY <1>4, ServedIsStored DEF Record!Next
<1>5. ASSUME NEW f \in flights, BatchStored(f) PROVE Record!Next
  <2>1. pending' = Unsettled(f) /\ sheet' = sheet /\ status' = status
    BY <1>5 DEF BatchStored, server
  <2>2. \A i \in DOMAIN pending' : \E j \in DOMAIN pending : pending'[i] = pending[j]
    BY <1>1, <2>1, UnsettledIs
  <2> QED
    BY <2>1, <2>2, OtherStepsDrop DEF Record!Next
<1>6. CASE /\ pending' = pending /\ sheet' = sheet
           /\ status' = status \/ ServeSubmission
  BY <1>6, OtherStepsDrop DEF Record!Next
<1>7. \/ \E r \in Responses : Answer(r)
      \/ SubmitManually
      \/ \E f \in flights : ServeBatch(f) \/ BatchStored(f)
      \/ /\ pending' = pending /\ sheet' = sheet
         /\ status' = status \/ ServeSubmission
  BY DEF Next, vars, page, server, history, network, Tick, Select, Sync,
         BatchRefused, BatchLost, Expire, SubmitOnExpiry, ServeSubmission,
         Submitted, PostFails
<1> QED
  BY <1>2, <1>3, <1>4, <1>5, <1>6, <1>7

(* The page, the network and the server together implement ExamRecord: an  *)
(* answer is held until its question is on the sheet, and the sheet moves  *)
(* only forward, to answers held, until the submission.                    *)
THEOREM ExamKeepsRecord == Spec => ImplementsRecord
<1>1. Init => HeldIsQueued /\ Record!Init
  <2> SUFFICES ASSUME Init PROVE HeldIsQueued /\ Record!Init
    OBVIOUS
  <2>1. \A q : WritesOf(q) = {}
    <3>1. DOMAIN pending = {} /\ flights = {}
      BY DEF Init
    <3> QED
      BY <3>1, HeldIs
  <2>2. Held = {} /\ HeldIsQueued
    BY <2>1 DEF Held, HeldIsQueued
  <2>3. status = "active" /\ sheet = NoAnswers
    BY DEF Init
  <2> QED
    BY <2>2, <2>3 DEF Record!Init, NoAnswers
<1>2. ExamInv /\ HeldIsQueued /\ [Next]_vars => HeldIsQueued'
  BY HeldIsQueuedStep
<1>3. ExamInv /\ HeldIsQueued /\ [Next]_vars => [Record!Next]_(Record!vars)
  BY RecordStep
<1> QED
  BY <1>1, <1>2, <1>3, ExamInvariant, PTL DEF Spec, ImplementsRecord, Record!Spec

-----------------------------------------------------------------------------
(* The retry queue.  The order of nextAttemptAt, the tasks and the sweep's *)
(* list only decide which claim comes next: what holds of the jobs needs   *)
(* nothing of them but that a claimed job is one of Jobs.                  *)

\* The values of the variables the argument is about.
Values ==
  /\ trigger \in [Jobs -> TriggerSteps]
  /\ delivered \subseteq Jobs
  /\ doc \in [Jobs -> [status : JobStatuses, retries : 0..MaxRetries + 1]]
  /\ \A c \in claims : c.job \in Jobs /\ c.retries \in 0..MaxRetries

\* What holds of a job however often its event is delivered.
AnyJob(j) ==
  /\ doc[j].status \notin Finished => doc[j].retries <= MaxRetries
  /\ trigger[j] = "written" => doc[j].status # "none"
  /\ doc[j].status = "completed" => j \in processed
  /\ trigger[j] = "done" =>
       j \in processed \/ doc[j].status # "none" \/ j \in crashed

\* What holds as long as it is delivered once: the trigger writes the job
\* after it has run the pipeline, and only a claim holds a job "processing".
OnceJob(j) ==
  /\ \A c \in claims : c.job = j =>
       doc[j].status = "processing" /\ c.retries = doc[j].retries
  /\ \A c, d \in claims : c.job = j /\ d.job = j => c = d
  /\ trigger[j] \in {"waiting", "running", "failed"} => doc[j].status = "none"
  /\ j \in deadLetter <=> doc[j].status = "failed"
  /\ doc[j].status = "failed" <=> doc[j].retries = MaxRetries + 1

RecoveryInv ==
  /\ Values
  /\ \A j \in Jobs : AnyJob(j)
  /\ \A j \in DeliveredOnce : OnceJob(j)

-----------------------------------------------------------------------------
(* No job exists at first.                                                 *)
LEMMA InitRecovery == RecoveryInit => RecoveryInv
<1> SUFFICES ASSUME RecoveryInit PROVE RecoveryInv
  OBVIOUS
<1>1. Values
  BY RecoveryAssumption DEF RecoveryInit, Values, TriggerSteps, JobStatuses
<1>2. \A j \in Jobs : AnyJob(j)
  BY RecoveryAssumption DEF RecoveryInit, AnyJob
<1>3. \A j \in DeliveredOnce : OnceJob(j)
  BY RecoveryAssumption DEF RecoveryInit, OnceJob, DeliveredOnce
<1> QED
  BY <1>1, <1>2, <1>3 DEF RecoveryInv

(* A job's own part of the invariant looks at nothing of the other jobs.    *)
LEMMA Untouched ==
    ASSUME NEW j \in Jobs, AnyJob(j), j \in DeliveredOnce => OnceJob(j),
           delivered \subseteq delivered',
           trigger'[j] = trigger[j], doc'[j] = doc[j],
           processed \subseteq processed', crashed \subseteq crashed',
           j \in deadLetter' <=> j \in deadLetter,
           \A c \in claims' : c.job = j => c \in claims
    PROVE  AnyJob(j)' /\ (j \in DeliveredOnce' => OnceJob(j)')
<1>1. AnyJob(j)'
  BY DEF AnyJob
<1>2. ASSUME j \in DeliveredOnce' PROVE OnceJob(j)'
  <2>1. OnceJob(j)
    BY <1>2 DEF DeliveredOnce
  <2> QED
    BY <2>1 DEF OnceJob
<1> QED
  BY <1>1, <1>2

(* The invariant of a step that is about one job.                          *)
LEMMA OneJobStep ==
    ASSUME RecoveryInv, NEW j \in Jobs, Values',
           delivered \subseteq delivered',
           \A k \in Jobs : k # j => /\ trigger'[k] = trigger[k]
                                    /\ doc'[k] = doc[k]
                                    /\ k \in deadLetter' <=> k \in deadLetter,
           processed \subseteq processed', crashed \subseteq crashed',
           \A c \in claims' : c \in claims \/ c.job = j,
           AnyJob(j)', j \in DeliveredOnce' => OnceJob(j)'
    PROVE  RecoveryInv'
<1>1. ASSUME NEW k \in Jobs PROVE AnyJob(k)' /\ (k \in DeliveredOnce' => OnceJob(k)')
  <2>1. CASE k = j
    BY <2>1
  <2>2. CASE k # j
    <3>1. AnyJob(k) /\ (k \in DeliveredOnce => OnceJob(k))
      BY DEF RecoveryInv
    <3>2. /\ trigger'[k] = trigger[k] /\ doc'[k] = doc[k]
          /\ k \in deadLetter' <=> k \in deadLetter
          /\ \A c \in claims' : c.job = k => c \in claims
      BY <2>2
    <3> QED
      BY <3>1, <3>2, Untouched
  <2> QED
    BY <2>1, <2>2
<1> QED
  BY <1>1 DEF RecoveryInv, DeliveredOnce

-----------------------------------------------------------------------------
(* The trigger.                                                            *)

(* A step of the trigger that leaves the job alone.                        *)
LEMMA TriggerRecovery ==
    ASSUME RecoveryInv, NEW j \in Jobs,
           StartTrigger(j) \/ PipelineEnds(j) \/ CrashTrigger(j)
             \/ EnqueueFirstTask(j) \/ Redeliver(j)
    PROVE  RecoveryInv'
<1> USE DEF TriggerSteps
<1>1. doc' = doc /\ claims' = claims /\ deadLetter' = deadLetter
  BY DEF StartTrigger, PipelineEnds, CrashTrigger, EnqueueFirstTask, Redeliver, queueVars
<1>2. processed \subseteq processed' /\ crashed \subseteq crashed'
  BY DEF StartTrigger, PipelineEnds, CrashTrigger, EnqueueFirstTask, Redeliver
<1>3. delivered \subseteq delivered' /\ delivered' \subseteq Jobs
  BY DEF StartTrigger, PipelineEnds, CrashTrigger, EnqueueFirstTask, Redeliver,
         RecoveryInv, Values
<1>4. PICK s \in TriggerSteps : trigger' = [trigger EXCEPT ![j] = s]
  BY DEF StartTrigger, PipelineEnds, CrashTrigger, EnqueueFirstTask, Redeliver
<1>5. Values'
  BY <1>1, <1>3, <1>4 DEF RecoveryInv, Values
<1>6. trigger'[j] = s /\ \A k \in Jobs : k # j => trigger'[k] = trigger[k]
  BY <1>4 DEF RecoveryInv, Values
<1>7. AnyJob(j) /\ (j \in DeliveredOnce => OnceJob(j))
  BY DEF RecoveryInv
<1>8. AnyJob(j)' /\ (j \in DeliveredOnce' => OnceJob(j)')
  <2>1. CASE StartTrigger(j)
    BY <1>1, <1>6, <1>7, <2>1 DEF StartTrigger, AnyJob, OnceJob, DeliveredOnce, RecoveryInv, Values
  <2>2. CASE PipelineEnds(j)
    <3>1. trigger[j] = "running" /\ delivered' = delivered /\ crashed' = crashed
          /\ (trigger'[j] = "failed" \/ (trigger'[j] = "done" /\ j \in processed'))
      BY <2>2 DEF PipelineEnds, RecoveryInv, Values
    <3> QED
      BY <1>1, <1>2, <1>7, <3>1 DEF AnyJob, OnceJob, DeliveredOnce
  <2>3. CASE CrashTrigger(j)
    <3>1. trigger'[j] = "done" /\ delivered' = delivered /\ j \in crashed'
      BY <2>3 DEF CrashTrigger, RecoveryInv, Values
    <3> QED
      BY <1>1, <1>2, <1>7, <3>1 DEF AnyJob, OnceJob, DeliveredOnce
  <2>4. CASE EnqueueFirstTask(j)
    <3>1. trigger[j] = "written" /\ trigger'[j] = "done" /\ delivered' = delivered
      BY <2>4 DEF EnqueueFirstTask, RecoveryInv, Values
    <3> QED
      BY <1>1, <1>2, <1>7, <3>1 DEF AnyJob, OnceJob, DeliveredOnce
  <2>5. CASE Redeliver(j)
    <3>1. trigger'[j] = "waiting" /\ j \in delivered'
      BY <2>5 DEF Redeliver, RecoveryInv, Values
    <3> QED
      BY <1>1, <1>2, <1>7, <3>1 DEF AnyJob, DeliveredOnce
  <2> QED
    BY <2>1, <2>2, <2>3, <2>4, <2>5
<1> QED
  BY <1>1, <1>2, <1>3, <1>5, <1>6, <1>8, OneJobStep

(* The failure is queued.  An event delivered once finds no job.           *)
LEMMA QueueRecovery ==
    ASSUME RecoveryInv, NEW j \in Jobs, QueueFailure(j)
    PROVE  RecoveryInv'
<1>1. /\ delivered' = delivered /\ claims' = claims /\ deadLetter' = deadLetter
      /\ processed' = processed /\ crashed' = crashed /\ trigger[j] = "failed"
  BY DEF QueueFailure
<1>2. AnyJob(j) /\ (j \in DeliveredOnce => OnceJob(j))
  BY DEF RecoveryInv
<1>3. CASE doc[j].status \in Finished
  <2>1. trigger' = [trigger EXCEPT ![j] = "done"] /\ doc' = doc
    BY <1>3 DEF QueueFailure
  <2>2. Values'
    BY <1>1, <2>1 DEF RecoveryInv, Values, TriggerSteps
  <2>3. trigger'[j] = "done" /\ \A k \in Jobs : k # j => trigger'[k] = trigger[k]
    BY <2>1 DEF RecoveryInv, Values
  <2>4. AnyJob(j)' /\ (j \in DeliveredOnce' => OnceJob(j)')
    BY <1>1, <1>2, <1>3, <2>1, <2>3 DEF AnyJob, OnceJob, DeliveredOnce, Finished
  <2> QED
    BY <1>1, <2>1, <2>2, <2>3, <2>4, OneJobStep
<1>4. CASE doc[j].status \notin Finished
  <2>1. trigger' = [trigger EXCEPT ![j] = "written"]
    BY <1>4 DEF QueueFailure
  <2>2. PICK s \in Waiting : doc' = [doc EXCEPT ![j].status = s]
    BY <1>4 DEF QueueFailure, Waiting
  <2>3. Values'
    BY <1>1, <2>1, <2>2 DEF RecoveryInv, Values, TriggerSteps, JobStatuses, Waiting
  <2>4. /\ trigger'[j] = "written" /\ doc'[j].status = s /\ doc'[j].retries = doc[j].retries
        /\ \A k \in Jobs : k # j => trigger'[k] = trigger[k] /\ doc'[k] = doc[k]
    BY <2>1, <2>2 DEF RecoveryInv, Values
  <2>5. AnyJob(j)'
    BY <1>1, <1>2, <1>4, <2>2, <2>4 DEF AnyJob, Finished, Waiting
  <2>6. ASSUME j \in DeliveredOnce' PROVE OnceJob(j)'
    <3>1. OnceJob(j) /\ doc[j].status = "none"
      BY <1>1, <1>2, <2>6 DEF OnceJob, DeliveredOnce
    <3> QED
      BY <1>1, <2>2, <2>4, <3>1 DEF OnceJob, Waiting
  <2> QED
    BY <1>1, <2>3, <2>4, <2>5, <2>6, OneJobStep
<1> QED
  BY <1>3, <1>4

-----------------------------------------------------------------------------
(* The claim.  A waiting job has no claim when its event is delivered once. *)
LEMMA ClaimRecovery ==
    ASSUME RecoveryInv, NEW j, NEW by, Claim(j, by),
           UNCHANGED <<trigger, delivered, deadLetter, processed, crashed>>
    PROVE  RecoveryInv'
<1>1. j \in Jobs /\ doc[j].status \in Waiting
  BY DEF Claim, Claimable, DueJobs
<1>2. doc' = [doc EXCEPT ![j].status = "processing"]
  BY DEF Claim
<1>3. /\ doc[j] \in [status : JobStatuses, retries : 0..MaxRetries + 1]
      /\ doc'[j].status = "processing" /\ doc'[j].retries = doc[j].retries
      /\ \A k \in Jobs : k # j => doc'[k] = doc[k]
  BY <1>1, <1>2 DEF RecoveryInv, Values
<1>4. AnyJob(j) /\ (j \in DeliveredOnce => OnceJob(j))
  BY <1>1 DEF RecoveryInv
<1>5. doc[j].retries \in 0..MaxRetries
  BY <1>1, <1>3, <1>4, RecoveryAssumption DEF AnyJob, Waiting, Finished
<1> DEFINE new == [by |-> by, job |-> j, retries |-> doc[j].retries]
<1>6. claims' = claims \cup {new} /\ new.job = j /\ new.retries = doc[j].retries
  BY DEF Claim
<1> HIDE DEF new
<1>7. Values'
  <2>1. doc' \in [Jobs -> [status : JobStatuses, retries : 0..MaxRetries + 1]]
    BY <1>1, <1>2 DEF RecoveryInv, Values, JobStatuses
  <2> QED
    BY <1>1, <1>5, <1>6, <2>1 DEF RecoveryInv, Values
<1>8. AnyJob(j)'
  BY <1>1, <1>3, <1>4, <1>5, RecoveryAssumption DEF AnyJob, Waiting, Finished
<1>9. ASSUME j \in DeliveredOnce' PROVE OnceJob(j)'
  <2>1. OnceJob(j) /\ \A c \in claims : c.job # j
    BY <1>1, <1>4, <1>9 DEF OnceJob, DeliveredOnce, Waiting
  <2> QED
    BY <1>1, <1>3, <1>5, <1>6, <2>1, RecoveryAssumption DEF OnceJob, Waiting
<1> QED
  BY <1>1, <1>3, <1>6, <1>7, <1>8, <1>9, OneJobStep

-----------------------------------------------------------------------------
(* The outcome.                                                            *)

(* A job is completed after its pipeline has run.                          *)
LEMMA SucceedRecovery ==
    ASSUME RecoveryInv, NEW c \in claims, Succeed(c)
    PROVE  RecoveryInv'
<1> DEFINE j == c.job
<1>1. j \in Jobs /\ AnyJob(j) /\ (j \in DeliveredOnce => OnceJob(j))
  BY DEF RecoveryInv, Values
<1>2. /\ doc' = [doc EXCEPT ![j].status = "completed"] /\ j \in processed'
      /\ claims' = claims \ {c} /\ processed \subseteq processed'
      /\ UNCHANGED <<trigger, delivered, deadLetter, crashed>>
  BY DEF Succeed
<1>3. /\ doc'[j].status = "completed" /\ doc'[j].retries = doc[j].retries
      /\ \A k \in Jobs : k # j => doc'[k] = doc[k]
  BY <1>1, <1>2 DEF RecoveryInv, Values
<1>4. Values'
  <2>1. doc' \in [Jobs -> [status : JobStatuses, retries : 0..MaxRetries + 1]]
    BY <1>1, <1>2 DEF RecoveryInv, Values, JobStatuses
  <2> QED
    BY <1>2, <2>1 DEF RecoveryInv, Values
<1>5. AnyJob(j)'
  BY <1>1, <1>2, <1>3 DEF AnyJob, Finished
<1>6. ASSUME j \in DeliveredOnce' PROVE OnceJob(j)'
  <2>1. OnceJob(j) /\ doc[j].status = "processing" /\ \A d \in claims' : d.job # j
    BY <1>1, <1>2, <1>6 DEF OnceJob, DeliveredOnce
  <2> QED
    BY <1>2, <1>3, <2>1 DEF OnceJob
<1> HIDE DEF j
<1> QED
  BY <1>1, <1>2, <1>3, <1>4, <1>5, <1>6, OneJobStep

(* A job that failed is retried, or dead-lettered after the last retry.    *)
LEMMA FailRecovery ==
    ASSUME RecoveryInv, NEW c \in claims, Fail(c)
    PROVE  RecoveryInv'
<1> DEFINE j == c.job
<1> DEFINE next == [status |-> IF RetriesLeft(c) THEN "retrying" ELSE "failed",
                    retries |-> c.retries + 1]
<1>1. j \in Jobs /\ AnyJob(j) /\ (j \in DeliveredOnce => OnceJob(j))
      /\ c.retries \in 0..MaxRetries
  BY DEF RecoveryInv, Values
<1>2. doc' = [doc EXCEPT ![j] = next]
  BY DEF Fail
<1>3. /\ claims' = claims \ {c} /\ processed \subseteq processed'
      /\ UNCHANGED <<trigger, delivered, crashed>>
      /\ deadLetter' = IF RetriesLeft(c) THEN deadLetter ELSE deadLetter \cup {j}
  BY DEF Fail
<1>4. /\ next \in [status : JobStatuses, retries : 0..MaxRetries + 1]
      /\ next.status \in {"retrying", "failed"}
      /\ next.status = "retrying" => next.retries <= MaxRetries /\ RetriesLeft(c)
      /\ next.status = "failed" => next.retries = MaxRetries + 1 /\ ~RetriesLeft(c)
  BY <1>1, RecoveryAssumption DEF JobStatuses, RetriesLeft
<1> HIDE DEF next
<1>5. doc'[j] = next /\ \A k \in Jobs : k # j => doc'[k] = doc[k]
  BY <1>1, <1>2 DEF RecoveryInv, Values
<1>6. Values'
  <2>1. doc' \in [Jobs -> [status : JobStatuses, retries : 0..MaxRetries + 1]]
    BY <1>1, <1>2, <1>4 DEF RecoveryInv, Values
  <2> QED
    BY <1>3, <2>1 DEF RecoveryInv, Values
<1>7. AnyJob(j)'
  BY <1>1, <1>3, <1>4, <1>5 DEF AnyJob, Finished
<1>8. ASSUME j \in DeliveredOnce' PROVE OnceJob(j)'
  <2>1. OnceJob(j) /\ doc[j].status = "processing" /\ \A d \in claims' : d.job # j
    BY <1>1, <1>3, <1>8 DEF OnceJob, DeliveredOnce
  <2>2. trigger[j] \notin {"waiting", "running", "failed"} /\ j \notin deadLetter
    BY <2>1 DEF OnceJob
  <2> QED
    BY <1>3, <1>4, <1>5, <2>1, <2>2, RecoveryAssumption DEF OnceJob
<1>9. \A k \in Jobs : k # j => (k \in deadLetter' <=> k \in deadLetter)
  BY <1>3
<1> HIDE DEF j
<1> QED
  BY <1>1, <1>3, <1>5, <1>6, <1>7, <1>8, <1>9, OneJobStep

(* A claim is lost in a crash: the job stays as it is.                     *)
LEMMA CrashRecovery ==
    ASSUME RecoveryInv, NEW c \in claims, CrashClaim(c)
    PROVE  RecoveryInv'
<1> DEFINE j == c.job
<1>1. j \in Jobs /\ AnyJob(j) /\ (j \in DeliveredOnce => OnceJob(j))
  BY DEF RecoveryInv, Values
<1>2. /\ claims' = claims \ {c} /\ processed \subseteq processed'
      /\ crashed \subseteq crashed'
      /\ UNCHANGED <<trigger, delivered, doc, deadLetter>>
  BY DEF CrashClaim, queueVars
<1>3. Values'
  BY <1>2 DEF RecoveryInv, Values
<1>4. AnyJob(j)' /\ (j \in DeliveredOnce' => OnceJob(j)')
  BY <1>1, <1>2, Untouched
<1> HIDE DEF j
<1> QED
  BY <1>1, <1>2, <1>3, <1>4, OneJobStep

-----------------------------------------------------------------------------
(* Tasks, the order and the sweep change nothing of this.                  *)
LEMMA StutterRecovery ==
    ASSUME RecoveryInv,
           UNCHANGED <<trigger, delivered, doc, claims, deadLetter, processed, crashed>>
    PROVE  RecoveryInv'
BY DEF RecoveryInv, Values, AnyJob, OnceJob, DeliveredOnce

(* Every step keeps what holds of the jobs.                                *)
LEMMA NextRecovery == RecoveryInv /\ [RecoveryNext]_recoveryVars => RecoveryInv'
<1> SUFFICES ASSUME RecoveryInv, [RecoveryNext]_recoveryVars PROVE RecoveryInv'
  OBVIOUS
<1>1. ASSUME NEW j \in Jobs, TriggerStep(j) \/ Redeliver(j) \/ CrashTrigger(j)
      PROVE  RecoveryInv'
  BY <1>1, TriggerRecovery, QueueRecovery DEF TriggerStep
<1>2. ASSUME NEW t \in Tasks, DispatchTask(t) PROVE RecoveryInv'
  <2>1. UNCHANGED <<trigger, delivered, deadLetter, processed, crashed>>
    BY <1>2 DEF DispatchTask
  <2>2. Claim(t[1], t[2]) \/ UNCHANGED <<doc, claims>>
    BY <1>2 DEF DispatchTask
  <2> QED
    BY <2>1, <2>2, ClaimRecovery, StutterRecovery
<1>3. ASSUME NEW c \in claims, Outcome(c) \/ CrashClaim(c) PROVE RecoveryInv'
  BY <1>3, SucceedRecovery, FailRecovery, CrashRecovery DEF Outcome
<1>4. CASE SweepNext
  <2>1. UNCHANGED <<trigger, delivered, deadLetter, processed, crashed>>
    BY <1>4 DEF SweepNext
  <2>2. Claim(Head(sweep), Sweeper) \/ UNCHANGED <<doc, claims>>
    BY <1>4 DEF SweepNext
  <2> QED
    BY <2>1, <2>2, ClaimRecovery, StutterRecovery
<1>5. CASE StartSweep \/ TimePasses \/ UNCHANGED recoveryVars
  BY <1>5, StutterRecovery DEF StartSweep, TimePasses, recoveryVars, queueVars
<1> QED
  BY <1>1, <1>2, <1>3, <1>4, <1>5 DEF RecoveryNext

\* The invariant the properties rest on holds in every state.
THEOREM RecoveryIsInvariant == RecoverySpec => []RecoveryInv
<1> QED
  BY InitRecovery, NextRecovery, PTL DEF RecoverySpec

-----------------------------------------------------------------------------
\* processRetryJob's claim is exclusive: the pipeline of a session whose event
\* is delivered once is never run by two executions at once.
THEOREM OneExecutionAtOnce == RecoverySpec => []OneExecution
<1>1. ASSUME RecoveryInv PROVE OneExecution
  <2> SUFFICES ASSUME NEW j \in DeliveredOnce
               PROVE  LET running == {c \in claims : c.job = j}
                      IN  /\ Cardinality(running) <= 1
                          /\ trigger[j] = "running" => running = {}
    BY DEF OneExecution
  <2> DEFINE running == {c \in claims : c.job = j}
  <2>1. OnceJob(j)
    BY <1>1 DEF RecoveryInv
  <2>2. trigger[j] = "running" => running = {}
    BY <2>1 DEF OnceJob
  <2>3. \A c \in running : running = {c}
    BY <2>1 DEF OnceJob
  <2>4. Cardinality(running) <= 1
    <3> HIDE DEF running
    <3>1. CASE running = {}
      <4>1. Cardinality(running) = 0
        BY <3>1, FS_EmptySet
      <4> QED
        BY <4>1
    <3>2. ASSUME NEW c \in running PROVE Cardinality(running) <= 1
      <4>1. Cardinality(running) = 1
        BY <2>3, FS_Singleton
      <4> QED
        BY <4>1
    <3> QED
      BY <3>1, <3>2
  <2> QED
    BY <2>2, <2>4
<1> QED
  BY <1>1, RecoveryIsInvariant, PTL

\* A job is "completed" only when its pipeline has run to its end, whatever
\* is redelivered, refused or lost.
THEOREM CompletedJobsAreProcessed == RecoverySpec => []CompletedIsProcessed
<1>1. RecoveryInv => CompletedIsProcessed
  BY DEF RecoveryInv, AnyJob, CompletedIsProcessed
<1> QED
  BY <1>1, RecoveryIsInvariant, PTL

\* The dead-letter queue holds exactly the jobs whose last retry failed.
THEOREM DeadLettersAreExact == RecoverySpec => []DeadLetterIsExact
<1>1. RecoveryInv => DeadLetterIsExact
  BY DEF RecoveryInv, OnceJob, DeadLetterIsExact
<1> QED
  BY <1>1, RecoveryIsInvariant, PTL

\* A failed pipeline leaves a job behind, unless the trigger's instance died.
THEOREM NoFailureForgotten == RecoverySpec => []NothingForgotten
<1>1. RecoveryInv => NothingForgotten
  BY DEF RecoveryInv, AnyJob, NothingForgotten
<1> QED
  BY <1>1, RecoveryIsInvariant, PTL

-----------------------------------------------------------------------------
(* The types of the retry queue: the order of nextAttemptAt, the tasks.    *)

\* Every job that is waiting, executed or settled has its place in the order
\* of nextAttemptAt, and only one; those up to "due" are due.
InOrder ==
  /\ schedule \in Seq(Jobs)
  /\ IsInjective(schedule)
  /\ due \in 0..Len(schedule)

\* RecoveryTypeOK holds by itself for one step only.  That a claimed job has a
\* document keeps the order complete when the outcome is written, and that no
\* task is created for the retry after the last keeps the claims typed.
QueueTyped ==
  /\ InOrder
  /\ ToSet(schedule) = {j \in Jobs : doc[j].status # "none"}
  /\ delivered \subseteq Redelivered
  /\ tasks \in [Tasks -> {"new", "queued", "used"}]
  /\ \A j \in Jobs : tasks[<<j, MaxRetries + 1>>] = "new"
  /\ claims \subseteq Claims
  /\ \A c \in claims : doc[c.job].status # "none"
  /\ sweep \in Seq(Jobs)
  /\ deadLetter \subseteq Jobs /\ processed \subseteq Jobs /\ crashed \subseteq Jobs

QueueInv == RecoveryInv /\ QueueTyped

(* InsertAt makes room for one element.                                    *)
LEMMA InsertedIs ==
    ASSUME NEW T, NEW s \in Seq(T), NEW e \in T, NEW i \in 1..Len(s) + 1
    PROVE  /\ InsertAt(s, i, e) \in Seq(T)
           /\ Len(InsertAt(s, i, e)) = Len(s) + 1
           /\ \A k \in 1..Len(s) + 1 :
                InsertAt(s, i, e)[k] =
                  IF k < i THEN s[k] ELSE IF k = i THEN e ELSE s[k - 1]
<1> DEFINE a == SubSeq(s, 1, i - 1)
           b == <<e>>
           c == SubSeq(s, i, Len(s))
<1>1. Len(s) \in Nat /\ \A k \in 1..Len(s) : s[k] \in T
  BY LenProperties, ElementOfSeq
<1>2. /\ a \in Seq(T) /\ Len(a) = i - 1
      /\ \A k \in 1..i - 1 : a[k] = s[k]
  <2>1. /\ a \in Seq(T)
        /\ Len(a) = IF 1 <= i - 1 THEN (i - 1) - 1 + 1 ELSE 0
        /\ \A k \in 1..(i - 1) - 1 + 1 : a[k] = s[1 + k - 1]
    BY <1>1, SubSeqProperties
  <2> HIDE DEF a
  <2> QED
    BY <1>1, <2>1
<1>3. /\ c \in Seq(T) /\ Len(c) = Len(s) - i + 1
      /\ \A k \in 1..Len(s) - i + 1 : c[k] = s[i + k - 1]
  <2>1. /\ c \in Seq(T)
        /\ Len(c) = IF i <= Len(s) THEN Len(s) - i + 1 ELSE 0
        /\ \A k \in 1..Len(s) - i + 1 : c[k] = s[i + k - 1]
    BY <1>1, SubSeqProperties
  <2> HIDE DEF c
  <2> QED
    BY <1>1, <2>1
<1>4. b \in Seq(T) /\ Len(b) = 1 /\ b[1] = e
  OBVIOUS
<1>5. InsertAt(s, i, e) = (a \o b) \o c
  BY DEF InsertAt
<1> HIDE DEF a, b, c
<1>6. /\ a \o b \in Seq(T) /\ Len(a \o b) = i
      /\ \A k \in 1..i : (a \o b)[k] = IF k < i THEN s[k] ELSE e
  <2>1. /\ a \o b \in Seq(T) /\ Len(a \o b) = Len(a) + Len(b)
        /\ \A k \in 1..Len(a) + Len(b) :
             (a \o b)[k] = IF k <= Len(a) THEN a[k] ELSE b[k - Len(a)]
    BY <1>2, <1>4, ConcatProperties
  <2> QED
    BY <1>1, <1>2, <1>4, <2>1
<1> DEFINE ab == a \o b
           abc == ab \o c
<1>7. /\ abc \in Seq(T)
      /\ Len(abc) = Len(ab) + Len(c)
      /\ \A k \in 1..Len(ab) + Len(c) :
           abc[k] = IF k <= Len(ab) THEN ab[k] ELSE c[k - Len(ab)]
  <2>1. ab \in Seq(T)
    BY <1>6
  <2> HIDE DEF ab
  <2> QED
    BY <1>3, <2>1, ConcatProperties
<1>8. /\ abc \in Seq(T) /\ Len(abc) = Len(s) + 1
      /\ \A k \in 1..Len(s) + 1 :
           abc[k] = IF k < i THEN s[k] ELSE IF k = i THEN e ELSE s[k - 1]
  <2>1. /\ Len(ab) = i /\ \A k \in 1..i : ab[k] = IF k < i THEN s[k] ELSE e
    BY <1>6
  <2>2. /\ abc \in Seq(T) /\ Len(abc) = i + (Len(s) - i + 1)
        /\ \A k \in 1..i + (Len(s) - i + 1) :
             abc[k] = IF k <= i THEN ab[k] ELSE c[k - i]
    BY <1>3, <1>7, <2>1
  <2> HIDE DEF ab, abc
  <2>3. Len(abc) = Len(s) + 1
    BY <1>1, <2>2
  <2>4. ASSUME NEW k \in 1..Len(s) + 1
        PROVE  abc[k] = IF k < i THEN s[k] ELSE IF k = i THEN e ELSE s[k - 1]
    <3>1. k \in 1..i + (Len(s) - i + 1)
      BY <1>1
    <3>2. CASE k <= i
      BY <2>1, <2>2, <3>1, <3>2
    <3>3. CASE k > i
      <4>1. k - i \in 1..Len(s) - i + 1 /\ i + (k - i) - 1 = k - 1
        BY <1>1, <3>3
      <4>2. abc[k] = c[k - i]
        BY <2>2, <3>1, <3>3
      <4> QED
        BY <1>3, <3>3, <4>1, <4>2
    <3> QED
      BY <3>2, <3>3
  <2> QED
    BY <2>2, <2>3, <2>4
<1> QED
  BY <1>5, <1>8

(* An element that is inserted where it did not occur occurs once.         *)
LEMMA InsertedOnce ==
    ASSUME NEW T, NEW s \in Seq(T), IsInjective(s), NEW e \in T,
           e \notin ToSet(s), NEW i \in 1..Len(s) + 1
    PROVE  /\ IsInjective(InsertAt(s, i, e))
           /\ ToSet(InsertAt(s, i, e)) = ToSet(s) \cup {e}
<1> DEFINE t == InsertAt(s, i, e)
<1>1. /\ t \in Seq(T) /\ Len(t) = Len(s) + 1
      /\ \A k \in 1..Len(s) + 1 :
           t[k] = IF k < i THEN s[k] ELSE IF k = i THEN e ELSE s[k - 1]
  BY InsertedIs
<1>2. Len(s) \in Nat /\ DOMAIN s = 1..Len(s) /\ DOMAIN t = 1..Len(s) + 1
  BY <1>1, LenProperties
<1>3. \A k \in 1..Len(s) : s[k] # e /\ s[k] \in ToSet(s)
  BY <1>2 DEF ToSet
<1> HIDE DEF t
<1>4. t[i] = e
  BY <1>1
<1>5. ASSUME NEW k \in 1..Len(s) + 1, k # i
      PROVE  \E m \in 1..Len(s) : t[k] = s[m] /\ ((m = k /\ k < i) \/ (m = k - 1 /\ k > i))
  <2>1. CASE k < i
    <3>1. k \in 1..Len(s) /\ t[k] = s[k]
      BY <1>1, <1>2, <2>1
    <3> QED
      BY <2>1, <3>1
  <2>2. CASE k > i
    <3>1. k - 1 \in 1..Len(s) /\ t[k] = s[k - 1]
      BY <1>1, <1>2, <2>2
    <3> QED
      BY <2>2, <3>1
  <2> QED
    BY <1>2, <1>5, <2>1, <2>2
<1>6. IsInjective(t)
  <2> SUFFICES ASSUME NEW k \in 1..Len(s) + 1, NEW m \in 1..Len(s) + 1, t[k] = t[m]
               PROVE  k = m
    BY <1>2 DEF IsInjective
  <2>1. CASE k = i \/ m = i
    BY <1>3, <1>4, <1>5, <2>1
  <2>2. CASE k # i /\ m # i
    <3>1. PICK p \in 1..Len(s) : t[k] = s[p] /\ ((p = k /\ k < i) \/ (p = k - 1 /\ k > i))
      BY <1>5, <2>2
    <3>2. PICK q \in 1..Len(s) : t[m] = s[q] /\ ((q = m /\ m < i) \/ (q = m - 1 /\ m > i))
      BY <1>5, <2>2
    <3>3. p = q
      BY <1>2, <3>1, <3>2 DEF IsInjective
    <3> QED
      BY <1>2, <3>1, <3>2, <3>3
  <2> QED
    BY <2>1, <2>2
<1>7. ToSet(t) = ToSet(s) \cup {e}
  <2>1. ASSUME NEW k \in 1..Len(s) + 1 PROVE t[k] \in ToSet(s) \cup {e}
    BY <1>3, <1>4, <1>5
  <2>2. ASSUME NEW m \in 1..Len(s) PROVE \E k \in 1..Len(s) + 1 : t[k] = s[m]
    <3>1. CASE m < i
      <4>1. m \in 1..Len(s) + 1 /\ t[m] = s[m]
        BY <1>1, <1>2, <3>1
      <4> QED
        BY <4>1
    <3>2. CASE ~(m < i)
      <4>1. m + 1 \in 1..Len(s) + 1 /\ t[m + 1] = s[m]
        BY <1>1, <1>2, <3>2
      <4> QED
        BY <4>1
    <3> QED
      BY <3>1, <3>2
  <2>3. i \in 1..Len(s) + 1
    OBVIOUS
  <2> QED
    BY <1>2, <1>4, <2>1, <2>2, <2>3 DEF ToSet
<1> QED
  BY <1>6, <1>7 DEF t

(* The order without one job: the others keep their places, and as many of *)
(* them are due as were.                                                   *)
LEMMA OthersInOrder ==
    ASSUME InOrder, NEW j \in Jobs
    PROVE  /\ Others(j) \in Seq(Jobs)
           /\ IsInjective(Others(j))
           /\ ToSet(Others(j)) = ToSet(schedule) \ {j}
           /\ OthersDue(j) \in 0..Len(Others(j))
<1> DEFINE P == {i \in DOMAIN schedule : schedule[i] # j}
           o == Others(j)
<1>1. /\ schedule \in Seq(Jobs) /\ Len(schedule) \in Nat
      /\ DOMAIN schedule = 1..Len(schedule)
      /\ due \in 0..Len(schedule)
      /\ \A i, k \in DOMAIN schedule : schedule[i] = schedule[k] => i = k
  BY LenProperties DEF InOrder, IsInjective
<1>2. o = Keep(schedule, P) /\ P \in SUBSET DOMAIN schedule
  BY DEF Others
<1>a. \A i \in DOMAIN schedule : i \in P <=> schedule[i] # j
  OBVIOUS
<1>b. P = DOMAIN schedule \ {i \in DOMAIN schedule : schedule[i] = j}
  OBVIOUS
<1> HIDE DEF o, P
<1>3. o \in Seq(Jobs)
  BY <1>1, <1>2, KeepNumbers
<1>4. PICK f \in [DOMAIN o -> P] :
        /\ \A m \in DOMAIN o : o[m] = schedule[f[m]]
        /\ \A m, k \in DOMAIN o : f[m] = f[k] => m = k
        /\ \A i \in P : \E m \in DOMAIN o : f[m] = i
  BY <1>1, <1>2, KeepNumbers
<1>5. IsInjective(o)
  <2> SUFFICES ASSUME NEW m \in DOMAIN o, NEW k \in DOMAIN o, o[m] = o[k]
               PROVE  m = k
    BY DEF IsInjective
  <2>1. f[m] \in DOMAIN schedule /\ f[k] \in DOMAIN schedule
        /\ schedule[f[m]] = schedule[f[k]]
    BY <1>2, <1>4
  <2>2. f[m] = f[k]
    BY <1>1, <2>1
  <2> QED
    BY <1>4, <2>2
<1>6. ToSet(o) = ToSet(schedule) \ {j}
  <2>1. ASSUME NEW m \in DOMAIN o PROVE o[m] \in ToSet(schedule) \ {j}
    <3>1. f[m] \in P /\ f[m] \in DOMAIN schedule /\ o[m] = schedule[f[m]]
      BY <1>2, <1>4
    <3> QED
      BY <1>a, <3>1 DEF ToSet
  <2>2. ASSUME NEW i \in DOMAIN schedule, schedule[i] # j
        PROVE  schedule[i] \in ToSet(o)
    <3>1. PICK m \in DOMAIN o : f[m] = i
      BY <1>4, <1>a, <2>2
    <3> QED
      BY <1>4, <3>1 DEF ToSet
  <2> QED
    BY <2>1, <2>2 DEF ToSet
<1>7. Len(o) = Cardinality(P) /\ Cardinality(P) \in Nat
  <2>1. Cardinality(P) \in Nat
    BY <1>1, <1>2, RankNumbers
  <2> QED
    BY <1>2, <2>1 DEF Keep
<1>8. OthersDue(j) \in 0..Len(o)
  <2>1. IsFiniteSet(DOMAIN schedule) /\ Cardinality(DOMAIN schedule) = Len(schedule)
    BY <1>1, SizeOfInterval
  <2>2. CASE \E p \in DOMAIN schedule : schedule[p] = j
    <3>1. PICK p \in DOMAIN schedule : schedule[p] = j
      BY <2>2
    <3>2. P = DOMAIN schedule \ {p}
      BY <1>1, <1>b, <3>1
    <3>3. Len(o) = Len(schedule) - 1
      BY <1>7, <2>1, <3>1, <3>2, FS_RemoveElement
    <3>4. j \in DueJobs <=> p <= due
      BY <1>1, <3>1 DEF DueJobs
    <3>5. OthersDue(j) = IF p <= due THEN due - 1 ELSE due
      BY <3>4 DEF OthersDue
    <3> QED
      BY <1>1, <3>1, <3>3, <3>5
  <2>3. CASE \A p \in DOMAIN schedule : schedule[p] # j
    <3>1. P = DOMAIN schedule
      BY <1>b, <2>3
    <3>2. j \notin DueJobs
      BY <1>1, <2>3 DEF DueJobs
    <3> QED
      BY <1>1, <1>7, <2>1, <3>1, <3>2 DEF OthersDue
  <2> QED
    BY <2>2, <2>3
<1> QED
  BY <1>3, <1>5, <1>6, <1>8 DEF o

(* Giving a job its time keeps the order, and puts the job on it.          *)
LEMMA ScheduleStep ==
    ASSUME InOrder, NEW j \in Jobs, ScheduleNow(j) \/ ScheduleLater(j)
    PROVE  InOrder' /\ ToSet(schedule') = ToSet(schedule) \cup {j}
<1> DEFINE o == Others(j)
           n == OthersDue(j)
<1>1. /\ o \in Seq(Jobs) /\ IsInjective(o) /\ Len(o) \in Nat
      /\ ToSet(o) = ToSet(schedule) \ {j} /\ n \in 0..Len(o)
  BY OthersInOrder, LenProperties
<1>2. \E place \in 1..Len(o) + 1 :
        /\ schedule' = InsertAt(o, place, j)
        /\ due' \in {n, n + 1}
  <2>1. CASE ScheduleNow(j)
    <3>1. schedule' = InsertAt(o, n + 1, j) /\ due' = n + 1
      BY <2>1 DEF ScheduleNow
    <3> HIDE DEF o, n
    <3>2. n + 1 \in 1..Len(o) + 1
      BY <1>1
    <3> QED
      BY <3>1, <3>2
  <2>2. CASE ScheduleLater(j)
    <3>1. /\ \E place \in n + 1..Len(o) + 1 : schedule' = InsertAt(o, place, j)
          /\ due' = n
      BY <2>2 DEF ScheduleLater
    <3> HIDE DEF o, n
    <3>2. n + 1..Len(o) + 1 \subseteq 1..Len(o) + 1
      BY <1>1
    <3> QED
      BY <3>1, <3>2
  <2> QED
    BY <2>1, <2>2
<1> HIDE DEF o, n
<1>3. PICK place \in 1..Len(o) + 1 : schedule' = InsertAt(o, place, j) /\ due' \in {n, n + 1}
  BY <1>2
<1>4. /\ schedule' \in Seq(Jobs) /\ Len(schedule') = Len(o) + 1
  BY <1>1, <1>3, InsertedIs
<1>5. IsInjective(schedule') /\ ToSet(schedule') = ToSet(o) \cup {j}
  BY <1>1, <1>3, InsertedOnce
<1>6. due' \in 0..Len(schedule')
  BY <1>1, <1>3, <1>4
<1> QED
  BY <1>1, <1>4, <1>5, <1>6 DEF InOrder

(* A new task is for a retry that is allowed.                              *)
LEMMA TasksStep ==
    ASSUME RecoveryInv, QueueTyped, NEW j \in Jobs, NEW n \in 0..MaxRetries,
           EnqueueRetryTask(j, n)
    PROVE  /\ tasks' \in [Tasks -> {"new", "queued", "used"}]
           /\ \A k \in Jobs : tasks'[<<k, MaxRetries + 1>>] = "new"
<1> DEFINE t == TaskName(j, n)
<1>1. tasks \in [Tasks -> {"new", "queued", "used"}]
      /\ \A k \in Jobs : tasks[<<k, MaxRetries + 1>>] = "new"
  BY DEF QueueTyped
<1>2. /\ t \in Tasks
      /\ \A k \in Jobs : <<k, MaxRetries + 1>> \in Tasks /\ <<k, MaxRetries + 1>> # t
  BY RecoveryAssumption DEF TaskName, Tasks
<1>3. tasks' = [tasks EXCEPT ![t] = "queued"] \/ tasks' = tasks
  BY DEF EnqueueRetryTask
<1> HIDE DEF t
<1> QED
  BY <1>1, <1>2, <1>3

-----------------------------------------------------------------------------
(* Nothing is scheduled at first.                                          *)
LEMMA QueueInit == RecoveryInit => QueueTyped
<1> SUFFICES ASSUME RecoveryInit PROVE QueueTyped
  OBVIOUS
<1>1. /\ schedule = <<>> /\ due = 0 /\ sweep = <<>> /\ claims = {}
      /\ delivered = {} /\ deadLetter = {} /\ processed = {} /\ crashed = {}
      /\ tasks = [t \in Tasks |-> "new"]
      /\ \A j \in Jobs : doc[j].status = "none"
  BY DEF RecoveryInit
<1>2. schedule \in Seq(Jobs) /\ Len(schedule) = 0 /\ DOMAIN schedule = {}
  BY <1>1
<1>3. InOrder
  BY <1>1, <1>2 DEF InOrder, IsInjective
<1>4. ToSet(schedule) = {j \in Jobs : doc[j].status # "none"}
  BY <1>1, <1>2 DEF ToSet
<1>5. \A j \in Jobs : <<j, MaxRetries + 1>> \in Tasks
  BY RecoveryAssumption DEF Tasks
<1>6. sweep \in Seq(Jobs)
  BY <1>1
<1> QED
  BY <1>1, <1>3, <1>4, <1>5, <1>6 DEF QueueTyped

(* A step of the trigger, or of a claim, that leaves the jobs alone.       *)
LEMMA QueueLeft ==
    ASSUME QueueTyped, UNCHANGED <<doc, schedule, due, tasks>>,
           claims' \subseteq claims, sweep' \in Seq(Jobs),
           delivered' \subseteq Redelivered, deadLetter' = deadLetter,
           processed' \subseteq Jobs, crashed' \subseteq Jobs
    PROVE  QueueTyped'
<1>1. InOrder'
  BY DEF QueueTyped, InOrder
<1>2. ToSet(schedule') = {j \in Jobs : doc'[j].status # "none"}
  BY DEF QueueTyped
<1> QED
  BY <1>1, <1>2 DEF QueueTyped

(* The trigger.                                                            *)
LEMMA TriggerTyped ==
    ASSUME QueueInv, NEW j \in Jobs,
           StartTrigger(j) \/ PipelineEnds(j) \/ CrashTrigger(j) \/ Redeliver(j)
    PROVE  QueueTyped'
<1>1. UNCHANGED <<doc, schedule, due, tasks, claims, sweep, deadLetter>>
  BY DEF StartTrigger, PipelineEnds, CrashTrigger, Redeliver, queueVars
<1>2. /\ delivered' \subseteq delivered \cup {j}
      /\ delivered' # delivered => j \in Redelivered
      /\ processed' \subseteq processed \cup {j} /\ crashed' \subseteq crashed \cup {j}
  BY DEF StartTrigger, PipelineEnds, CrashTrigger, Redeliver
<1>3. /\ delivered' \subseteq Redelivered /\ sweep' \in Seq(Jobs)
      /\ processed' \subseteq Jobs /\ crashed' \subseteq Jobs
  BY <1>1, <1>2 DEF QueueInv, QueueTyped
<1> QED
  BY <1>1, <1>3, QueueLeft DEF QueueInv

(* The trigger writes its job and gives it a place.                        *)
LEMMA FailureTyped ==
    ASSUME QueueInv, NEW j \in Jobs, QueueFailure(j)
    PROVE  QueueTyped'
<1>1. /\ UNCHANGED <<delivered, tasks, claims, sweep, deadLetter, processed, crashed>>
      /\ QueueTyped /\ doc \in [Jobs -> [status : JobStatuses, retries : 0..MaxRetries + 1]]
  BY DEF QueueFailure, QueueInv, RecoveryInv, Values
<1>2. CASE doc[j].status \in Finished
  <2>1. UNCHANGED <<doc, schedule, due>>
    BY <1>2 DEF QueueFailure
  <2>2. /\ delivered' \subseteq Redelivered /\ sweep' \in Seq(Jobs)
        /\ processed' \subseteq Jobs /\ crashed' \subseteq Jobs
    BY <1>1 DEF QueueTyped
  <2> QED
    BY <1>1, <2>1, <2>2, QueueLeft
<1>3. CASE doc[j].status \notin Finished
  <2>1. PICK s \in Waiting : doc' = [doc EXCEPT ![j].status = s]
    BY <1>3 DEF QueueFailure, Waiting
  <2>2. /\ doc'[j].status # "none"
        /\ \A k \in Jobs : k # j => doc'[k] = doc[k]
    BY <1>1, <2>1 DEF Waiting
  <2>3. InOrder' /\ ToSet(schedule') = ToSet(schedule) \cup {j}
    BY <1>1, <1>3, ScheduleStep DEF QueueFailure, QueueTyped
  <2>4. ToSet(schedule') = {k \in Jobs : doc'[k].status # "none"}
    BY <1>1, <2>2, <2>3 DEF QueueTyped
  <2>5. \A c \in claims' : doc'[c.job].status # "none"
    <3>1. \A c \in claims : c.job \in Jobs
      BY DEF QueueInv, RecoveryInv, Values
    <3> QED
      BY <1>1, <2>2, <3>1 DEF QueueTyped
  <2> QED
    BY <1>1, <2>3, <2>4, <2>5 DEF QueueTyped
<1> QED
  BY <1>2, <1>3

(* The trigger's task.                                                     *)
LEMMA FirstTaskTyped ==
    ASSUME QueueInv, NEW j \in Jobs, EnqueueFirstTask(j)
    PROVE  QueueTyped'
<1>1. /\ UNCHANGED <<delivered, doc, schedule, due, claims, sweep, deadLetter,
                     processed, crashed>>
      /\ QueueTyped /\ EnqueueRetryTask(j, 0)
  BY DEF EnqueueFirstTask, QueueInv
<1>2. /\ tasks' \in [Tasks -> {"new", "queued", "used"}]
      /\ \A k \in Jobs : tasks'[<<k, MaxRetries + 1>>] = "new"
  BY <1>1, RecoveryAssumption, TasksStep DEF QueueInv
<1>3. InOrder' /\ ToSet(schedule') = {k \in Jobs : doc'[k].status # "none"}
  BY <1>1 DEF QueueTyped, InOrder
<1> QED
  BY <1>1, <1>2, <1>3 DEF QueueTyped

(* A claim, by a task that exists or by the sweep.                         *)
LEMMA ClaimTyped ==
    ASSUME QueueInv, NEW j, NEW by \in {Sweeper} \cup 0..MaxRetries,
           Claim(j, by) \/ UNCHANGED <<doc, claims>>,
           UNCHANGED <<delivered, schedule, due, deadLetter, processed, crashed>>,
           sweep' \in Seq(Jobs),
           tasks' \in [Tasks -> {"new", "queued", "used"}],
           \A k \in Jobs : tasks'[<<k, MaxRetries + 1>>] = "new"
    PROVE  QueueTyped'
<1>1. InOrder' /\ QueueTyped
  BY DEF QueueInv, QueueTyped, InOrder
<1>2. CASE UNCHANGED <<doc, claims>>
  <2>1. ToSet(schedule') = {k \in Jobs : doc'[k].status # "none"}
    BY <1>2 DEF QueueInv, QueueTyped
  <2> QED
    BY <1>1, <1>2, <2>1 DEF QueueTyped
<1>3. CASE Claim(j, by)
  <2>1. /\ j \in Jobs /\ doc[j].status \in Waiting
        /\ doc' = [doc EXCEPT ![j].status = "processing"]
    BY <1>3 DEF Claim, Claimable, DueJobs
  <2>2. /\ doc \in [Jobs -> [status : JobStatuses, retries : 0..MaxRetries + 1]]
        /\ AnyJob(j)
        /\ \A c \in claims : c.job \in Jobs /\ c.retries \in 0..MaxRetries
    BY <2>1 DEF QueueInv, RecoveryInv, Values
  <2>3. /\ doc'[j].status = "processing"
        /\ \A k \in Jobs : k # j => doc'[k] = doc[k]
    BY <2>1, <2>2
  <2>4. doc[j].retries \in 0..MaxRetries
    BY <2>1, <2>2, RecoveryAssumption DEF AnyJob, Waiting, Finished
  <2> DEFINE new == [by |-> by, job |-> j, retries |-> doc[j].retries]
  <2>5. claims' = claims \cup {new}
    BY <1>3 DEF Claim
  <2>6. new \in Claims /\ new.job = j
    BY <2>1, <2>4 DEF Claims
  <2> HIDE DEF new
  <2>7. claims' \subseteq Claims /\ \A c \in claims' : doc'[c.job].status # "none"
    BY <1>1, <2>2, <2>3, <2>5, <2>6 DEF QueueTyped
  <2>8. ToSet(schedule') = {k \in Jobs : doc'[k].status # "none"}
    BY <1>1, <2>1, <2>3 DEF QueueTyped, Waiting
  <2> QED
    BY <1>1, <2>7, <2>8 DEF QueueTyped
<1> QED
  BY <1>2, <1>3

(* A dispatched task has the number of a retry that is allowed.            *)
LEMMA DispatchTyped ==
    ASSUME QueueInv, NEW t \in Tasks, DispatchTask(t)
    PROVE  QueueTyped'
<1>1. /\ tasks[t] = "queued" /\ tasks' = [tasks EXCEPT ![t] = "used"]
      /\ Claim(t[1], t[2]) \/ UNCHANGED <<doc, claims>>
      /\ UNCHANGED <<delivered, schedule, due, sweep, deadLetter, processed, crashed>>
  BY DEF DispatchTask
<1>2. /\ tasks \in [Tasks -> {"new", "queued", "used"}]
      /\ \A k \in Jobs : tasks[<<k, MaxRetries + 1>>] = "new"
      /\ sweep' \in Seq(Jobs)
  BY <1>1 DEF QueueInv, QueueTyped
<1>3. PICK k \in Jobs, n \in 0..MaxRetries + 1 : t = <<k, n>>
  BY DEF Tasks
<1>4. n \in 0..MaxRetries
  BY <1>1, <1>2, <1>3, RecoveryAssumption
<1>5. \A m \in Jobs : <<m, MaxRetries + 1>> # t
  BY <1>3, <1>4, RecoveryAssumption
<1>6. \A m \in Jobs : <<m, MaxRetries + 1>> \in Tasks
  BY RecoveryAssumption DEF Tasks
<1>7. /\ tasks' \in [Tasks -> {"new", "queued", "used"}]
      /\ \A m \in Jobs : tasks'[<<m, MaxRetries + 1>>] = "new"
  BY <1>1, <1>2, <1>5, <1>6
<1>8. t[2] \in {Sweeper} \cup 0..MaxRetries
  BY <1>3, <1>4
<1> QED
  BY <1>1, <1>2, <1>7, <1>8, ClaimTyped

(* The sweep lists jobs of the order, and claims them one by one.          *)
LEMMA SweepTyped ==
    ASSUME QueueInv, StartSweep \/ SweepNext
    PROVE  QueueTyped'
<1>1. QueueTyped /\ schedule \in Seq(Jobs) /\ sweep \in Seq(Jobs)
  BY DEF QueueInv, QueueTyped, InOrder
<1>2. CASE StartSweep
  <2> DEFINE P == {i \in 1..due : i <= SweepLimit /\ doc[schedule[i]].status \in Waiting}
  <2>1. P \in SUBSET DOMAIN schedule
    BY <1>1, LenProperties DEF QueueTyped, InOrder
  <2>2. sweep' = Keep(schedule, P)
    BY <1>2 DEF StartSweep, SweepWindow
  <2> HIDE DEF P
  <2>3. sweep' \in Seq(Jobs)
    BY <1>1, <2>1, <2>2, KeepNumbers
  <2>4. UNCHANGED <<delivered, doc, schedule, due, tasks, claims, deadLetter,
                    processed, crashed>>
    BY <1>2 DEF StartSweep, queueVars
  <2>5. /\ delivered' \subseteq Redelivered
        /\ processed' \subseteq Jobs /\ crashed' \subseteq Jobs
    BY <1>1, <2>4 DEF QueueTyped
  <2> QED
    BY <1>1, <2>3, <2>4, <2>5, QueueLeft
<1>3. CASE SweepNext
  <2>1. /\ sweep # <<>> /\ sweep' = Tail(sweep)
        /\ Claim(Head(sweep), Sweeper) \/ UNCHANGED <<doc, claims>>
        /\ UNCHANGED <<delivered, schedule, due, tasks, deadLetter, processed, crashed>>
    BY <1>3 DEF SweepNext
  <2>2. sweep' \in Seq(Jobs)
    BY <1>1, <2>1, HeadTailProperties
  <2>3. /\ tasks' \in [Tasks -> {"new", "queued", "used"}]
        /\ \A k \in Jobs : tasks'[<<k, MaxRetries + 1>>] = "new"
    BY <1>1, <2>1 DEF QueueTyped
  <2> QED
    BY <2>1, <2>2, <2>3, ClaimTyped
<1> QED
  BY <1>2, <1>3

(* A job whose pipeline has run stays where it is on the order.            *)
LEMMA SucceedTyped ==
    ASSUME QueueInv, NEW c \in claims, Succeed(c)
    PROVE  QueueTyped'
<1> DEFINE j == c.job
<1>1. /\ doc' = [doc EXCEPT ![j].status = "completed"]
      /\ processed' = processed \cup {j} /\ claims' = claims \ {c}
      /\ UNCHANGED <<delivered, schedule, due, tasks, sweep, deadLetter, crashed>>
  BY DEF Succeed
<1>2. /\ QueueTyped /\ j \in Jobs /\ doc[j].status # "none"
      /\ doc \in [Jobs -> [status : JobStatuses, retries : 0..MaxRetries + 1]]
      /\ \A d \in claims : d.job \in Jobs
  BY DEF QueueInv, RecoveryInv, Values, QueueTyped
<1> HIDE DEF j
<1>3. /\ doc'[j].status = "completed"
      /\ \A k \in Jobs : k # j => doc'[k] = doc[k]
  BY <1>1, <1>2
<1>4. InOrder' /\ ToSet(schedule') = {k \in Jobs : doc'[k].status # "none"}
  BY <1>1, <1>2, <1>3 DEF QueueTyped, InOrder
<1>5. \A d \in claims' : doc'[d.job].status # "none"
  BY <1>1, <1>2, <1>3 DEF QueueTyped
<1> QED
  BY <1>1, <1>2, <1>4, <1>5 DEF QueueTyped

(* A job that failed is put further back, with a task, or dead-lettered.   *)
LEMMA FailTyped ==
    ASSUME QueueInv, NEW c \in claims, Fail(c)
    PROVE  QueueTyped'
<1> DEFINE j == c.job
           next == [status |-> IF RetriesLeft(c) THEN "retrying" ELSE "failed",
                    retries |-> c.retries + 1]
<1>1. /\ doc' = [doc EXCEPT ![j] = next] /\ claims' = claims \ {c}
      /\ UNCHANGED <<delivered, sweep, crashed>>
      /\ deadLetter' \subseteq deadLetter \cup {j}
      /\ processed' \subseteq processed \cup {j}
  BY DEF Fail
<1>2. /\ QueueTyped /\ j \in Jobs /\ doc[j].status # "none"
      /\ doc \in [Jobs -> [status : JobStatuses, retries : 0..MaxRetries + 1]]
      /\ c.retries \in 0..MaxRetries
      /\ \A d \in claims : d.job \in Jobs
  BY DEF QueueInv, RecoveryInv, Values, QueueTyped
<1>3. next.status # "none"
  OBVIOUS
<1>4. CASE RetriesLeft(c)
  <2>1. ScheduleLater(j) /\ EnqueueRetryTask(j, c.retries + 1)
    BY <1>4 DEF Fail
  <2>2. c.retries + 1 \in 0..MaxRetries
    BY <1>2, <1>4, RecoveryAssumption DEF RetriesLeft
  <2> HIDE DEF j, next
  <2>3. /\ tasks' \in [Tasks -> {"new", "queued", "used"}]
        /\ \A k \in Jobs : tasks'[<<k, MaxRetries + 1>>] = "new"
    BY <1>2, <2>1, <2>2, TasksStep DEF QueueInv
  <2>4. InOrder' /\ ToSet(schedule') = ToSet(schedule) \cup {j}
    BY <1>2, <2>1, ScheduleStep DEF QueueTyped
  <2>5. /\ doc'[j].status # "none"
        /\ \A k \in Jobs : k # j => doc'[k] = doc[k]
    BY <1>1, <1>2, <1>3
  <2>6. ToSet(schedule') = {k \in Jobs : doc'[k].status # "none"}
    BY <1>2, <2>4, <2>5 DEF QueueTyped
  <2>7. \A d \in claims' : doc'[d.job].status # "none"
    BY <1>1, <1>2, <2>5 DEF QueueTyped
  <2> QED
    BY <1>1, <1>2, <2>3, <2>4, <2>6, <2>7 DEF QueueTyped
<1>5. CASE ~RetriesLeft(c)
  <2>1. UNCHANGED <<schedule, due, tasks>>
    BY <1>5 DEF Fail
  <2> HIDE DEF j, next
  <2>2. /\ doc'[j].status # "none"
        /\ \A k \in Jobs : k # j => doc'[k] = doc[k]
    BY <1>1, <1>2, <1>3
  <2>3. InOrder' /\ ToSet(schedule') = {k \in Jobs : doc'[k].status # "none"}
    BY <1>2, <2>1, <2>2 DEF QueueTyped, InOrder
  <2>4. \A d \in claims' : doc'[d.job].status # "none"
    BY <1>1, <1>2, <2>2 DEF QueueTyped
  <2> QED
    BY <1>1, <1>2, <2>1, <2>3, <2>4 DEF QueueTyped
<1> QED
  BY <1>4, <1>5

(* The execution of a job dies, and with it its sweep.                     *)
LEMMA CrashTyped ==
    ASSUME QueueInv, NEW c \in claims, CrashClaim(c)
    PROVE  QueueTyped'
<1>1. /\ UNCHANGED <<delivered, doc, schedule, due, tasks, deadLetter>>
      /\ claims' \subseteq claims
      /\ sweep' \in {<<>>, sweep}
      /\ processed' \subseteq processed \cup {c.job}
      /\ crashed' \subseteq crashed \cup {c.job}
  BY DEF CrashClaim, queueVars
<1>2. QueueTyped /\ c.job \in Jobs
  BY DEF QueueInv, RecoveryInv, Values
<1>3. /\ delivered' \subseteq Redelivered
      /\ processed' \subseteq Jobs /\ crashed' \subseteq Jobs
  BY <1>1, <1>2 DEF QueueTyped
<1>4. sweep' \in Seq(Jobs)
  <2>1. CASE sweep' = <<>>
    BY <2>1
  <2>2. CASE sweep' = sweep
    BY <1>2, <2>2 DEF QueueTyped
  <2> QED
    BY <1>1, <2>1, <2>2
<1> QED
  BY <1>1, <1>2, <1>3, <1>4, QueueLeft

(* Time passes, or nothing happens.                                        *)
LEMMA TimeTyped ==
    ASSUME QueueInv, TimePasses \/ UNCHANGED recoveryVars
    PROVE  QueueTyped'
<1>1. /\ UNCHANGED <<delivered, doc, schedule, tasks, claims, sweep, deadLetter,
                     processed, crashed>>
      /\ due' = due \/ (due < Len(schedule) /\ due' = due + 1)
      /\ QueueTyped
  BY DEF TimePasses, recoveryVars, QueueInv
<1>2. InOrder'
  <2>1. Len(schedule) \in Nat
    BY <1>1, LenProperties DEF QueueTyped, InOrder
  <2>2. due' \in 0..Len(schedule)
    BY <1>1, <2>1 DEF QueueTyped, InOrder
  <2> QED
    BY <1>1, <2>2 DEF QueueTyped, InOrder
<1>3. ToSet(schedule') = {k \in Jobs : doc'[k].status # "none"}
  BY <1>1 DEF QueueTyped
<1> QED
  BY <1>1, <1>2, <1>3 DEF QueueTyped

(* Every step of the retry queue keeps both halves of its invariant.       *)
LEMMA QueueStep == QueueInv /\ [RecoveryNext]_recoveryVars => QueueInv'
<1> SUFFICES ASSUME QueueInv, [RecoveryNext]_recoveryVars PROVE QueueInv'
  OBVIOUS
<1>1. RecoveryInv'
  BY NextRecovery DEF QueueInv
<1>2. ASSUME NEW j \in Jobs, TriggerStep(j) \/ Redeliver(j) \/ CrashTrigger(j)
      PROVE  QueueTyped'
  BY <1>2, TriggerTyped, FailureTyped, FirstTaskTyped DEF TriggerStep
<1>3. ASSUME NEW t \in Tasks, DispatchTask(t) PROVE QueueTyped'
  BY <1>3, DispatchTyped
<1>4. ASSUME NEW c \in claims, Outcome(c) \/ CrashClaim(c) PROVE QueueTyped'
  BY <1>4, SucceedTyped, FailTyped, CrashTyped DEF Outcome
<1>5. ASSUME StartSweep \/ SweepNext PROVE QueueTyped'
  BY <1>5, SweepTyped
<1>6. ASSUME TimePasses \/ UNCHANGED recoveryVars PROVE QueueTyped'
  BY <1>6, TimeTyped
<1>7. QueueTyped'
  BY <1>2, <1>3, <1>4, <1>5, <1>6 DEF RecoveryNext
<1> QED
  BY <1>1, <1>7 DEF QueueInv

\* The jobs of the retry queue, their order by nextAttemptAt, the tasks and
\* the claims have their types: each job that was ever written has exactly one
\* place, no more jobs are due than there are, and no execution is for a retry
\* beyond maxRetries.
THEOREM RecoveryTypeCorrect == RecoverySpec => []RecoveryTypeOK
<1>1. RecoveryInit => QueueInv
  BY InitRecovery, QueueInit DEF QueueInv
<1>2. QueueInv => RecoveryTypeOK
  <2> SUFFICES ASSUME QueueInv PROVE RecoveryTypeOK
    OBVIOUS
  <2>1. /\ trigger \in [Jobs -> TriggerSteps]
        /\ doc \in [Jobs -> [status : JobStatuses, retries : 0..MaxRetries + 1]]
        /\ QueueTyped
    BY DEF QueueInv, RecoveryInv, Values
  <2>2. ToSet(sweep) \subseteq Jobs
    <3>1. sweep \in Seq(Jobs)
      BY <2>1 DEF QueueTyped
    <3> QED
      BY <3>1 DEF ToSet
  <2> QED
    BY <2>1, <2>2 DEF QueueTyped, InOrder, RecoveryTypeOK
<1> QED
  BY <1>1, <1>2, QueueStep, PTL DEF RecoverySpec

-----------------------------------------------------------------------------
(* The retry queue implements the policy.                                  *)

\* A job that does not exist has not been retried.
FreshJobs == \A j \in Jobs : doc[j].status = "none" => doc[j].retries = 0

PolicyInv == QueueInv /\ FreshJobs

(* A step never removes a job.                                             *)
LEMMA JobsRemain ==
    ASSUME QueueInv, [RecoveryNext]_recoveryVars, NEW j \in Jobs
    PROVE  doc'[j] = doc[j] \/ doc'[j].status # "none"
<1>1. /\ doc \in [Jobs -> [status : JobStatuses, retries : 0..MaxRetries + 1]]
      /\ \A c \in claims : c.job \in Jobs
  BY DEF QueueInv, RecoveryInv, Values
<1>2. ASSUME NEW k, NEW by, Claim(k, by) PROVE doc'[j] = doc[j] \/ doc'[j].status # "none"
  <2>1. k \in Jobs /\ doc' = [doc EXCEPT ![k].status = "processing"]
    BY <1>2 DEF Claim, Claimable, DueJobs
  <2> QED
    BY <1>1, <2>1
<1>3. ASSUME NEW k \in Jobs, QueueFailure(k)
      PROVE  doc'[j] = doc[j] \/ doc'[j].status # "none"
  <2>1. \/ doc' = doc
        \/ \E s \in Waiting : doc' = [doc EXCEPT ![k].status = s]
    BY <1>3 DEF QueueFailure, Waiting
  <2> QED
    BY <1>1, <2>1 DEF Waiting
<1>4. ASSUME NEW c \in claims, Succeed(c)
      PROVE  doc'[j] = doc[j] \/ doc'[j].status # "none"
  <2>1. c.job \in Jobs /\ doc' = [doc EXCEPT ![c.job].status = "completed"]
    BY <1>1, <1>4 DEF Succeed
  <2> QED
    BY <1>1, <2>1
<1>5. ASSUME NEW c \in claims, Fail(c)
      PROVE  doc'[j] = doc[j] \/ doc'[j].status # "none"
  <2>1. /\ c.job \in Jobs
        /\ \/ doc' = [doc EXCEPT ![c.job] = [status |-> "retrying", retries |-> c.retries + 1]]
           \/ doc' = [doc EXCEPT ![c.job] = [status |-> "failed", retries |-> c.retries + 1]]
    BY <1>1, <1>5 DEF Fail
  <2> QED
    BY <1>1, <2>1
<1>6. \/ doc' = doc
      \/ \E k, by : Claim(k, by)
      \/ \E k \in Jobs : QueueFailure(k)
      \/ \E c \in claims : Succeed(c) \/ Fail(c)
  BY DEF RecoveryNext, recoveryVars, queueVars, TriggerStep, Outcome, StartTrigger,
         PipelineEnds, EnqueueFirstTask, Redeliver, CrashTrigger, DispatchTask,
         CrashClaim, StartSweep, SweepNext, TimePasses
<1> QED
  BY <1>2, <1>3, <1>4, <1>5, <1>6

(* The invariant the mapping rests on is kept.                             *)
LEMMA PolicyInvStep == PolicyInv /\ [RecoveryNext]_recoveryVars => PolicyInv'
<1> SUFFICES ASSUME PolicyInv, [RecoveryNext]_recoveryVars PROVE PolicyInv'
  OBVIOUS
<1>1. QueueInv'
  BY QueueStep DEF PolicyInv
<1>2. ASSUME NEW j \in Jobs, doc'[j].status = "none" PROVE doc'[j].retries = 0
  <2>1. doc'[j] = doc[j]
    BY <1>2, JobsRemain DEF PolicyInv
  <2> QED
    BY <1>2, <2>1 DEF PolicyInv, FreshJobs
<1> QED
  BY <1>1, <1>2 DEF PolicyInv, FreshJobs

(* What is known of a session delivered once.                              *)
LEMMA SureIs ==
    ASSUME PolicyInv, NEW j \in Sure
    PROVE  /\ j \in Jobs /\ j \notin Redelivered
           /\ trigger[j] \in TriggerSteps
           /\ doc[j].status \in JobStatuses /\ doc[j].retries \in 0..MaxRetries + 1
           /\ AnyJob(j) /\ OnceJob(j)
           /\ doc[j].status = "none" => doc[j].retries = 0
<1>1. j \in Jobs /\ j \in DeliveredOnce /\ j \notin Redelivered
  BY DEF Sure, DeliveredOnce, PolicyInv, QueueInv, QueueTyped
<1>2. /\ trigger \in [Jobs -> TriggerSteps]
      /\ doc \in [Jobs -> [status : JobStatuses, retries : 0..MaxRetries + 1]]
      /\ AnyJob(j) /\ OnceJob(j)
  BY <1>1 DEF PolicyInv, QueueInv, RecoveryInv, Values
<1>3. doc[j] \in [status : JobStatuses, retries : 0..MaxRetries + 1]
  BY <1>1, <1>2
<1> QED
  BY <1>1, <1>2, <1>3 DEF PolicyInv, FreshJobs

\* The moves the policy allows one session.
Stays(j) == StageOf(j)' = StageOf(j) /\ RunsOf(j)' = RunsOf(j)
Starts(j) ==
  /\ StageOf(j) \in {"submitted", "queued"} /\ RunsOf(j) < MaxRetries + 2
  /\ StageOf(j)' = "running" /\ RunsOf(j)' = RunsOf(j) + 1
Ends(j) ==
  /\ StageOf(j) = "running" /\ RunsOf(j)' = RunsOf(j)
  /\ \/ StageOf(j)' = "done"
     \/ StageOf(j)' = IF RunsOf(j) < MaxRetries + 2 THEN "queued" ELSE "dead"
     \/ "crash" \in Faults /\ StageOf(j)' = "lost"

(* A session's move, while the others stay, is a step of the policy.       *)
LEMMA MoveIsPolicyStep ==
    ASSUME NEW j \in Sure, Stays(j) \/ Starts(j) \/ Ends(j),
           \A k \in Sure : k # j => Stays(k)
    PROVE  [Policy!Next]_Policy!vars
<1> DEFINE st == [k \in Sure |-> StageOf(k)]
           rn == [k \in Sure |-> RunsOf(k)]
<1>1. /\ st[j] = StageOf(j) /\ rn[j] = RunsOf(j)
      /\ st' = [k \in Sure |-> StageOf(k)'] /\ rn' = [k \in Sure |-> RunsOf(k)']
  BY DEF Sure
<1>2. CASE Stays(j)
  <2>1. st' = st /\ rn' = rn
    BY <1>1, <1>2 DEF Stays
  <2> QED
    BY <2>1 DEF Policy!vars
<1>3. CASE Starts(j)
  <2>1. /\ st' = [st EXCEPT ![j] = "running"]
        /\ rn' = [rn EXCEPT ![j] = @ + 1]
    BY <1>1, <1>3 DEF Stays, Starts
  <2>2. Policy!Run(j)
    BY <1>1, <1>3, <2>1 DEF Starts, Policy!Run
  <2> QED
    BY <2>2 DEF Policy!Next
<1>4. CASE Ends(j)
  <2>1. /\ st' = [st EXCEPT ![j] = StageOf(j)'] /\ rn' = rn
    BY <1>1, <1>4 DEF Stays, Ends
  <2>2. Policy!Finish(j) \/ Policy!FailRun(j) \/ Policy!Lose(j)
    BY <1>1, <1>4, <2>1 DEF Ends, Policy!Finish, Policy!FailRun, Policy!Lose
  <2> QED
    BY <2>2 DEF Policy!Next
<1> QED
  BY <1>2, <1>3, <1>4

(* A session whose trigger, job, claims and results do not change stays.   *)
LEMMA SameStays ==
    ASSUME NEW k, trigger'[k] = trigger[k], doc'[k] = doc[k],
           k \in processed' <=> k \in processed,
           (\E c \in claims' : c.job = k) <=> (\E c \in claims : c.job = k)
    PROVE  Stays(k)
BY DEF Stays, StageOf, RunsOf, Executed

(* A step about one session, sure or not, is a step of the policy.         *)
LEMMA OneSession ==
    ASSUME NEW j, j \in Sure => Stays(j) \/ Starts(j) \/ Ends(j),
           \A k \in Sure : k # j =>
             /\ trigger'[k] = trigger[k] /\ doc'[k] = doc[k]
             /\ k \in processed' <=> k \in processed
             /\ (\E c \in claims' : c.job = k) <=> (\E c \in claims : c.job = k)
    PROVE  [Policy!Next]_Policy!vars
<1>1. \A k \in Sure : k # j => Stays(k)
  BY SameStays
<1>2. CASE j \in Sure
  BY <1>1, <1>2, MoveIsPolicyStep
<1>3. CASE j \notin Sure
  <2>1. \A k \in Sure : StageOf(k)' = StageOf(k) /\ RunsOf(k)' = RunsOf(k)
    BY <1>1, <1>3 DEF Stays
  <2>2. /\ [k \in Sure |-> StageOf(k)]' = [k \in Sure |-> StageOf(k)]
        /\ [k \in Sure |-> RunsOf(k)]' = [k \in Sure |-> RunsOf(k)]
    BY <2>1 DEF Sure
  <2> QED
    BY <2>2 DEF Policy!vars
<1> QED
  BY <1>2, <1>3

(* The trigger runs the pipeline once, and hands its failure to the queue.  *)
LEMMA TriggerPolicy ==
    ASSUME PolicyInv, NEW j \in Jobs,
           TriggerStep(j) \/ CrashTrigger(j) \/ Redeliver(j)
    PROVE  [Policy!Next]_Policy!vars
<1>1. /\ trigger \in [Jobs -> TriggerSteps]
      /\ doc \in [Jobs -> [status : JobStatuses, retries : 0..MaxRetries + 1]]
  BY DEF PolicyInv, QueueInv, RecoveryInv, Values
<1>2. \A k \in Sure : k # j =>
             /\ trigger'[k] = trigger[k] /\ doc'[k] = doc[k]
             /\ k \in processed' <=> k \in processed
             /\ (\E c \in claims' : c.job = k) <=> (\E c \in claims : c.job = k)
  <2>1. claims' = claims
    BY DEF TriggerStep, StartTrigger, PipelineEnds, QueueFailure, EnqueueFirstTask,
           CrashTrigger, Redeliver
  <2>2. processed' = processed \/ processed' = processed \cup {j}
    BY DEF TriggerStep, StartTrigger, PipelineEnds, QueueFailure, EnqueueFirstTask,
           CrashTrigger, Redeliver
  <2>3. \E s : trigger' = [trigger EXCEPT ![j] = s]
    BY DEF TriggerStep, StartTrigger, PipelineEnds, QueueFailure, EnqueueFirstTask,
           CrashTrigger, Redeliver
  <2>4. \/ doc' = doc
        \/ \E s : doc' = [doc EXCEPT ![j].status = s]
    BY DEF TriggerStep, StartTrigger, PipelineEnds, QueueFailure, EnqueueFirstTask,
           CrashTrigger, Redeliver, queueVars
  <2>5. \A k \in Sure : k # j => trigger'[k] = trigger[k] /\ doc'[k] = doc[k]
    BY <1>1, <2>3, <2>4 DEF Sure
  <2> QED
    BY <2>1, <2>2, <2>5
<1>3. ASSUME j \in Sure PROVE Stays(j) \/ Starts(j) \/ Ends(j)
  <2>1. /\ trigger[j] \in TriggerSteps /\ j \notin Redelivered
        /\ doc[j].status \in JobStatuses /\ doc[j].retries \in 0..MaxRetries + 1
        /\ AnyJob(j) /\ OnceJob(j)
        /\ doc[j].status = "none" => doc[j].retries = 0
    BY <1>3, SureIs
  <2>2. trigger[j] \in {"waiting", "running", "failed"} =>
          /\ doc[j].status = "none" /\ doc[j].retries = 0
          /\ ~\E c \in claims : c.job = j
    BY <2>1 DEF OnceJob
  <2>3. CASE StartTrigger(j)
    <3>1. /\ trigger[j] = "waiting" /\ trigger'[j] = "running"
          /\ doc' = doc /\ claims' = claims
      BY <1>1, <2>3 DEF StartTrigger, queueVars
    <3>2. StageOf(j) = "submitted" /\ RunsOf(j) = 0
      BY <2>2, <3>1 DEF StageOf, RunsOf, Executed
    <3>3. StageOf(j)' = "running" /\ RunsOf(j)' = 1
      BY <2>2, <3>1 DEF StageOf, RunsOf, Executed
    <3> QED
      BY <3>2, <3>3, RecoveryAssumption DEF Starts
  <2>4. CASE PipelineEnds(j)
    <3>1. /\ trigger[j] = "running" /\ doc' = doc /\ claims' = claims
          /\ \/ trigger'[j] = "done" /\ j \in processed'
             \/ trigger'[j] = "failed"
      BY <1>1, <2>4 DEF PipelineEnds, queueVars
    <3>2. StageOf(j) = "running" /\ RunsOf(j) = 1
      BY <2>2, <3>1 DEF StageOf, RunsOf, Executed
    <3>3. StageOf(j)' \in {"running", "done"} /\ RunsOf(j)' = 1
      BY <2>2, <3>1 DEF StageOf, RunsOf, Executed, Waiting
    <3> QED
      BY <3>2, <3>3 DEF Stays, Ends
  <2>5. CASE QueueFailure(j)
    <3>1. trigger[j] = "failed" /\ doc[j].status \notin Finished /\ claims' = claims
      BY <2>2, <2>5 DEF QueueFailure, Finished
    <3>2. /\ trigger' = [trigger EXCEPT ![j] = "written"]
          /\ doc' = [doc EXCEPT ![j].status = IF @ # "none" /\ doc[j].retries > 0
                                                THEN "retrying" ELSE "pending"]
      BY <2>5, <3>1 DEF QueueFailure
    <3>3. /\ trigger'[j] = "written" /\ doc'[j].status = "pending" /\ doc'[j].retries = 0
      BY <1>1, <2>2, <3>1, <3>2
    <3>4. StageOf(j) = "running" /\ RunsOf(j) = 1
      BY <2>2, <3>1 DEF StageOf, RunsOf, Executed
    <3>5. StageOf(j)' = "queued" /\ RunsOf(j)' = 1
      BY <2>2, <3>1, <3>3 DEF StageOf, RunsOf, Executed, Waiting
    <3> QED
      BY <3>4, <3>5, RecoveryAssumption DEF Ends
  <2>6. CASE EnqueueFirstTask(j)
    <3>1. /\ trigger[j] = "written" /\ trigger'[j] = "done"
          /\ doc' = doc /\ claims' = claims /\ processed' = processed
      BY <1>1, <2>6 DEF EnqueueFirstTask
    <3>2. doc[j].status # "none"
      BY <2>1, <3>1 DEF AnyJob
    <3> QED
      BY <3>1, <3>2 DEF Stays, StageOf, RunsOf, Executed
  <2>7. CASE CrashTrigger(j)
    <3>1. /\ "crash" \in Faults /\ trigger[j] \in {"running", "failed", "written"}
          /\ trigger'[j] = "done"
          /\ doc' = doc /\ claims' = claims /\ processed' = processed
      BY <1>1, <2>7 DEF CrashTrigger, queueVars
    <3>2. CASE trigger[j] = "written"
      <4>1. doc[j].status # "none"
        BY <2>1, <3>2 DEF AnyJob
      <4> QED
        BY <3>1, <3>2, <4>1 DEF Stays, StageOf, RunsOf, Executed
    <3>3. CASE trigger[j] \in {"running", "failed"}
      <4>1. StageOf(j) = "running" /\ RunsOf(j) = 1
        BY <2>2, <3>3 DEF StageOf, RunsOf, Executed
      <4>2. StageOf(j)' \in {"done", "lost"} /\ RunsOf(j)' = 1
        BY <2>2, <3>1, <3>3 DEF StageOf, RunsOf, Executed, Waiting
      <4> QED
        BY <3>1, <4>1, <4>2 DEF Ends
    <3> QED
      BY <3>1, <3>2, <3>3
  <2>8. ~Redeliver(j)
    BY <2>1 DEF Redeliver
  <2> QED
    BY <2>3, <2>4, <2>5, <2>6, <2>7, <2>8 DEF TriggerStep
<1> QED
  BY <1>2, <1>3, OneSession

(* Whoever claims a job starts its next execution.                         *)
LEMMA ClaimPolicy ==
    ASSUME PolicyInv, NEW j, NEW by, Claim(j, by),
           UNCHANGED <<trigger, processed>>
    PROVE  [Policy!Next]_Policy!vars
<1>1. /\ j \in Jobs /\ doc[j].status \in Waiting
      /\ doc' = [doc EXCEPT ![j].status = "processing"]
  BY DEF Claim, Claimable, DueJobs
<1> DEFINE new == [by |-> by, job |-> j, retries |-> doc[j].retries]
<1>2. claims' = claims \cup {new} /\ new.job = j
  BY DEF Claim
<1> HIDE DEF new
<1>3. /\ doc'[j].status = "processing" /\ doc'[j].retries = doc[j].retries
      /\ \A k \in Jobs : k # j => doc'[k] = doc[k]
  BY <1>1 DEF PolicyInv, QueueInv, RecoveryInv, Values
<1>4. ASSUME j \in Sure PROVE Stays(j) \/ Starts(j) \/ Ends(j)
  <2>1. /\ doc[j].retries \in 0..MaxRetries + 1 /\ AnyJob(j) /\ OnceJob(j)
    BY <1>4, SureIs
  <2>2. doc[j].retries <= MaxRetries
    BY <1>1, <2>1 DEF AnyJob, Waiting, Finished
  <2>3. ~Executed(j)
    BY <1>1, <2>1 DEF OnceJob, Executed, Waiting
  <2>4. StageOf(j) = "queued" /\ RunsOf(j) = doc[j].retries + 1
    BY <1>1, <2>3 DEF StageOf, RunsOf, Waiting
  <2>5. StageOf(j)' = "running" /\ RunsOf(j)' = doc[j].retries + 2
    BY <1>2, <1>3 DEF StageOf, RunsOf, Executed, Waiting
  <2> QED
    BY <2>1, <2>2, <2>4, <2>5, RecoveryAssumption DEF Starts
<1>5. \A k \in Sure : k # j =>
             /\ trigger'[k] = trigger[k] /\ doc'[k] = doc[k]
             /\ k \in processed' <=> k \in processed
             /\ (\E c \in claims' : c.job = k) <=> (\E c \in claims : c.job = k)
  BY <1>2, <1>3 DEF Sure
<1> QED
  BY <1>4, <1>5, OneSession

(* The outcome of an execution, or its loss.                               *)
LEMMA OutcomePolicy ==
    ASSUME PolicyInv, NEW c \in claims, Outcome(c) \/ CrashClaim(c)
    PROVE  [Policy!Next]_Policy!vars
<1> DEFINE j == c.job
<1>1. /\ j \in Jobs /\ c.retries \in 0..MaxRetries
      /\ doc \in [Jobs -> [status : JobStatuses, retries : 0..MaxRetries + 1]]
  BY DEF PolicyInv, QueueInv, RecoveryInv, Values
<1>2. /\ claims' = claims \ {c} /\ trigger' = trigger
      /\ \/ processed' = processed \/ processed' = processed \cup {j}
  BY DEF Outcome, Succeed, Fail, CrashClaim
<1>3. CASE Succeed(c)
  <2>1. doc' = [doc EXCEPT ![j].status = "completed"]
    BY <1>3 DEF Succeed
  <2>2. /\ doc'[j].status = "completed" /\ doc'[j].retries = doc[j].retries
        /\ \A k \in Jobs : k # j => doc'[k] = doc[k]
    BY <1>1, <2>1
  <2>3. ASSUME j \in Sure PROVE Ends(j)
    <3>1. OnceJob(j)
      BY <2>3, SureIs
    <3>2. /\ doc[j].status = "processing" /\ ~\E d \in claims' : d.job = j
          /\ trigger[j] \notin {"running", "failed"}
      BY <1>2, <3>1 DEF OnceJob
    <3>3. StageOf(j) = "running" /\ RunsOf(j) = doc[j].retries + 2
      BY <3>2 DEF StageOf, RunsOf, Executed, Waiting
    <3>4. StageOf(j)' = "done" /\ RunsOf(j)' = doc[j].retries + 2
      BY <1>2, <2>2, <3>2 DEF StageOf, RunsOf, Executed, Waiting
    <3> QED
      BY <3>3, <3>4 DEF Ends
  <2>4. \A k \in Sure : k # j =>
             /\ trigger'[k] = trigger[k] /\ doc'[k] = doc[k]
             /\ k \in processed' <=> k \in processed
             /\ (\E d \in claims' : d.job = k) <=> (\E d \in claims : d.job = k)
    BY <1>2, <2>2 DEF Sure
  <2> HIDE DEF j
  <2> QED
    BY <2>3, <2>4, OneSession
<1>4. CASE Fail(c)
  <2> DEFINE next == [status |-> IF RetriesLeft(c) THEN "retrying" ELSE "failed",
                      retries |-> c.retries + 1]
  <2>1. doc' = [doc EXCEPT ![j] = next]
    BY <1>4 DEF Fail
  <2>2. /\ doc'[j] = next /\ \A k \in Jobs : k # j => doc'[k] = doc[k]
    BY <1>1, <2>1
  <2>3. ASSUME j \in Sure PROVE Ends(j)
    <3>1. OnceJob(j)
      BY <2>3, SureIs
    <3>2. /\ doc[j].status = "processing" /\ ~\E d \in claims' : d.job = j
          /\ trigger[j] \notin {"running", "failed"} /\ doc[j].retries = c.retries
      BY <1>2, <3>1 DEF OnceJob
    <3>3. StageOf(j) = "running" /\ RunsOf(j) = c.retries + 2
      BY <3>2 DEF StageOf, RunsOf, Executed, Waiting
    <3>4. CASE RetriesLeft(c)
      <4>1. doc'[j].status = "retrying" /\ doc'[j].retries = c.retries + 1
        BY <2>2, <3>4
      <4>2. StageOf(j)' = "queued" /\ RunsOf(j)' = c.retries + 2
        BY <1>1, <1>2, <3>2, <4>1 DEF StageOf, RunsOf, Executed, Waiting
      <4>3. c.retries + 2 < MaxRetries + 2
        BY <1>1, <3>4, RecoveryAssumption DEF RetriesLeft
      <4> QED
        BY <3>3, <4>2, <4>3 DEF Ends
    <3>5. CASE ~RetriesLeft(c)
      <4>1. doc'[j].status = "failed" /\ doc'[j].retries = c.retries + 1
        BY <2>2, <3>5
      <4>2. StageOf(j)' = "dead" /\ RunsOf(j)' = c.retries + 2
        BY <1>1, <1>2, <3>2, <4>1 DEF StageOf, RunsOf, Executed, Waiting
      <4>3. ~(c.retries + 2 < MaxRetries + 2)
        BY <1>1, <3>5, RecoveryAssumption DEF RetriesLeft
      <4> QED
        BY <3>3, <4>2, <4>3 DEF Ends
    <3> QED
      BY <3>4, <3>5
  <2>4. \A k \in Sure : k # j =>
             /\ trigger'[k] = trigger[k] /\ doc'[k] = doc[k]
             /\ k \in processed' <=> k \in processed
             /\ (\E d \in claims' : d.job = k) <=> (\E d \in claims : d.job = k)
    BY <1>2, <2>2 DEF Sure
  <2> HIDE DEF j
  <2> QED
    BY <2>3, <2>4, OneSession
<1>5. CASE CrashClaim(c)
  <2>1. doc' = doc /\ "crash" \in Faults
    BY <1>5 DEF CrashClaim, queueVars
  <2>2. ASSUME j \in Sure PROVE Ends(j)
    <3>1. OnceJob(j)
      BY <2>2, SureIs
    <3>2. /\ doc[j].status = "processing" /\ ~\E d \in claims' : d.job = j
          /\ trigger[j] \notin {"running", "failed"}
      BY <1>2, <3>1 DEF OnceJob
    <3>3. StageOf(j) = "running"
      BY DEF StageOf, Executed
    <3>4. StageOf(j)' = "lost" /\ RunsOf(j)' = RunsOf(j)
      BY <1>2, <2>1, <3>2 DEF StageOf, RunsOf, Executed, Waiting
    <3> QED
      BY <2>1, <3>3, <3>4 DEF Ends
  <2>3. \A k \in Sure : k # j =>
             /\ trigger'[k] = trigger[k] /\ doc'[k] = doc[k]
             /\ k \in processed' <=> k \in processed
             /\ (\E d \in claims' : d.job = k) <=> (\E d \in claims : d.job = k)
    BY <1>2, <2>1
  <2> HIDE DEF j
  <2> QED
    BY <2>2, <2>3, OneSession
<1> QED
  BY <1>3, <1>4, <1>5 DEF Outcome

(* Tasks, the order and the sweep's list mean nothing to the policy.       *)
LEMMA PolicyStutter ==
    ASSUME UNCHANGED <<trigger, doc, claims, processed>>
    PROVE  [Policy!Next]_Policy!vars
BY DEF Policy!vars, StageOf, RunsOf, Executed

(* Every step of the retry queue is a step of the policy, or none.         *)
LEMMA PolicyStep == PolicyInv /\ [RecoveryNext]_recoveryVars => [Policy!Next]_Policy!vars
<1> SUFFICES ASSUME PolicyInv, [RecoveryNext]_recoveryVars
             PROVE  [Policy!Next]_Policy!vars
  OBVIOUS
<1>1. ASSUME NEW j \in Jobs, TriggerStep(j) \/ Redeliver(j) \/ CrashTrigger(j)
      PROVE  [Policy!Next]_Policy!vars
  BY <1>1, TriggerPolicy
<1>2. ASSUME NEW t \in Tasks, DispatchTask(t) PROVE [Policy!Next]_Policy!vars
  <2>1. /\ UNCHANGED <<trigger, processed>>
        /\ Claim(t[1], t[2]) \/ UNCHANGED <<doc, claims>>
    BY <1>2 DEF DispatchTask
  <2> QED
    BY <2>1, ClaimPolicy, PolicyStutter
<1>3. ASSUME NEW c \in claims, Outcome(c) \/ CrashClaim(c)
      PROVE  [Policy!Next]_Policy!vars
  BY <1>3, OutcomePolicy
<1>4. CASE SweepNext
  <2>1. /\ UNCHANGED <<trigger, processed>>
        /\ Claim(Head(sweep), Sweeper) \/ UNCHANGED <<doc, claims>>
    BY <1>4 DEF SweepNext
  <2> QED
    BY <2>1, ClaimPolicy, PolicyStutter
<1>5. CASE StartSweep \/ TimePasses \/ UNCHANGED recoveryVars
  BY <1>5, PolicyStutter DEF StartSweep, TimePasses, recoveryVars, queueVars
<1> QED
  BY <1>1, <1>2, <1>3, <1>4, <1>5 DEF RecoveryNext

\* The retry queue implements the policy: for every set of sessions and every
\* choice of faults, triggers, tasks and sweeps run the pipeline of a session
\* delivered once by one execution at a time and at most MaxRetries + 2 times,
\* again after each failure, and never after the last.
THEOREM QueueFollowsPolicy == RecoverySpec => FollowsPolicy
<1>1. RecoveryInit => PolicyInv
  <2>1. RecoveryInit => QueueInv
    BY InitRecovery, QueueInit DEF QueueInv
  <2>2. RecoveryInit => FreshJobs
    BY DEF RecoveryInit, FreshJobs
  <2> QED
    BY <2>1, <2>2 DEF PolicyInv
<1>2. RecoveryInit => Policy!Init
  <2> SUFFICES ASSUME RecoveryInit PROVE Policy!Init
    OBVIOUS
  <2>1. \A j \in Sure : StageOf(j) = "submitted" /\ RunsOf(j) = 0
    BY DEF RecoveryInit, Sure, StageOf, RunsOf, Executed
  <2> QED
    BY <2>1 DEF Policy!Init
<1> QED
  BY <1>1, <1>2, PolicyInvStep, PolicyStep, PTL
  DEF RecoverySpec, FollowsPolicy, Policy!Spec
=============================================================================
