---------------------------- MODULE LlmBatchProofs ----------------------------
(***************************************************************************)
(* Theorems about LlmBatch, for every number of requests and replicas,     *)
(* every size of a batch and every failure.  The results so far are those  *)
(* of the first requests of the batch, in its order, and a request is held *)
(* by one replica, once, and only while its caller waits.                  *)
(***************************************************************************)
EXTENDS LlmBatch, SequenceTheorems, FiniteSetTheorems, TLAPS

Replica == [queue : Seq(Requests), batch : Seq(Requests), results : Seq(Result),
            next : Nat, loaded : BOOLEAN]

\* There is a result for each request of the batch before the next one.
ProgressOK(x) ==
    /\ Len(x.batch) <= MaxBatch
    /\ x.next = 0 => x.results = <<>>
    /\ x.next # 0 =>
          x.batch # <<>> /\ x.next <= Len(x.batch) + 1 /\ Len(x.results) = x.next - 1

\* A result is of the request at its place.
ResultsOK(x) ==
    \A i \in 1 .. Len(x.results) :
        /\ i <= Len(x.batch)
        /\ x.results[i].of = x.batch[i]
        /\ x.results[i].success => kind[x.batch[i]] = "chat"
        /\ kind[x.batch[i]] # "malformed"

\* No request is in the queue twice, or in the queue and in the batch.
QueueOK(x) ==
    /\ \A i, j \in 1 .. Len(x.queue) : x.queue[i] = x.queue[j] => i = j
    /\ ToSet(x.queue) \cap ToSet(x.batch) = {}

HeldBy(x) == ToSet(x.queue) \cup ToSet(x.batch)

HeldOnce ==
    /\ \A r \in Replicas : \A q \in HeldBy(replica[r]) : answer[q].was = "waiting"
    /\ \A r, s \in Replicas : \A q \in HeldBy(replica[r]) \cap HeldBy(replica[s]) : r = s

IInv ==
    /\ kind \in [Requests -> Kinds]
    /\ answer \in [Requests -> Answer]
    /\ replica \in [Replicas -> Replica]
    /\ \A r \in Replicas : ProgressOK(replica[r]) /\ ResultsOK(replica[r]) /\ QueueOK(replica[r])
    /\ HeldOnce
    /\ OwnResult

----------------------------------------------------------------------------

LEMMA ToSetProperties ==
    ASSUME NEW S, NEW s \in Seq(S)
    PROVE  /\ ToSet(s) = {s[i] : i \in 1 .. Len(s)}
           /\ ToSet(s) \subseteq S
BY LenProperties, ElementOfSeq DEF ToSet

LEMMA AppendToSet ==
    ASSUME NEW S, NEW s \in Seq(S), NEW e \in S
    PROVE  /\ Append(s, e) \in Seq(S)
           /\ ToSet(Append(s, e)) = ToSet(s) \cup {e}
  <1> DEFINE t == Append(s, e)
  <1>1. /\ t \in Seq(S) /\ Len(t) = Len(s) + 1
        /\ \A i \in 1 .. Len(s) : t[i] = s[i]
        /\ t[Len(s) + 1] = e
    BY AppendProperties
  <1>2. Len(s) \in Nat
    BY LenProperties
  <1> HIDE DEF t
  <1>3. ToSet(t) = {t[i] : i \in 1 .. Len(s) + 1} /\ ToSet(s) = {s[i] : i \in 1 .. Len(s)}
    BY <1>1, ToSetProperties
  <1>4. \A i : i \in 1 .. Len(s) + 1 <=> i \in 1 .. Len(s) \/ i = Len(s) + 1
    BY <1>2
  <1>5. \A y : y \in ToSet(t) <=> y \in ToSet(s) \cup {e}
    BY <1>1, <1>3, <1>4, Zenon
  <1> QED BY <1>1, <1>5 DEF t

LEMMA SubSeqToSet ==
    ASSUME NEW S, NEW s \in Seq(S), NEW m \in Nat \ {0}, NEW n \in 0 .. Len(s)
    PROVE  /\ SubSeq(s, m, n) \in Seq(S)
           /\ Len(SubSeq(s, m, n)) = IF m <= n THEN n - m + 1 ELSE 0
           /\ ToSet(SubSeq(s, m, n)) \subseteq ToSet(s)
  <1> DEFINE t == SubSeq(s, m, n)
  <1>1. Len(s) \in Nat
    BY LenProperties
  <1>2. \A i \in m .. n : s[i] \in S
    BY <1>1, ElementOfSeq
  <1>3. /\ t \in Seq(S) /\ Len(t) = (IF m <= n THEN n - m + 1 ELSE 0)
        /\ \A i \in 1 .. n - m + 1 : t[i] = s[m + i - 1]
    BY <1>1, <1>2, SubSeqProperties
  <1> HIDE DEF t
  <1>4. ToSet(t) = {t[i] : i \in 1 .. Len(t)} /\ ToSet(s) = {s[i] : i \in 1 .. Len(s)}
    BY <1>3, ToSetProperties
  <1>5. \A i \in 1 .. Len(t) : t[i] = s[m + i - 1] /\ m + i - 1 \in 1 .. Len(s)
    BY <1>1, <1>3
  <1>6. ToSet(t) \subseteq ToSet(s)
    BY <1>4, <1>5
  <1> QED BY <1>3, <1>6 DEF t

\* The two parts of a sequence without repetitions have nothing in common.
LEMMA SplitSeq ==
    ASSUME NEW S, NEW s \in Seq(S), NEW n \in 0 .. Len(s),
           \A i, j \in 1 .. Len(s) : s[i] = s[j] => i = j
    PROVE  LET rest == SubSeq(s, n + 1, Len(s))
           IN /\ ToSet(rest) \cap ToSet(SubSeq(s, 1, n)) = {}
              /\ \A i, j \in 1 .. Len(rest) : rest[i] = rest[j] => i = j
  <1> DEFINE first == SubSeq(s, 1, n)
             rest == SubSeq(s, n + 1, Len(s))
  <1>1. Len(s) \in Nat /\ n + 1 \in Nat \ {0}
    BY LenProperties
  <1>2. \A i \in 1 .. Len(s) : s[i] \in S
    BY <1>1, ElementOfSeq
  <1>3. /\ first \in Seq(S) /\ Len(first) = n
        /\ \A i \in 1 .. n : first[i] = s[i]
    <2>1. /\ first \in Seq(S) /\ Len(first) = (IF 1 <= n THEN n - 1 + 1 ELSE 0)
          /\ \A i \in 1 .. n - 1 + 1 : first[i] = s[1 + i - 1]
      BY <1>1, <1>2, SubSeqProperties
    <2> HIDE DEF first
    <2> QED BY <1>1, <2>1
  <1>4. /\ rest \in Seq(S) /\ Len(rest) = Len(s) - n
        /\ \A i \in 1 .. Len(s) - n : rest[i] = s[n + i]
    <2>1. /\ rest \in Seq(S)
          /\ Len(rest) = (IF n + 1 <= Len(s) THEN Len(s) - (n + 1) + 1 ELSE 0)
          /\ \A i \in 1 .. Len(s) - (n + 1) + 1 : rest[i] = s[n + 1 + i - 1]
      BY <1>1, <1>2, SubSeqProperties
    <2> HIDE DEF rest
    <2> QED BY <1>1, <2>1
  <1> HIDE DEF first, rest
  <1>5. ASSUME NEW i \in 1 .. Len(rest), NEW j \in 1 .. Len(rest), rest[i] = rest[j]
        PROVE  i = j
    <2>1. n + i \in 1 .. Len(s) /\ n + j \in 1 .. Len(s)
      BY <1>1, <1>4
    <2>2. s[n + i] = s[n + j]
      BY <1>4, <1>5
    <2>3. n + i = n + j
      BY <2>1, <2>2
    <2> QED BY <1>1, <1>4, <2>3
  <1>6. /\ ToSet(first) = {first[i] : i \in 1 .. n}
        /\ ToSet(rest) = {rest[i] : i \in 1 .. Len(s) - n}
    <2>1. ToSet(first) = {first[i] : i \in 1 .. Len(first)}
      BY <1>3, ToSetProperties
    <2>2. ToSet(rest) = {rest[i] : i \in 1 .. Len(rest)}
      BY <1>4, ToSetProperties
    <2> QED BY <1>3, <1>4, <2>1, <2>2
  <1>7. ASSUME NEW i \in 1 .. n, NEW j \in 1 .. Len(s) - n
        PROVE  first[i] # rest[j]
    <2>1. i \in 1 .. Len(s) /\ n + j \in 1 .. Len(s) /\ i # n + j
      BY <1>1
    <2>2. s[i] # s[n + j]
      BY <2>1
    <2> QED BY <1>3, <1>4, <2>2
  <1> QED BY <1>5, <1>6, <1>7 DEF first, rest

LEMMA ConcatToSet ==
    ASSUME NEW S, NEW s \in Seq(S), NEW t \in Seq(S)
    PROVE  ToSet(s \o t) = ToSet(s) \cup ToSet(t)
  <1>1. /\ s \o t \in Seq(S) /\ Len(s \o t) = Len(s) + Len(t)
        /\ \A i \in 1 .. Len(s) + Len(t) :
              (s \o t)[i] = IF i <= Len(s) THEN s[i] ELSE t[i - Len(s)]
    BY ConcatProperties
  <1>2. Len(s) \in Nat /\ Len(t) \in Nat
    BY LenProperties
  <1>3. /\ ToSet(s \o t) = {(s \o t)[i] : i \in 1 .. Len(s) + Len(t)}
        /\ ToSet(s) = {s[i] : i \in 1 .. Len(s)} /\ ToSet(t) = {t[i] : i \in 1 .. Len(t)}
    BY <1>1, ToSetProperties
  <1>4. ASSUME NEW i \in 1 .. Len(s) + Len(t)
        PROVE  (s \o t)[i] \in ToSet(s) \cup ToSet(t)
    <2>1. CASE i <= Len(s)
      BY <1>1, <1>2, <1>3, <2>1
    <2>2. CASE ~(i <= Len(s))
      <3>1. i - Len(s) \in 1 .. Len(t) /\ (s \o t)[i] = t[i - Len(s)]
        BY <1>1, <1>2, <2>2
      <3> QED BY <1>3, <3>1
    <2> QED BY <2>1, <2>2
  <1>5. ASSUME NEW i \in 1 .. Len(s) PROVE s[i] \in ToSet(s \o t)
    <2>1. i \in 1 .. Len(s) + Len(t) /\ (s \o t)[i] = s[i]
      BY <1>1, <1>2
    <2> QED BY <1>3, <2>1
  <1>6. ASSUME NEW i \in 1 .. Len(t) PROVE t[i] \in ToSet(s \o t)
    <2> DEFINE j == Len(s) + i
    <2>1. j \in 1 .. Len(s) + Len(t) /\ ~(j <= Len(s)) /\ j - Len(s) = i
      BY <1>2
    <2> HIDE DEF j
    <2>2. (s \o t)[j] = t[i]
      BY <1>1, <2>1
    <2> QED BY <1>3, <2>1, <2>2
  <1>7. ToSet(s) \subseteq ToSet(s \o t) /\ ToSet(t) \subseteq ToSet(s \o t)
    BY <1>3, <1>5, <1>6
  <1> QED BY <1>3, <1>4, <1>7

LEMMA HeldRequests ==
    ASSUME NEW x \in Replica
    PROVE  /\ HeldBy(x) \subseteq Requests
           /\ ToSet(x.queue) \subseteq Requests /\ ToSet(x.batch) \subseteq Requests
BY ToSetProperties DEF HeldBy, Replica

LEMMA IdleFields ==
    /\ Idle \in Replica
    /\ Idle.queue = <<>> /\ Idle.batch = <<>> /\ Idle.results = <<>> /\ Idle.next = 0
BY EmptySeq DEF Idle, Replica

LEMMA IdleOK ==
    ASSUME NEW queue \in Seq(Requests), NEW loaded \in BOOLEAN,
           \A i, j \in 1 .. Len(queue) : queue[i] = queue[j] => i = j
    PROVE  LET x == [Idle EXCEPT !.queue = queue, !.loaded = loaded]
           IN /\ x \in Replica
              /\ ProgressOK(x) /\ ResultsOK(x) /\ QueueOK(x)
              /\ HeldBy(x) = ToSet(queue)
  <1> DEFINE x == [Idle EXCEPT !.queue = queue, !.loaded = loaded]
  <1>1. /\ x \in Replica
        /\ x.queue = queue /\ x.batch = <<>> /\ x.results = <<>> /\ x.next = 0
    BY IdleFields DEF Replica
  <1>2. ToSet(<<>>) = {}
    BY DEF ToSet
  <1>3. MaxBatch \in Nat
    BY LlmConstants
  <1> HIDE DEF x
  <1>4. HeldBy(x) = ToSet(queue)
    BY <1>1, <1>2 DEF HeldBy
  <1>5. ProgressOK(x) /\ ResultsOK(x) /\ QueueOK(x)
    BY <1>1, <1>2, <1>3 DEF ProgressOK, ResultsOK, QueueOK
  <1> QED BY <1>1, <1>4, <1>5 DEF x

LEMMA InitIInv == Init => IInv
  <1> SUFFICES ASSUME Init PROVE IInv
    OBVIOUS
  <1>1. ToSet(<<>>) = {}
    BY DEF ToSet
  <1>2. MaxBatch \in Nat
    BY LlmConstants
  <1>3. HeldBy(Idle) = {}
    BY <1>1, IdleFields DEF HeldBy
  <1>4. ProgressOK(Idle) /\ ResultsOK(Idle) /\ QueueOK(Idle)
    BY <1>1, <1>2, IdleFields DEF ProgressOK, ResultsOK, QueueOK
  <1>5. /\ \A r \in Replicas : replica[r] = Idle
        /\ replica \in [Replicas -> Replica]
    BY IdleFields DEF Init
  <1>6. /\ kind \in [Requests -> Kinds] /\ answer \in [Requests -> Answer]
        /\ OwnResult
    BY DEF Init, Answer, OwnResult
  <1>7. HeldOnce
    BY <1>3, <1>5 DEF HeldOnce
  <1> QED BY <1>4, <1>5, <1>6, <1>7 DEF IInv

\* A step of one replica that takes no new request.
LEMMA WorkIInv ==
    ASSUME IInv, NEW r \in Replicas, NEW x \in Replica,
           replica' = [replica EXCEPT ![r] = x],
           UNCHANGED kind,
           ProgressOK(x), ResultsOK(x), QueueOK(x), HeldBy(x) \subseteq HeldBy(replica[r]),
           answer' \in [Requests -> Answer],
           \A q \in Requests : answer'[q] # answer[q] =>
               q \in HeldBy(replica[r]) /\ q \notin HeldBy(x),
           OwnResult'
    PROVE  IInv'
  <1>1. /\ replica' \in [Replicas -> Replica]
        /\ \A s \in Replicas : replica'[s] = IF s = r THEN x ELSE replica[s]
    BY DEF IInv
  <1>2. \A s \in Replicas :
           ProgressOK(replica'[s]) /\ ResultsOK(replica'[s]) /\ QueueOK(replica'[s])
    BY <1>1 DEF IInv
  <1>3. \A s \in Replicas : ResultsOK(replica[s])'
    BY <1>2 DEF ResultsOK
  <1>4. \A s \in Replicas : HeldBy(replica'[s]) \subseteq HeldBy(replica[s])
    BY <1>1
  <1>5. \A s \in Replicas : HeldBy(replica[s]) \subseteq Requests
    BY HeldRequests DEF IInv
  <1>6. \A s \in Replicas : \A q \in HeldBy(replica'[s]) : answer'[q] = answer[q]
    <2> SUFFICES ASSUME NEW s \in Replicas, NEW q \in HeldBy(replica'[s]),
                        answer'[q] # answer[q]
                 PROVE  FALSE
      OBVIOUS
    <2>1. q \in HeldBy(replica[r]) /\ q \notin HeldBy(x) /\ q \in HeldBy(replica[s])
      BY <1>4, <1>5
    <2>2. s = r
      BY <2>1 DEF IInv, HeldOnce
    <2> QED BY <1>1, <2>1, <2>2
  <1>7. HeldOnce'
    <2>1. \A s \in Replicas : \A q \in HeldBy(replica'[s]) : answer'[q].was = "waiting"
      BY <1>4, <1>6 DEF HeldOnce, IInv
    <2>2. \A s, t \in Replicas :
             \A q \in HeldBy(replica'[s]) \cap HeldBy(replica'[t]) : s = t
      BY <1>4 DEF HeldOnce, IInv
    <2> QED BY <2>1, <2>2 DEF HeldOnce, HeldBy
  <1> QED BY <1>1, <1>2, <1>3, <1>7 DEF IInv, ProgressOK, QueueOK

LEMMA RaiseProperties ==
    ASSUME IInv, NEW qs, answer' = Raise(qs), UNCHANGED kind
    PROVE  /\ answer' \in [Requests -> Answer]
           /\ \A q \in Requests : answer'[q] # answer[q] => q \in qs
           /\ \A q \in Requests : answer'[q].was = "raised" => q \in qs \/ answer[q].was = "raised"
           /\ OwnResult'
  <1>1. \A q \in Requests :
           answer'[q] = IF q \in qs THEN [was |-> "raised"] ELSE answer[q]
    BY DEF Raise
  <1>2. [was |-> "raised"] \in Answer
    BY DEF Answer
  <1> QED BY <1>1, <1>2 DEF Raise, IInv, OwnResult

LEMMA BatchRaisesIInv ==
    ASSUME IInv, NEW r \in Replicas, BatchRaises(r)
    PROVE  IInv'
  <1> DEFINE x == [Idle EXCEPT !.queue = replica[r].queue, !.loaded = replica[r].loaded]
  <1>1. replica[r] \in Replica
    BY DEF IInv
  <1>2. replica[r].queue \in Seq(Requests) /\ replica[r].loaded \in BOOLEAN
    BY <1>1 DEF Replica
  <1>3. /\ x \in Replica /\ ProgressOK(x) /\ ResultsOK(x) /\ QueueOK(x)
        /\ HeldBy(x) = ToSet(replica[r].queue)
    BY <1>2, IdleOK DEF IInv, QueueOK
  <1>4. /\ HeldBy(x) \subseteq HeldBy(replica[r])
        /\ \A q \in ToSet(replica[r].batch) : q \in HeldBy(replica[r]) /\ q \notin HeldBy(x)
    BY <1>3 DEF HeldBy, IInv, QueueOK
  <1>5. /\ replica' = [replica EXCEPT ![r] = x]
        /\ UNCHANGED kind
        /\ answer' = Raise(ToSet(replica[r].batch))
    BY DEF BatchRaises
  <1> HIDE DEF x
  <1> QED BY <1>3, <1>4, <1>5, RaiseProperties, WorkIInv

LEMMA SubmitIInv ==
    ASSUME IInv, NEW q \in Requests, NEW r \in Replicas, Submit(q, r)
    PROVE  IInv'
  <1> DEFINE x == [replica[r] EXCEPT !.queue = Append(replica[r].queue, q)]
  <1>1. /\ replica[r] \in Replica
        /\ replica[r].queue \in Seq(Requests) /\ replica[r].batch \in Seq(Requests)
    BY DEF IInv, Replica
  <1>2. /\ Append(replica[r].queue, q) \in Seq(Requests)
        /\ ToSet(Append(replica[r].queue, q)) = ToSet(replica[r].queue) \cup {q}
        /\ Len(Append(replica[r].queue, q)) = Len(replica[r].queue) + 1
        /\ \A i \in 1 .. Len(replica[r].queue) :
              Append(replica[r].queue, q)[i] = replica[r].queue[i]
        /\ Append(replica[r].queue, q)[Len(replica[r].queue) + 1] = q
    BY <1>1, AppendToSet, AppendProperties
  <1>3. /\ x \in Replica
        /\ x.queue = Append(replica[r].queue, q)
        /\ x.batch = replica[r].batch /\ x.results = replica[r].results
        /\ x.next = replica[r].next
    BY <1>1, <1>2 DEF Replica
  <1>4. /\ replica' = [replica EXCEPT ![r] = x]
        /\ answer[q].was = "new" /\ answer' = [answer EXCEPT ![q].was = "waiting"]
        /\ UNCHANGED kind
    BY DEF Submit
  <1> HIDE DEF x
  <1>5. /\ replica' \in [Replicas -> Replica]
        /\ \A s \in Replicas : replica'[s] = IF s = r THEN x ELSE replica[s]
    BY <1>3, <1>4 DEF IInv
  <1>6. HeldBy(x) = HeldBy(replica[r]) \cup {q}
    BY <1>2, <1>3 DEF HeldBy
  <1>7. \A s \in Replicas :
           ProgressOK(replica'[s]) /\ ResultsOK(replica'[s]) /\ QueueOK(replica'[s])
    <2>1. ProgressOK(replica[r]) /\ ResultsOK(replica[r]) /\ QueueOK(replica[r])
      BY DEF IInv
    <2>2. ProgressOK(x)
      BY <1>3, <2>1 DEF ProgressOK
    <2>3. ResultsOK(x)
      BY <1>3, <2>1 DEF ResultsOK
    <2>4. QueueOK(x)
      <3>1. q \notin HeldBy(replica[r])
        BY <1>4 DEF IInv, HeldOnce
      <3>2. Len(replica[r].queue) \in Nat
        BY <1>1, LenProperties
      <3>3. \A i \in 1 .. Len(replica[r].queue) : replica[r].queue[i] # q
        BY <1>1, <3>1, ToSetProperties DEF HeldBy
      <3>4. ToSet(x.queue) \cap ToSet(x.batch) = {}
        BY <1>2, <1>3, <2>1, <3>1 DEF QueueOK, HeldBy
      <3>5. ASSUME NEW i \in 1 .. Len(x.queue), NEW j \in 1 .. Len(x.queue),
                   x.queue[i] = x.queue[j]
            PROVE  i = j
        <4>1. \A k \in 1 .. Len(x.queue) :
                 \/ k \in 1 .. Len(replica[r].queue) /\ x.queue[k] = replica[r].queue[k]
                 \/ k = Len(replica[r].queue) + 1 /\ x.queue[k] = q
          BY <1>2, <1>3, <3>2
        <4> QED BY <2>1, <3>3, <3>5, <4>1 DEF QueueOK
      <3> QED BY <3>4, <3>5 DEF QueueOK
    <2> QED BY <1>5, <2>2, <2>3, <2>4 DEF IInv
  <1>8. \A s \in Replicas : ProgressOK(replica[s])' /\ ResultsOK(replica[s])' /\ QueueOK(replica[s])'
    <2>1. \A s \in Replicas : ProgressOK(replica[s])'
      BY <1>7 DEF ProgressOK
    <2>2. \A s \in Replicas : ResultsOK(replica[s])'
      BY <1>4, <1>7 DEF ResultsOK
    <2>3. \A s \in Replicas : QueueOK(replica[s])'
      BY <1>7 DEF QueueOK
    <2> QED BY <2>1, <2>2, <2>3
  <1>9. /\ answer' \in [Requests -> Answer]
        /\ answer'[q].was = "waiting"
        /\ \A p \in Requests \ {q} : answer'[p] = answer[p]
    <2>1. answer[q] \in Answer /\ [answer[q] EXCEPT !.was = "waiting"] \in Answer
           /\ [answer[q] EXCEPT !.was = "waiting"].was = "waiting"
      BY <1>4 DEF IInv, Answer
    <2> QED BY <1>4, <2>1 DEF IInv
  <1>10. \A s \in Replicas :
            /\ HeldBy(replica[s]) \subseteq Requests \ {q}
            /\ HeldBy(replica'[s]) = IF s = r THEN HeldBy(replica[s]) \cup {q}
                                             ELSE HeldBy(replica[s])
    <2>1. \A s \in Replicas : HeldBy(replica[s]) \subseteq Requests
      BY HeldRequests DEF IInv
    <2>2. \A s \in Replicas : q \notin HeldBy(replica[s])
      BY <1>4 DEF IInv, HeldOnce
    <2> QED BY <1>5, <1>6, <2>1, <2>2
  <1>11. HeldOnce'
    <2>1. /\ \A s \in Replicas : \A p \in HeldBy(replica'[s]) : answer'[p].was = "waiting"
          /\ \A s, t \in Replicas : \A p \in HeldBy(replica'[s]) \cap HeldBy(replica'[t]) : s = t
      <3>1. \A s \in Replicas : \A p \in HeldBy(replica'[s]) :
               p \in Requests /\ ((p = q /\ s = r) \/ (p # q /\ p \in HeldBy(replica[s])))
        <4> SUFFICES ASSUME NEW s \in Replicas, NEW p \in HeldBy(replica'[s])
                     PROVE  p \in Requests
                            /\ ((p = q /\ s = r) \/ (p # q /\ p \in HeldBy(replica[s])))
          OBVIOUS
        <4>1. CASE s = r
          BY <1>10, <4>1
        <4>2. CASE s # r
          <5>1. HeldBy(replica'[s]) = HeldBy(replica[s])
            BY <1>10, <4>2
          <5> QED BY <1>10, <5>1
        <4> QED BY <4>1, <4>2
      <3>2. HeldOnce
        BY DEF IInv
      <3>3. ASSUME NEW s \in Replicas, NEW p \in HeldBy(replica'[s])
            PROVE  answer'[p].was = "waiting"
        BY <1>9, <3>1, <3>2 DEF HeldOnce
      <3>4. ASSUME NEW s \in Replicas, NEW t \in Replicas,
                   NEW p \in HeldBy(replica'[s]) \cap HeldBy(replica'[t])
            PROVE  s = t
        <4>1. CASE p = q
          BY <3>1, <4>1
        <4>2. CASE p # q
          BY <3>1, <3>2, <4>2 DEF HeldOnce
        <4> QED BY <4>1, <4>2
      <3> QED BY <3>3, <3>4
    <2> QED BY <2>1 DEF HeldOnce, HeldBy
  <1>12. OwnResult'
    BY <1>4, <1>9 DEF IInv, OwnResult
  <1> QED BY <1>4, <1>5, <1>8, <1>9, <1>11, <1>12 DEF IInv

LEMMA GatherIInv ==
    ASSUME IInv, NEW r \in Replicas, Gather(r)
    PROVE  IInv'
  <1> DEFINE queue == replica[r].queue
             n == IF Len(queue) < MaxBatch THEN Len(queue) ELSE MaxBatch
             batch == SubSeq(queue, 1, n)
             rest == SubSeq(queue, n + 1, Len(queue))
             x == [replica[r] EXCEPT !.batch = batch, !.queue = rest]
  <1>1. /\ replica[r] \in Replica /\ queue \in Seq(Requests)
        /\ replica[r].batch = <<>> /\ Len(queue) \in Nat /\ MaxBatch \in Nat
    BY LlmConstants, LenProperties DEF IInv, Replica, Gather
  <1>2. n \in 0 .. Len(queue) /\ n <= MaxBatch /\ n + 1 \in Nat \ {0}
    BY <1>1
  <1>3. /\ replica' = [replica EXCEPT ![r] = x]
        /\ UNCHANGED <<kind, answer>>
    BY DEF Gather
  <1> HIDE DEF n
  <1>4. /\ batch \in Seq(Requests) /\ Len(batch) <= MaxBatch
        /\ ToSet(batch) \subseteq ToSet(queue)
    BY <1>1, <1>2, SubSeqToSet
  <1>5. rest \in Seq(Requests) /\ ToSet(rest) \subseteq ToSet(queue)
    <2>1. Len(queue) \in 0 .. Len(queue)
      BY <1>1
    <2> QED BY <1>1, <1>2, <2>1, SubSeqToSet
  <1>12. /\ ToSet(rest) \cap ToSet(batch) = {}
         /\ \A i, j \in 1 .. Len(rest) : rest[i] = rest[j] => i = j
    <2>1. \A i, j \in 1 .. Len(queue) : queue[i] = queue[j] => i = j
      BY DEF IInv, QueueOK
    <2> QED BY <1>1, <1>2, <2>1, SplitSeq
  <1> HIDE DEF batch, rest
  <1>6. /\ x \in Replica /\ x.batch = batch /\ x.queue = rest
        /\ x.results = replica[r].results /\ x.next = replica[r].next
    BY <1>1, <1>4, <1>5 DEF Replica
  <1>7. ProgressOK(replica[r])
    BY DEF IInv
  <1>8. x.next = 0 /\ x.results = <<>>
    BY <1>1, <1>6, <1>7 DEF ProgressOK
  <1> HIDE DEF x
  <1>9. ProgressOK(x) /\ ResultsOK(x) /\ QueueOK(x)
    BY <1>4, <1>6, <1>8, <1>12 DEF ProgressOK, ResultsOK, QueueOK
  <1>10. HeldBy(x) \subseteq HeldBy(replica[r])
    BY <1>4, <1>5, <1>6 DEF HeldBy
  <1>11. answer' \in [Requests -> Answer] /\ OwnResult'
    BY <1>3 DEF IInv, OwnResult
  <1> QED BY <1>3, <1>6, <1>9, <1>10, <1>11, WorkIInv

LEMMA LoadModelIInv ==
    ASSUME IInv, NEW r \in Replicas, LoadModel(r)
    PROVE  IInv'
  <1> DEFINE x == [replica[r] EXCEPT !.loaded = TRUE, !.next = 1]
  <1>1. /\ replica[r] \in Replica /\ ProgressOK(replica[r]) /\ ResultsOK(replica[r])
        /\ replica[r].batch # <<>> /\ replica[r].next = 0
        /\ replica[r].batch \in Seq(Requests)
    BY DEF IInv, LoadModel, Replica
  <1>2. /\ x \in Replica /\ x.batch = replica[r].batch /\ x.queue = replica[r].queue
        /\ x.results = replica[r].results /\ x.next = 1
    BY <1>1 DEF Replica
  <1>3. Len(x.batch) \in Nat \ {0}
    BY <1>1, <1>2, EmptySeq
  <1>4. /\ replica' = [replica EXCEPT ![r] = x]
        /\ UNCHANGED <<kind, answer>>
    BY DEF LoadModel
  <1> HIDE DEF x
  <1>5. ProgressOK(x)
    BY <1>1, <1>2, <1>3 DEF ProgressOK
  <1>6. ResultsOK(x) /\ HeldBy(x) \subseteq HeldBy(replica[r])
    BY <1>1, <1>2 DEF ResultsOK, HeldBy
  <1>8. QueueOK(x)
    BY <1>2 DEF QueueOK, IInv
  <1>7. answer' \in [Requests -> Answer] /\ OwnResult'
    BY <1>4 DEF IInv, OwnResult
  <1> QED BY <1>2, <1>4, <1>5, <1>6, <1>7, <1>8, WorkIInv

LEMMA AppendResultIInv ==
    ASSUME IInv, NEW r \in Replicas, NEW success \in BOOLEAN, Serving(r),
           success => kind[Current(r)] = "chat", kind[Current(r)] # "malformed",
           AppendResult(r, success), UNCHANGED <<kind, answer>>
    PROVE  IInv'
  <1> DEFINE result == [success |-> success, of |-> Current(r)]
             results == Append(replica[r].results, result)
             x == [replica[r] EXCEPT !.next = replica[r].next + 1, !.results = results]
  <1>1. /\ replica[r] \in Replica /\ ProgressOK(replica[r]) /\ ResultsOK(replica[r])
        /\ replica[r].batch \in Seq(Requests) /\ replica[r].results \in Seq(Result)
        /\ replica[r].next \in Nat
    BY DEF IInv, Replica
  <1>2. Len(replica[r].batch) \in Nat /\ Len(replica[r].results) \in Nat
    BY <1>1, LenProperties
  <1>3. /\ replica[r].next \in 1 .. Len(replica[r].batch)
        /\ Len(replica[r].results) = replica[r].next - 1
    BY <1>1, <1>2 DEF Serving, ProgressOK
  <1>4. result \in Result /\ result.of = Current(r) /\ (result.success => success)
    BY <1>1, <1>3, ElementOfSeq DEF Result, Current
  <1>5. replica' = [replica EXCEPT ![r] = x]
    BY DEF AppendResult
  <1> HIDE DEF result
  <1>6. /\ results \in Seq(Result) /\ Len(results) = replica[r].next
        /\ \A i \in 1 .. Len(replica[r].results) : results[i] = replica[r].results[i]
        /\ results[replica[r].next] = result
        /\ replica[r].next + 1 \in Nat
    BY <1>1, <1>2, <1>3, <1>4, AppendProperties
  <1> HIDE DEF results
  <1>7. /\ x \in Replica /\ x.batch = replica[r].batch /\ x.queue = replica[r].queue
        /\ x.results = results /\ x.next = replica[r].next + 1
    BY <1>1, <1>6 DEF Replica
  <1> HIDE DEF x
  <1>8. ProgressOK(x)
    BY <1>1, <1>2, <1>3, <1>6, <1>7 DEF ProgressOK
  <1>9. ResultsOK(x)
    <2> SUFFICES ASSUME NEW i \in 1 .. Len(x.results)
                 PROVE  /\ i <= Len(x.batch)
                        /\ x.results[i].of = x.batch[i]
                        /\ x.results[i].success => kind[x.batch[i]] = "chat"
                        /\ kind[x.batch[i]] # "malformed"
      BY DEF ResultsOK
    <2>1. CASE i = replica[r].next
      BY <1>3, <1>4, <1>6, <1>7, <2>1 DEF Current
    <2>2. CASE i # replica[r].next
      <3>1. i \in 1 .. Len(replica[r].results) /\ x.results[i] = replica[r].results[i]
        BY <1>2, <1>3, <1>6, <1>7, <2>2
      <3> QED BY <1>1, <1>7, <3>1 DEF ResultsOK
    <2> QED BY <2>1, <2>2
  <1>10. HeldBy(x) \subseteq HeldBy(replica[r]) /\ QueueOK(x)
    BY <1>7 DEF HeldBy, QueueOK, IInv
  <1>11. answer' \in [Requests -> Answer] /\ OwnResult'
    BY DEF IInv, OwnResult
  <1> QED BY <1>5, <1>7, <1>8, <1>9, <1>10, <1>11, WorkIInv

LEMMA ReturnedWas == \A v : [was |-> "returned", result |-> v].was = "returned"
OBVIOUS

\* There are as many results as requests, each of its own request.
LEMMA ReturnIInv ==
    ASSUME IInv, NEW r \in Replicas, Return(r)
    PROVE  IInv'
  <1> DEFINE batch == replica[r].batch
             results == replica[r].results
             at(q) == CHOOSE i \in DOMAIN batch : batch[i] = q
             x == [Idle EXCEPT !.queue = replica[r].queue, !.loaded = replica[r].loaded]
  <1>1. /\ replica[r] \in Replica /\ ProgressOK(replica[r]) /\ ResultsOK(replica[r])
        /\ batch \in Seq(Requests) /\ results \in Seq(Result)
        /\ replica[r].queue \in Seq(Requests) /\ replica[r].loaded \in BOOLEAN
    BY DEF IInv, Replica
  <1>2. Len(batch) \in Nat /\ DOMAIN batch = 1 .. Len(batch)
    BY <1>1, LenProperties
  <1>3. Len(results) = Len(batch)
    BY <1>1, <1>2 DEF Return, ProgressOK
  <1>4. /\ replica' = [replica EXCEPT ![r] = x]
        /\ UNCHANGED kind
        /\ answer' = [q \in Requests |->
              IF q \in ToSet(batch) THEN [was |-> "returned", result |-> results[at(q)]]
                                    ELSE answer[q]]
    BY <1>3 DEF Return
  <1>5. /\ x \in Replica /\ ProgressOK(x) /\ ResultsOK(x) /\ QueueOK(x)
        /\ HeldBy(x) = ToSet(replica[r].queue)
    BY <1>1, IdleOK DEF IInv, QueueOK
  <1>6. HeldBy(x) \subseteq HeldBy(replica[r])
    BY <1>5 DEF HeldBy
  <1> HIDE DEF x
  <1>7. ASSUME NEW q \in ToSet(batch)
        PROVE  /\ results[at(q)] \in Result /\ results[at(q)].of = q
               /\ results[at(q)].success => kind[q] = "chat"
    <2>1. at(q) \in DOMAIN batch /\ batch[at(q)] = q
      BY <1>7 DEF ToSet
    <2> HIDE DEF at
    <2> QED BY <1>1, <1>2, <1>3, <2>1, ElementOfSeq DEF ResultsOK
  <1> HIDE DEF at
  <1>8. \A q \in Requests :
           answer'[q] = IF q \in ToSet(batch) THEN [was |-> "returned", result |-> results[at(q)]]
                                              ELSE answer[q]
    BY <1>4
  <1>9. \A q \in ToSet(batch) : [was |-> "returned", result |-> results[at(q)]] \in Answer
    BY <1>7 DEF Answer
  <1>10. answer' \in [Requests -> Answer]
    BY <1>4, <1>9 DEF IInv
  <1>11. OwnResult'
    BY <1>4, <1>7, <1>8 DEF IInv, OwnResult
  <1>12. \A q \in Requests : answer'[q] # answer[q] =>
            q \in HeldBy(replica[r]) /\ q \notin HeldBy(x)
    BY <1>5, <1>8 DEF HeldBy, IInv, QueueOK
  <1> QED BY <1>4, <1>5, <1>6, <1>10, <1>11, <1>12, WorkIInv

LEMMA CrashIInv ==
    ASSUME IInv, NEW r \in Replicas, Crash(r)
    PROVE  IInv'
  <1>1. /\ ToSet(<<>>) = {} /\ MaxBatch \in Nat
    BY LlmConstants DEF ToSet
  <1>2. HeldBy(Idle) = {}
    BY <1>1, IdleFields DEF HeldBy
  <1>3. Idle \in Replica /\ ProgressOK(Idle) /\ ResultsOK(Idle) /\ QueueOK(Idle)
    BY <1>1, IdleFields DEF ProgressOK, ResultsOK, QueueOK
  <1>4. /\ replica' = [replica EXCEPT ![r] = Idle]
        /\ UNCHANGED kind
        /\ answer' = Raise(ToSet(replica[r].queue \o replica[r].batch))
    BY DEF Crash
  <1>5. ToSet(replica[r].queue \o replica[r].batch) \subseteq HeldBy(replica[r])
    BY ConcatToSet DEF HeldBy, IInv, Replica
  <1> QED BY <1>2, <1>3, <1>4, <1>5, RaiseProperties, WorkIInv

LEMMA NextIInv == IInv /\ [Next]_vars => IInv'
  <1> SUFFICES ASSUME IInv, [Next]_vars PROVE IInv'
    OBVIOUS
  <1>1. ASSUME NEW r \in Replicas, Work(r) PROVE IInv'
    <2>1. CASE ServeChat(r)
      BY <2>1, AppendResultIInv DEF ServeChat
    <2>2. CASE ServeEmpty(r)
      BY <2>2, AppendResultIInv DEF ServeEmpty
    <2>3. CASE ServeMalformed(r)
      BY <2>3, BatchRaisesIInv DEF ServeMalformed
    <2> QED BY <1>1, <2>1, <2>2, <2>3, GatherIInv, LoadModelIInv, ReturnIInv DEF Work
  <1>2. ASSUME NEW r \in Replicas, LoadFails(r) PROVE IInv'
    BY <1>2, BatchRaisesIInv DEF LoadFails
  <1>3. CASE UNCHANGED vars
    <2>1. ASSUME NEW r \in Replicas
          PROVE  ProgressOK(replica[r])' /\ ResultsOK(replica[r])' /\ QueueOK(replica[r])'
      <3>1. ProgressOK(replica[r]) /\ ResultsOK(replica[r]) /\ QueueOK(replica[r])
        BY DEF IInv
      <3>2. ProgressOK(replica[r])'
        BY <1>3, <3>1 DEF vars, ProgressOK
      <3>3. ResultsOK(replica[r])'
        BY <1>3, <3>1 DEF vars, ResultsOK
      <3>4. QueueOK(replica[r])'
        BY <1>3, <3>1 DEF vars, QueueOK
      <3> QED BY <3>2, <3>3, <3>4
    <2>2. HeldOnce' /\ OwnResult'
      BY <1>3 DEF vars, IInv, HeldOnce, HeldBy, OwnResult
    <2> QED BY <1>3, <2>1, <2>2 DEF vars, IInv
  <1> QED BY <1>1, <1>2, <1>3, SubmitIInv, CrashIInv DEF Next

\* The inductive invariant holds in every reachable state.
THEOREM Invariance == Spec => []IInv
  <1> QED BY InitIInv, NextIInv, PTL DEF Spec

----------------------------------------------------------------------------

\* Every variable keeps its type, for any number of requests and replicas and any size of
\* a batch (LLMModel.__call__).
THEOREM TypeCorrect == Spec => []TypeOK
  <1>1. ASSUME IInv PROVE TypeOK
    <2>1. ASSUME NEW r \in Replicas
          PROVE  /\ replica[r].queue \in Seq(Requests) /\ replica[r].loaded \in BOOLEAN
                 /\ replica[r].batch \in Seq(Requests) /\ Len(replica[r].batch) <= MaxBatch
                 /\ replica[r].results \in Seq(Result)
                 /\ replica[r].next \in 0 .. MaxBatch + 1
      <3>1. replica[r] \in Replica /\ ProgressOK(replica[r])
        BY <1>1 DEF IInv
      <3>2. /\ replica[r].batch \in Seq(Requests) /\ replica[r].next \in Nat
            /\ replica[r].queue \in Seq(Requests) /\ replica[r].loaded \in BOOLEAN
            /\ replica[r].results \in Seq(Result)
        BY <3>1 DEF Replica
      <3>3. Len(replica[r].batch) \in Nat /\ MaxBatch \in Nat
        BY <3>2, LenProperties, LlmConstants
      <3>4. Len(replica[r].batch) <= MaxBatch /\ replica[r].next \in 0 .. MaxBatch + 1
        BY <3>1, <3>2, <3>3 DEF ProgressOK
      <3> QED BY <3>2, <3>4
    <2> QED BY <1>1, <2>1 DEF IInv, TypeOK
  <1> QED BY <1>1, Invariance, PTL

\* Each caller is handed the result of its own request (LLMModel.__call__: one entry of
\* results for each request of the batch, in its order).
THEOREM OwnResults == Spec => []OwnResult
  <1>1. IInv => OwnResult
    BY DEF IInv
  <1> QED BY <1>1, Invariance, PTL

\* While its replica lives, a request raises only for a model that cannot be loaded or for
\* a request of its own batch whose messages have no length (LLMModel.__call__).
THEOREM CauseOfRaise == Spec => RaisedHasCause
  <1> DEFINE Cause ==
        \A r \in Replicas : \A q \in ToSet(replica[r].batch) :
          (answer'[q].was = "raised" /\ answer[q].was # "raised") =>
              \/ replica[r].next = 0
              \/ Serving(r) /\ kind[Current(r)] = "malformed"
              \/ replica'[r] = Idle
  <1>1. ASSUME IInv, [Next]_vars PROVE [Cause]_vars
    <2> SUFFICES ASSUME NEW r \in Replicas, NEW q \in ToSet(replica[r].batch),
                        answer'[q].was = "raised", answer[q].was # "raised"
                 PROVE  \/ replica[r].next = 0
                        \/ Serving(r) /\ kind[Current(r)] = "malformed"
                        \/ replica'[r] = Idle
      OBVIOUS
    <2>1. \A s \in Replicas :
             /\ replica[s] \in Replica /\ ToSet(replica[s].batch) \subseteq Requests
             /\ q \in HeldBy(replica[s]) => s = r
      BY <1>1, HeldRequests DEF IInv, HeldOnce, HeldBy
    <2>2. q \in Requests
      BY <2>1
    <2>3. ASSUME NEW s \in Replicas, BatchRaises(s) PROVE s = r
      <3>1. q \in ToSet(replica[s].batch)
        BY <1>1, <2>2, <2>3, RaiseProperties DEF BatchRaises
      <3> QED BY <2>1, <3>1 DEF HeldBy
    <2>4. ASSUME NEW s \in Replicas, Work(s)
          PROVE  Serving(r) /\ kind[Current(r)] = "malformed"
      <3>1. CASE ServeMalformed(s)
        BY <2>3, <3>1 DEF ServeMalformed
      <3>2. ~Return(s)
        <4>1. ASSUME Return(s) PROVE Len(replica[s].results) = Len(replica[s].batch)
          <5>1. ProgressOK(replica[s]) /\ replica[s].batch \in Seq(Requests)
            BY <1>1, <2>1 DEF IInv, Replica
          <5>2. Len(replica[s].batch) \in Nat
            BY <5>1, LenProperties
          <5> QED BY <4>1, <5>1, <5>2 DEF Return, ProgressOK
        <4>2. ASSUME Return(s) PROVE answer'[q].was # "raised"
          <5> DEFINE v(p) == replica[s].results[
                               CHOOSE i \in DOMAIN replica[s].batch : replica[s].batch[i] = p]
          <5>1. answer' = [p \in Requests |->
                             IF p \in ToSet(replica[s].batch)
                             THEN [was |-> "returned", result |-> v(p)] ELSE answer[p]]
            BY <4>1, <4>2 DEF Return
          <5> HIDE DEF v
          <5>2. answer'[q] = IF q \in ToSet(replica[s].batch)
                             THEN [was |-> "returned", result |-> v(q)] ELSE answer[q]
            BY <2>2, <5>1
          <5>3. CASE q \in ToSet(replica[s].batch)
            <6>1. answer'[q] = [was |-> "returned", result |-> v(q)]
              BY <5>2, <5>3, Zenon
            <6> QED BY <6>1, ReturnedWas
          <5>4. CASE q \notin ToSet(replica[s].batch)
            BY <5>2, <5>4
          <5> QED BY <5>3, <5>4
        <4> QED BY <4>2
      <3> QED BY <2>4, <3>1, <3>2
              DEF Work, Gather, LoadModel, ServeChat, ServeEmpty
    <2>5. ASSUME NEW s \in Replicas, LoadFails(s) PROVE replica[r].next = 0
      BY <2>3, <2>5 DEF LoadFails
    <2>6. ASSUME NEW s \in Replicas, Crash(s) PROVE replica'[r] = Idle
      <3>1. /\ replica[s].queue \in Seq(Requests) /\ replica[s].batch \in Seq(Requests)
        BY <2>1 DEF Replica
      <3>2. ToSet(replica[s].queue \o replica[s].batch) \subseteq HeldBy(replica[s])
        BY <3>1, ConcatToSet DEF HeldBy
      <3>3. q \in ToSet(replica[s].queue \o replica[s].batch)
        BY <1>1, <2>2, <2>6, RaiseProperties DEF Crash
      <3>4. s = r
        BY <2>1, <3>2, <3>3
      <3> QED BY <1>1, <2>6, <3>4 DEF Crash, IInv
    <2>7. ASSUME NEW s \in Replicas, NEW p \in Requests, Submit(p, s) PROVE FALSE
      BY <1>1, <2>2, <2>7 DEF Submit, IInv, Answer
    <2>8. CASE UNCHANGED vars
      BY <2>8 DEF vars
    <2> QED BY <1>1, <2>4, <2>5, <2>6, <2>7, <2>8 DEF Next
  <1> QED BY <1>1, Invariance, PTL DEF Spec, RaisedHasCause

----------------------------------------------------------------------------
(* The callers see LlmReplies.                                             *)

shown == <<kind, answer, Batches>>

\* A sequence has no more members than places.
LEMMA FewMembers ==
    ASSUME NEW S, NEW s \in Seq(S)
    PROVE  IsFiniteSet(ToSet(s)) /\ Cardinality(ToSet(s)) <= Len(s)
  <1>1. Len(s) \in Nat /\ s \in [1 .. Len(s) -> S] /\ ToSet(s) = {s[i] : i \in 1 .. Len(s)}
    BY LenProperties, ToSetProperties
  <1>2. s \in [1 .. Len(s) -> ToSet(s)]
    BY <1>1
  <1>3. s \in Surjection(1 .. Len(s), ToSet(s))
    BY <1>1, <1>2 DEF Surjection
  <1>4. ExistsSurjection(1 .. Len(s), ToSet(s))
    BY <1>3 DEF ExistsSurjection
  <1> QED BY <1>1, <1>4, FS_SurjCardinalityBound, FS_NatSurjection

LEMMA SomeMember ==
    ASSUME NEW S, NEW s \in Seq(S), s # <<>>
    PROVE  ToSet(s) # {}
  <1>1. ToSet(s) = {s[i] : i \in 1 .. Len(s)} /\ Len(s) \in Nat /\ Len(s) # 0
    BY ToSetProperties, LenProperties, EmptySeq
  <1>2. 1 \in 1 .. Len(s)
    BY <1>1
  <1>3. s[1] \in ToSet(s)
    BY <1>1, <1>2
  <1> QED BY <1>3

\* What is gathered waits, no request in two batches, and what is queued is in none.
LEMMA HeldWaits ==
    ASSUME IInv, NEW r \in Replicas
    PROVE  /\ ToSet(replica[r].queue) \in SUBSET Replies!Queued
           /\ \A s \in Replicas :
                 ToSet(replica[s].batch) \cap ToSet(replica[r].batch) # {} => s = r
  <1>1. /\ HeldBy(replica[r]) \subseteq Requests
        /\ \A q \in HeldBy(replica[r]) : answer[q].was = "waiting"
        /\ \A s \in Replicas : \A q \in HeldBy(replica[r]) \cap HeldBy(replica[s]) : r = s
        /\ ToSet(replica[r].queue) \cap ToSet(replica[r].batch) = {}
    BY HeldRequests DEF IInv, HeldOnce, QueueOK
  <1>2. ASSUME NEW q \in ToSet(replica[r].queue), NEW s \in Replicas,
               q \in ToSet(replica[s].batch)
        PROVE  FALSE
    BY <1>1, <1>2 DEF HeldBy
  <1>3. \A q \in ToSet(replica[r].queue) : q \notin UNION Batches
    BY <1>2 DEF Batches
  <1>4. ToSet(replica[r].queue) \subseteq Replies!Queued
    BY <1>1, <1>3 DEF Replies!Queued, HeldBy
  <1>5. \A s \in Replicas :
           ToSet(replica[s].batch) \cap ToSet(replica[r].batch) # {} => s = r
    BY <1>1 DEF HeldBy
  <1> QED BY <1>4, <1>5

LEMMA SameBatches ==
    ASSUME \A r \in Replicas : replica'[r].batch = replica[r].batch
    PROVE  UNCHANGED Batches
BY DEF Batches

\* Where a replica without a batch comes to have one, or one with a batch to have none.
LEMMA BatchChange ==
    ASSUME IInv, NEW r \in Replicas, NEW x \in Replica, replica' = [replica EXCEPT ![r] = x]
    PROVE  /\ replica[r].batch = <<>> => Batches' = (Batches \cup {ToSet(x.batch)}) \ {{}}
           /\ x.batch = <<>> => Batches' = Batches \ {ToSet(replica[r].batch)}
  <1> DEFINE B(s) == ToSet(replica[s].batch)
  <1>1. ToSet(<<>>) = {}
    BY DEF ToSet
  <1>2. \A b : b \in Batches <=> b # {} /\ \E s \in Replicas : b = B(s)
    BY DEF Batches
  <1>3. replica'[r] = x /\ \A s \in Replicas \ {r} : replica'[s] = replica[s]
    BY DEF IInv
  <1>4. \A b : b \in Batches' <=> b # {} /\ \E s \in Replicas : b = ToSet(replica'[s].batch)
    BY DEF Batches
  <1>5. \A b : b \in Batches' <=>
              b # {} /\ (b = ToSet(x.batch) \/ \E s \in Replicas \ {r} : b = B(s))
    BY <1>3, <1>4
  <1>6. \A s \in Replicas \ {r} : B(s) # {} => B(s) # B(r)
    BY HeldWaits
  <1> HIDE DEF B
  <1>7. CASE replica[r].batch = <<>>
    <2>1. B(r) = {}
      BY <1>1, <1>7 DEF B
    <2>2. \A b : b \in Batches' <=> b \in (Batches \cup {ToSet(x.batch)}) \ {{}}
      BY <1>2, <1>5, <2>1
    <2>3. Batches' = (Batches \cup {ToSet(x.batch)}) \ {{}}
      BY <2>2
    <2>4. ASSUME x.batch = <<>> PROVE Batches' = Batches \ {B(r)}
      BY <1>1, <2>1, <2>3, <2>4 DEF Batches
    <2> QED BY <2>3, <2>4 DEF B
  <1>8. CASE replica[r].batch # <<>> /\ x.batch = <<>>
    <2>1. \A b : b \in Batches' <=> b \in Batches \ {B(r)}
      BY <1>1, <1>2, <1>5, <1>6, <1>8
    <2>2. Batches' = Batches \ {B(r)}
      BY <2>1
    <2> QED BY <1>8, <2>2 DEF B
  <1> QED BY <1>7, <1>8

\* A batch, or none, and what waits for it raise together.
LEMMA RaiseStep ==
    ASSUME IInv, NEW r \in Replicas, NEW queue \in SUBSET Replies!Queued,
           answer' = Raise(ToSet(replica[r].batch) \cup queue), UNCHANGED kind,
           NEW x \in Replica, replica' = [replica EXCEPT ![r] = x], x.batch = <<>>
    PROVE  Replies!Next
  <1> DEFINE batch == ToSet(replica[r].batch)
  <1>1. batch \in Batches \cup {{}}
    BY DEF Batches
  <1>2. Batches' = Batches \ {batch}
    BY BatchChange
  <1> HIDE DEF batch
  <1>3. Replies!Raise(batch, queue)
    BY <1>2 DEF Raise, Replies!Raise, batch
  <1> QED BY <1>1, <1>3 DEF Replies!Next

LEMMA IdleWith ==
    ASSUME NEW x \in Replica
    PROVE  /\ [Idle EXCEPT !.queue = x.queue, !.loaded = x.loaded] \in Replica
           /\ [Idle EXCEPT !.queue = x.queue, !.loaded = x.loaded].batch = <<>>
BY IdleFields DEF Idle, Replica

LEMMA BatchRaisesStep ==
    ASSUME IInv, NEW r \in Replicas, BatchRaises(r)
    PROVE  Replies!Next
  <1> DEFINE x == [Idle EXCEPT !.queue = replica[r].queue, !.loaded = replica[r].loaded]
  <1>1. x \in Replica /\ x.batch = <<>> /\ replica' = [replica EXCEPT ![r] = x]
    BY IdleWith DEF BatchRaises, IInv
  <1>2. {} \in SUBSET Replies!Queued /\ ToSet(replica[r].batch) \cup {} = ToSet(replica[r].batch)
    OBVIOUS
  <1>3. answer' = Raise(ToSet(replica[r].batch) \cup {}) /\ UNCHANGED kind
    BY <1>2 DEF BatchRaises
  <1> HIDE DEF x
  <1> QED BY <1>1, <1>2, <1>3, RaiseStep

LEMMA CrashStep ==
    ASSUME IInv, NEW r \in Replicas, Crash(r)
    PROVE  Replies!Next
  <1>1. ToSet(replica[r].queue \o replica[r].batch) =
           ToSet(replica[r].batch) \cup ToSet(replica[r].queue)
    BY ConcatToSet DEF IInv, Replica
  <1>2. Idle \in Replica /\ Idle.batch = <<>> /\ replica' = [replica EXCEPT ![r] = Idle]
    BY IdleFields DEF Crash
  <1> QED BY <1>1, <1>2, HeldWaits, RaiseStep DEF Crash

LEMMA SubmitStep ==
    ASSUME IInv, NEW q \in Requests, NEW r \in Replicas, Submit(q, r)
    PROVE  Replies!Next
  <1>1. \A s \in Replicas : replica'[s].batch = replica[s].batch
    BY DEF Submit, IInv, Replica
  <1>2. Replies!Submit(q)
    BY <1>1, SameBatches DEF Submit, Replies!Submit
  <1> QED BY <1>2 DEF Submit, Replies!Next

LEMMA GatherStep ==
    ASSUME IInv, IInv', NEW r \in Replicas, Gather(r)
    PROVE  Replies!Next
  <1> DEFINE batch == ToSet(replica'[r].batch)
  <1>1. /\ replica \in [Replicas -> Replica] /\ replica' \in [Replicas -> Replica]
        /\ replica[r].queue \in Seq(Requests) /\ replica[r].queue # <<>>
        /\ replica[r].batch = <<>> /\ MaxBatch \in Nat \ {0}
        /\ UNCHANGED <<kind, answer>>
    BY LlmConstants DEF IInv, Gather, Replica
  <1>2. /\ replica'[r].batch \in Seq(Requests) /\ Len(replica'[r].batch) <= MaxBatch
        /\ replica' = [replica EXCEPT ![r] = replica'[r]]
    BY <1>1 DEF IInv, ProgressOK, Replica, Gather
  <1>3. PICK n \in 1 .. Len(replica[r].queue) : replica'[r].batch = SubSeq(replica[r].queue, 1, n)
    <2> DEFINE n == IF Len(replica[r].queue) < MaxBatch THEN Len(replica[r].queue) ELSE MaxBatch
    <2>1. Len(replica[r].queue) \in Nat \ {0}
      BY <1>1, EmptySeq, LenProperties
    <2>2. n \in 1 .. Len(replica[r].queue)
      BY <1>1, <2>1
    <2>3. replica'[r].batch = SubSeq(replica[r].queue, 1, n)
      BY <1>1 DEF Gather, Replica
    <2> QED BY <2>2, <2>3
  <1>4. batch \subseteq ToSet(replica[r].queue) /\ Len(replica'[r].batch) = n
    <2>1. n \in 0 .. Len(replica[r].queue) /\ 1 \in Nat \ {0} /\ 1 <= n /\ n - 1 + 1 = n
      BY <1>3
    <2> QED BY <1>1, <1>3, <2>1, SubSeqToSet
  <1>5. batch # {}
    <2>1. replica'[r].batch # <<>>
      BY <1>2, <1>3, <1>4, EmptySeq
    <2> QED BY <1>2, <2>1, SomeMember
  <1>6. Cardinality(batch) <= MaxBatch
    <2>1. Cardinality(batch) <= Len(replica'[r].batch) /\ Len(replica'[r].batch) \in Nat
      BY <1>2, FewMembers, LenProperties
    <2>2. IsFiniteSet(batch)
      BY <1>2, FewMembers
    <2>3. Cardinality(batch) \in Nat
      BY <2>2, FS_CardinalityType
    <2> QED BY <1>1, <1>2, <2>1, <2>3
  <1>7. batch \in SUBSET Replies!Queued
    BY <1>4, HeldWaits
  <1>8. Batches' = Batches \cup {batch}
    <2>1. Batches' = (Batches \cup {batch}) \ {{}}
      BY <1>1, <1>2, BatchChange
    <2> QED BY <1>5, <2>1 DEF Batches
  <1> HIDE DEF batch
  <1>9. Replies!Cardinality(batch) = Cardinality(batch)
    BY DEF Cardinality, Replies!Cardinality
  <1>10. Replies!Gather(batch)
    BY <1>1, <1>5, <1>6, <1>8, <1>9 DEF Replies!Gather
  <1> QED BY <1>1, <1>7, <1>10 DEF Replies!Next

\* Every request of the batch has its own result, and none of them is malformed.
LEMMA ReturnStep ==
    ASSUME IInv, NEW r \in Replicas, Return(r)
    PROVE  Replies!Next
  <1> DEFINE batch == replica[r].batch
             results == replica[r].results
             at(q) == CHOOSE i \in DOMAIN batch : batch[i] = q
             success == [q \in ToSet(batch) |-> results[at(q)].success]
  <1>1. /\ ProgressOK(replica[r]) /\ ResultsOK(replica[r])
        /\ batch \in Seq(Requests) /\ results \in Seq(Result)
    BY DEF IInv, Replica
  <1>2. Len(batch) \in Nat /\ DOMAIN batch = 1 .. Len(batch)
    BY <1>1, LenProperties
  <1>3. Len(results) = Len(batch)
    BY <1>1, <1>2 DEF Return, ProgressOK
  <1>4. /\ UNCHANGED kind
        /\ answer' = [q \in Requests |->
              IF q \in ToSet(batch) THEN [was |-> "returned", result |-> results[at(q)]]
                                    ELSE answer[q]]
    BY <1>3 DEF Return
  <1>5. ASSUME NEW q \in ToSet(batch)
        PROVE  /\ results[at(q)] \in Result /\ results[at(q)].of = q
               /\ results[at(q)].success => kind[q] = "chat"
               /\ kind[q] # "malformed"
    <2>1. at(q) \in DOMAIN batch /\ batch[at(q)] = q
      BY <1>5 DEF ToSet
    <2> HIDE DEF at
    <2> QED BY <1>1, <1>2, <1>3, <2>1, ElementOfSeq DEF ResultsOK
  <1> HIDE DEF at
  <1>6. ASSUME NEW q \in ToSet(batch)
        PROVE  results[at(q)] = [success |-> success[q], of |-> q]
    BY <1>5 DEF Result
  <1>7. success \in [ToSet(batch) -> BOOLEAN]
    BY <1>5 DEF Result
  <1>8. \A q \in ToSet(batch) : kind[q] # "malformed" /\ (success[q] => kind[q] = "chat")
    BY <1>5
  <1> HIDE DEF success
  <1>9. answer' = [q \in Requests |->
              IF q \in ToSet(batch)
              THEN [was |-> "returned", result |-> [success |-> success[q], of |-> q]]
              ELSE answer[q]]
    BY <1>4, <1>6
  <1>10. Batches' = Batches \ {ToSet(batch)} /\ ToSet(batch) \in Batches
    <2> DEFINE x == [Idle EXCEPT !.queue = replica[r].queue, !.loaded = replica[r].loaded]
    <2>1. x \in Replica /\ x.batch = <<>> /\ replica' = [replica EXCEPT ![r] = x]
      BY <1>3, IdleWith DEF Return, IInv
    <2> HIDE DEF x
    <2>2. Batches' = Batches \ {ToSet(batch)}
      BY <2>1, BatchChange
    <2>3. batch # <<>>
      BY DEF Return
    <2>4. ToSet(batch) # {}
      BY <1>1, <2>3, SomeMember
    <2> QED BY <2>2, <2>4 DEF Batches
  <1>11. Replies!Return(ToSet(batch))
    BY <1>7, <1>8, <1>9, <1>10 DEF Replies!Return
  <1> QED BY <1>4, <1>10, <1>11 DEF Replies!Next

\* However requests are batched and whatever fails, their callers see what LlmReplies
\* allows: what a replica serves together is answered together, with results of its own
\* requests or an exception for all, and no answer is lost or given twice
\* (LLMModel.__call__).
THEOREM RepliesImplemented == Spec => ImplementsReplies
  <1>1. Init => Replies!Init
    <2> SUFFICES ASSUME Init PROVE Replies!Init
      OBVIOUS
    <2>1. \A r \in Replicas : ToSet(replica[r].batch) = {}
      BY IdleFields DEF Init, ToSet
    <2>2. Batches = {}
      BY <2>1 DEF Batches
    <2> QED BY <2>2 DEF Init, Replies!Init
  <1>2. ASSUME IInv, [Next]_vars PROVE [Replies!Next]_shown
    <2>0. IInv'
      BY <1>2, NextIInv
    <2>1. ASSUME NEW r \in Replicas, Work(r) PROVE Replies!Next \/ UNCHANGED shown
      <3>1. CASE LoadModel(r) \/ ServeChat(r) \/ ServeEmpty(r)
        <4>1. CASE LoadModel(r)
          <5>1. \A s \in Replicas : replica'[s].batch = replica[s].batch
            BY <1>2, <4>1 DEF LoadModel, IInv, Replica
          <5> QED BY <4>1, <5>1, SameBatches DEF LoadModel, shown
        <4>2. ASSUME NEW success, AppendResult(r, success), UNCHANGED <<kind, answer>>
              PROVE  UNCHANGED shown
          <5>1. \A s \in Replicas : replica'[s].batch = replica[s].batch
            BY <1>2, <4>2 DEF AppendResult, IInv, Replica
          <5> QED BY <4>2, <5>1, SameBatches DEF shown
        <4> QED BY <3>1, <4>1, <4>2 DEF ServeChat, ServeEmpty
      <3>2. CASE Gather(r)
        BY <1>2, <2>0, <3>2, GatherStep
      <3>3. CASE ServeMalformed(r)
        BY <1>2, <3>3, BatchRaisesStep DEF ServeMalformed
      <3>4. CASE Return(r)
        BY <1>2, <3>4, ReturnStep
      <3> QED BY <2>1, <3>1, <3>2, <3>3, <3>4 DEF Work
    <2>2. ASSUME NEW r \in Replicas, LoadFails(r) PROVE Replies!Next
      BY <1>2, <2>2, BatchRaisesStep DEF LoadFails
    <2>3. CASE UNCHANGED vars
      BY <2>3 DEF vars, shown, Batches
    <2> QED BY <1>2, <2>1, <2>2, <2>3, SubmitStep, CrashStep DEF Next
  <1> QED BY <1>1, <1>2, Invariance, PTL DEF Spec, ImplementsReplies, Replies!Spec, shown
=============================================================================
