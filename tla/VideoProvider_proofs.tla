------------------------- MODULE VideoProvider_proofs -------------------------
(* Proofs about VideoProvider, for every value of its constants. *)
EXTENDS VideoProvider, FiniteSetTheorems, TLAPS

\* The positions of the deliveries made for a video.
MadeAt(v) == {i \in DOMAIN deliveries : deliveries[i].video = v}

Ended == {"sending", "done"}

\* How far a job is and the status of its video go together.
StatusFits ==
  \A v \in Videos :
    /\ job[v].pc = "none" <=> video[v].status = "none"
    /\ job[v].pc = "queued" => video[v].status = "pending"
    /\ job[v].pc = "rendering" => video[v].status = "processing"
    /\ job[v].pc \in Ended => video[v].status = End(v)

\* Before its video ended a job has called nobody and knows of nobody to call;
\* receivers are left only while it calls.
NobodyBefore ==
  \A v \in Videos :
    /\ job[v].pc \notin Ended => plan[v] = <<>> /\ v \notin raised
    /\ job[v].pc = "sending" <=> job[v].targets # <<>>
    /\ v \in raised => job[v].pc = "done"

\* A delivery tells of a video that has ended, as it ended.
Truthful ==
  \A i \in DOMAIN deliveries :
    LET d == deliveries[i] IN
    job[d.video].pc \in Ended /\ d.event = End(d.video) /\ d.shown = video[d.video]

\* As long as nothing was edited since the video ended, the receivers left to
\* call are registered as they were taken down.
StillRegistered ==
  \A v \in Videos :
    /\ ended[v] <= edits
    /\ ended[v] = edits =>
         \A k \in DOMAIN job[v].targets :
           LET t == job[v].targets[k] IN
           t.to # Callback => \E i \in DOMAIN endpoints :
             endpoints[i].id = t.to /\ endpoints[i].url = t.url /\ endpoints[i].secret = t.secret

IInv ==
  TypeOK /\ StatusFits /\ NobodyBefore /\ Truthful /\ StillRegistered /\ CalledOnceInOrder

-----------------------------------------------------------------------------
(* Positions in order *)

Rank(S, i) == Cardinality({j \in S : j <= i})

\* Ranks are distinct and lie between one and the number of positions.
LEMMA Ranks ==
  ASSUME NEW S \in SUBSET Nat, IsFiniteSet(S), NEW i \in S
  PROVE  /\ Rank(S, i) \in 1..Cardinality(S)
         /\ \A k \in S : i < k => Rank(S, i) < Rank(S, k)
<1> DEFINE Below(x) == {j \in S : j <= x}
<1>1. ASSUME NEW x \in S PROVE IsFiniteSet(Below(x)) /\ Cardinality(Below(x)) \in 1..Cardinality(S)
  <2>1. Below(x) \in SUBSET S /\ x \in Below(x)
    OBVIOUS
  <2>2. IsFiniteSet(Below(x)) /\ Cardinality(Below(x)) <= Cardinality(S)
    BY <2>1, FS_Subset
  <2>3. Cardinality(Below(x)) \in Nat /\ Cardinality(S) \in Nat
    BY <2>2, FS_CardinalityType
  <2>4. Cardinality(Below(x)) # 0
    BY <2>1, <2>2, FS_EmptySet
  <2> QED
    BY <2>2, <2>3, <2>4
<1>2. ASSUME NEW k \in S, i < k PROVE Cardinality(Below(i)) < Cardinality(Below(k))
  <2>0. i \in Nat /\ k \in Nat /\ i < k /\ ~(k <= i) /\ k <= k
    BY <1>2
  <2>a. ASSUME NEW j \in S, j <= i PROVE j <= k
    <3>1. j \in Nat
      OBVIOUS
    <3> QED
      BY <3>1, <2>0, <2>a
  <2>1. Below(i) \in SUBSET Below(k) /\ k \in Below(k) /\ k \notin Below(i)
    BY ONLY <2>0, <2>a, i \in S, k \in S
  <2>2. IsFiniteSet(Below(k)) /\ Cardinality(Below(k)) \in Nat
    BY <1>1
  <2>3. Cardinality(Below(i)) <= Cardinality(Below(k)) /\ Cardinality(Below(i)) # Cardinality(Below(k))
    BY <2>1, <2>2, FS_Subset
  <2>4. Cardinality(Below(i)) \in Nat
    BY <1>1
  <2> QED
    BY <2>2, <2>3, <2>4
<1> QED
  BY <1>1, <1>2 DEF Rank

\* Every rank is taken: InOrder lists members of S.
LEMMA Within ==
  ASSUME NEW S \in SUBSET Nat, IsFiniteSet(S)
  PROVE  /\ Cardinality(S) \in Nat
         /\ InOrder(S) \in Seq(S) /\ Len(InOrder(S)) = Cardinality(S)
         /\ DOMAIN InOrder(S) = 1..Cardinality(S)
<1>1. Cardinality(S) \in Nat
  BY FS_CardinalityType
<1>2. ASSUME NEW n \in 1..Cardinality(S), \A i \in S : Rank(S, i) # n PROVE FALSE
  <2> DEFINE T == (1..Cardinality(S)) \ {n}
             f == [i \in S |-> Rank(S, i)]
  <2>1. IsFiniteSet(1..Cardinality(S)) /\ Cardinality(1..Cardinality(S)) = Cardinality(S)
    BY <1>1, FS_Interval
  <2>2. IsFiniteSet(T) /\ Cardinality(T) = Cardinality(S) - 1
    BY <2>1, FS_RemoveElement, ZenonT(40)
  <2>3. f \in [S -> T]
    BY <1>2, Ranks
  <2>4. Cardinality(T) < Cardinality(S)
    BY <2>2, <1>1
  <2>5. PICK x, y \in S : x # y /\ f[x] = f[y]
    <3> HIDE DEF f, T
    <3> QED
      BY <2>2, <2>3, <2>4, FS_PigeonHole
  <2>6. x < y \/ y < x
    BY <2>5
  <2>7. Rank(S, x) = Rank(S, y) /\ Rank(S, x) \in Nat /\ Rank(S, y) \in Nat
    BY <2>5, Ranks
  <2> QED
    BY <2>6, <2>7, Ranks
<1>3. ASSUME NEW n \in 1..Cardinality(S) PROVE InOrder(S)[n] \in S
  <2>1. \E i \in S : Rank(S, i) = n
    BY <1>2
  <2> QED
    BY <2>1 DEF InOrder, Rank
<1>4. InOrder(S) \in [1..Cardinality(S) -> S]
  BY <1>3 DEF InOrder
<1> QED
  BY <1>1, <1>4

\* A later position comes last.
LEMMA LaterIsLast ==
  ASSUME NEW S \in SUBSET Nat, IsFiniteSet(S), NEW m \in Nat, \A i \in S : i < m
  PROVE  InOrder(S \cup {m}) = Append(InOrder(S), m)
<1> DEFINE U == S \cup {m}
           N == Cardinality(S)
<1>1. N \in Nat /\ IsFiniteSet(U) /\ Cardinality(U) = N + 1
  BY FS_CardinalityType, FS_AddElement
<1>2. ASSUME NEW i \in S PROVE Rank(U, i) = Rank(S, i) /\ Rank(S, i) \in 1..N
  <2>1. {j \in U : j <= i} = {j \in S : j <= i}
    <3>1. i \in Nat /\ i < m /\ ~(m <= i)
      OBVIOUS
    <3>2. \A j : j \in U <=> j \in S \/ j = m
      OBVIOUS
    <3> HIDE DEF U
    <3> QED
      BY <3>1, <3>2
  <2> QED
    BY <2>1, Ranks DEF Rank
<1>3. Rank(U, m) = N + 1
  <2>1. {j \in U : j <= m} = U
    <3>1. \A j \in U : j <= m
      OBVIOUS
    <3> HIDE DEF U
    <3> QED
      BY <3>1
  <2> QED
    BY <2>1, <1>1 DEF Rank
<1>4. ASSUME NEW n \in 1..N PROVE InOrder(U)[n] = InOrder(S)[n]
  <2>0. \A i : i \in U <=> i \in S \/ i = m
    OBVIOUS
  <2>1. ASSUME NEW i PROVE i \in U /\ Rank(U, i) = n <=> i \in S /\ Rank(S, i) = n
    <3>1. CASE i \in S
      BY <3>1, <2>0, <1>2
    <3>2. CASE i = m
      <4>1. m \notin S /\ Rank(U, m) # n
        BY <1>1, <1>3
      <4> QED
        BY <3>2, <4>1
    <3>3. CASE i \notin U
      BY <3>3, <2>0
    <3> QED
      BY <2>0, <3>1, <3>2, <3>3
  <2>2. (CHOOSE i \in U : Rank(U, i) = n) = (CHOOSE i \in S : Rank(S, i) = n)
    <3> HIDE DEF U
    <3> QED
      BY <2>1
  <2>3. InOrder(S)[n] = CHOOSE i \in S : Rank(S, i) = n
    BY DEF InOrder, Rank
  <2>4. n \in 1..Cardinality(U)
    BY <1>1
  <2>5. InOrder(U)[n] = CHOOSE i \in U : Rank(U, i) = n
    <3> HIDE DEF U
    <3> QED
      BY <2>4 DEF InOrder, Rank
  <2> QED
    BY <2>2, <2>3, <2>5
<1>5. InOrder(U)[N + 1] = m
  <2>0. \A i : i \in U <=> i \in S \/ i = m
    OBVIOUS
  <2>1. ASSUME NEW i \in U PROVE Rank(U, i) = N + 1 <=> i = m
    <3>1. CASE i \in S
      <4>1. Rank(U, i) \in 1..N /\ i # m
        BY <3>1, <1>2
      <4> HIDE DEF U, N
      <4> QED
        BY <4>1, <1>1
    <3>2. CASE i = m
      BY <3>2, <1>3
    <3> QED
      BY <3>1, <3>2
  <2>2. InOrder(U)[N + 1] = CHOOSE i \in U : Rank(U, i) = N + 1
    <3>1. N + 1 \in 1..Cardinality(U)
      BY <1>1
    <3> HIDE DEF U, N
    <3> QED
      BY <3>1 DEF InOrder, Rank
  <2>3. m \in U
    OBVIOUS
  <2> QED
    <3> HIDE DEF U, N
    <3> QED
      BY <2>1, <2>2, <2>3
<1>6. InOrder(S) \in Seq(S) /\ Len(InOrder(S)) = N /\ InOrder(U) \in Seq(U) /\ Len(InOrder(U)) = N + 1
  BY Within, <1>1
<1> QED
  <2> DEFINE a == InOrder(U)
             c == InOrder(S)
             b == Append(c, m)
  <2>0. c \in Seq(U) /\ Len(c) = N /\ m \in U
    BY <1>6
  <2>1. b \in Seq(U) /\ Len(b) = N + 1 /\ b[N + 1] = m /\ \A n \in 1..N : b[n] = c[n]
    <3> HIDE DEF c, U, N
    <3> QED
      BY <2>0, <1>1
  <2>2. \A n \in 1..(N + 1) : a[n] = b[n]
    <3>1. \A n \in 1..N : a[n] = c[n]
      BY <1>4
    <3>2. a[N + 1] = m
      BY <1>5
    <3> HIDE DEF a, b, c, N
    <3> QED
      BY <1>1, <2>1, <3>1, <3>2
  <2>3. a \in Seq(U) /\ Len(a) = N + 1
    BY <1>6
  <2>4. a = b
    <3> HIDE DEF a, b, U, N
    <3> QED
      BY <2>1, <2>2, <2>3, <1>1
  <2> QED
    BY <2>4

-----------------------------------------------------------------------------
(* Receivers *)

LEMMA RegisteredTypes ==
  ASSUME TypeOK, NEW i \in DOMAIN endpoints
  PROVE  endpoints[i] \in Endpoint /\ Signed(endpoints[i]) \in Target
<1>1. endpoints[i] \in Endpoint
  BY DEF TypeOK
<1> QED
  BY <1>1 DEF Endpoint, Target, Signed

\* Whom _dispatch_webhooks takes down is registered as it is taken down.
LEMMA TakenDown ==
  ASSUME TypeOK, NEW v \in Videos
  PROVE  /\ Targets(v) \in Seq(Target)
         /\ \A k \in DOMAIN Targets(v) : LET t == Targets(v)[k] IN
              t.to # Callback => \E i \in DOMAIN endpoints :
                endpoints[i].id = t.to /\ endpoints[i].url = t.url /\ endpoints[i].secret = t.secret
<1> DEFINE S == {i \in DOMAIN endpoints : Matches(endpoints[i], v)}
           at == InOrder(S)
           first == IF video[v].callback THEN <<[to |-> Callback, url |-> 0, secret |-> 0]>> ELSE <<>>
           calls == [n \in DOMAIN at |-> Signed(endpoints[at[n]])]
<1>1. S \in SUBSET Nat /\ IsFiniteSet(S) /\ S \subseteq DOMAIN endpoints
  <2>1. endpoints \in Seq(Endpoint) /\ DOMAIN endpoints = 1..Len(endpoints) /\ Len(endpoints) \in Nat
    BY DEF TypeOK
  <2>2. IsFiniteSet(DOMAIN endpoints)
    BY <2>1, FS_Interval
  <2> QED
    BY <2>1, <2>2, FS_Subset
<1>2. at \in Seq(S) /\ DOMAIN at = 1..Len(at) /\ Len(at) \in Nat
  <2> HIDE DEF S
  <2> QED
    BY <1>1, Within
<1>3. \A n \in DOMAIN at : at[n] \in DOMAIN endpoints /\ calls[n] = Signed(endpoints[at[n]])
  <2>1. \A n \in DOMAIN at : at[n] \in S
    <3> HIDE DEF S, at
    <3> QED
      BY <1>2
  <2>2. \A n \in DOMAIN at : at[n] \in DOMAIN endpoints
    BY ONLY <2>1, <1>1
  <2>3. \A n \in DOMAIN at : calls[n] = Signed(endpoints[at[n]])
    <3> HIDE DEF at
    <3> QED
      OBVIOUS
  <2> QED
    BY <2>2, <2>3
<1>4. calls \in Seq(Target) /\ Len(calls) = Len(at)
  <2>1. calls \in [1..Len(at) -> Target]
    <3> HIDE DEF S, at
    <3> QED
      BY <1>2, <1>3, RegisteredTypes
  <2> HIDE DEF calls, at
  <2> QED
    BY <2>1, <1>2
<1>5. first \in Seq(Target) /\ \A k \in DOMAIN first : first[k].to = Callback
  <2> DEFINE own == [to |-> Callback, url |-> 0, secret |-> 0]
  <2>1. own \in Target /\ own.to = Callback
    BY DEF Target
  <2>2. first = <<own>> \/ first = <<>>
    OBVIOUS
  <2> HIDE DEF own, first
  <2>3. CASE first = <<own>>
    <3>1. <<own>> \in Seq(Target) /\ DOMAIN <<own>> = {1} /\ <<own>>[1] = own
      BY <2>1
    <3> QED
      BY <2>1, <2>3, <3>1
  <2>4. CASE first = <<>>
    BY <2>4
  <2> QED
    BY <2>2, <2>3, <2>4
<1>6. Targets(v) = first \o calls
  BY DEF Targets
<1>7. ASSUME NEW k \in DOMAIN (first \o calls), (first \o calls)[k].to # Callback
      PROVE  \E i \in DOMAIN endpoints : (first \o calls)[k] = Signed(endpoints[i])
  <2>1. k \in 1..(Len(first) + Len(calls))
    <3> HIDE DEF first, calls
    <3> QED
      BY <1>4, <1>5
  <2>2. k \notin 1..Len(first)
    <3> HIDE DEF first, calls
    <3> QED
      BY <1>4, <1>5, <1>7
  <2>3. k - Len(first) \in 1..Len(calls) /\ (first \o calls)[k] = calls[k - Len(first)]
    <3> HIDE DEF first, calls
    <3> QED
      BY <1>4, <1>5, <2>1, <2>2
  <2> HIDE DEF first, calls, at
  <2> QED
    BY <2>3, <1>2, <1>3, <1>4
<1>8. first \o calls \in Seq(Target)
  <2> HIDE DEF first, calls
  <2> QED
    BY <1>4, <1>5
<1>9. ASSUME NEW k \in DOMAIN Targets(v), Targets(v)[k].to # Callback
      PROVE  \E i \in DOMAIN endpoints :
               /\ endpoints[i].id = Targets(v)[k].to /\ endpoints[i].url = Targets(v)[k].url
               /\ endpoints[i].secret = Targets(v)[k].secret
  <2>1. PICK i \in DOMAIN endpoints : Targets(v)[k] = Signed(endpoints[i])
    <3> HIDE DEF first, calls
    <3> QED
      BY <1>6, <1>7, <1>9
  <2> QED
    BY <2>1 DEF Signed
<1> HIDE DEF first, calls
<1> QED
  BY <1>6, <1>8, <1>9

LEMMA CallingType ==
  ASSUME NEW targets \in Seq(Target)
  PROVE  /\ Calling(targets) \in Job /\ Calling(targets).targets = targets
         /\ Calling(targets).pc \in Ended
         /\ Calling(targets).pc = "sending" <=> targets # <<>>
BY DEF Calling, Job, Ended

-----------------------------------------------------------------------------
(* Calls made *)

\* Read backwards, the page of a video's events lists its calls as recorded.
InLogOrder(v) ==
  /\ MadeAt(v) \in SUBSET Nat /\ IsFiniteSet(MadeAt(v))
  /\ MadeAt(v) \subseteq DOMAIN deliveries
  /\ Made(v) = [n \in 1..Cardinality(MadeAt(v)) |-> deliveries[InOrder(MadeAt(v))[n]].target]
  /\ Made(v) \in Seq(Target)

LEMMA MadeInOrder == TypeOK => \A v \in Videos : InLogOrder(v)
<1> SUFFICES ASSUME TypeOK, NEW v \in Videos PROVE InLogOrder(v)
  OBVIOUS
<1> DEFINE S == MadeAt(v)
           N == Cardinality(S)
           mine == InOrder(S)
           L == Len(deliveries)
           page == EventPage(v, L)
<1>1. deliveries \in Seq(Delivery) /\ DOMAIN deliveries = 1..L /\ L \in Nat
  BY DEF TypeOK
<1>2. S \in SUBSET Nat /\ S \subseteq DOMAIN deliveries /\ IsFiniteSet(S) /\ N <= L /\ N \in Nat
  <2>1. IsFiniteSet(1..L) /\ Cardinality(1..L) = L
    BY <1>1, FS_Interval
  <2>2. S \in SUBSET (1..L)
    BY <1>1 DEF MadeAt
  <2>3. IsFiniteSet(S) /\ N <= L
    <3> HIDE DEF S, L
    <3> QED
      BY <2>1, <2>2, FS_Subset
  <2>4. N \in Nat
    BY <2>3, FS_CardinalityType
  <2> QED
    BY <1>1, <2>2, <2>3, <2>4
<1>3. mine \in Seq(S) /\ Len(mine) = N /\ DOMAIN mine = 1..N
  <2> HIDE DEF S
  <2> QED
    BY <1>2, Within
<1>4. page = [n \in 1..N |-> deliveries[Reverse(mine)[n]]]
  <2>1. page = [n \in 1..(IF L < N THEN L ELSE N) |-> deliveries[Reverse(mine)[n]]]
    BY <1>3 DEF EventPage, MadeAt
  <2>2. (IF L < N THEN L ELSE N) = N
    <3> HIDE DEF L, N
    <3> QED
      BY <1>1, <1>2
  <2> QED
    BY <2>1, <2>2
<1>5. \A n \in 1..N : Reverse(mine)[n] = mine[(N - n) + 1]
  <2> HIDE DEF mine, N
  <2> QED
    BY <1>3 DEF Reverse
<1>6. Len(page) = N /\ DOMAIN page = 1..N
  <2> HIDE DEF mine, N
  <2> QED
    BY <1>4, <1>2
<1>7. Reverse(page) = [n \in 1..N |-> page[(N - n) + 1]]
  <2> HIDE DEF page, N
  <2> QED
    BY <1>6 DEF Reverse
<1>8. \A n \in 1..N : page[(N - n) + 1] = deliveries[mine[n]]
  <2> SUFFICES ASSUME NEW n \in 1..N PROVE page[(N - n) + 1] = deliveries[mine[n]]
    OBVIOUS
  <2> DEFINE k == (N - n) + 1
  <2> HIDE DEF page, mine, N
  <2>1. k \in 1..N /\ (N - k) + 1 = n
    BY <1>2
  <2>2. page[k] = deliveries[Reverse(mine)[k]] /\ Reverse(mine)[k] = mine[(N - k) + 1]
    <3> HIDE DEF k
    <3> QED
      BY <2>1, <1>4, <1>5
  <2> QED
    BY <2>1, <2>2
<1>9. Made(v) = [n \in 1..N |-> deliveries[mine[n]].target]
  <2>1. Made(v) = [n \in DOMAIN Reverse(page) |-> Reverse(page)[n].target]
    BY DEF Made
  <2> HIDE DEF page, mine, N
  <2> QED
    BY <2>1, <1>7, <1>8
<1>10. Made(v) \in Seq(Target)
  <2>1. \A n \in 1..N : deliveries[mine[n]] \in Delivery
    <3>1. \A n \in 1..N : mine[n] \in S
      <4> HIDE DEF mine, N, S
      <4> QED
        BY <1>2, <1>3
    <3>2. \A n \in 1..N : mine[n] \in DOMAIN deliveries
      <4> HIDE DEF mine, N, S
      <4> QED
        BY <1>2, <3>1
    <3> HIDE DEF mine, N, L
    <3> QED
      BY <1>1, <3>2
  <2>2. \A n \in 1..N : deliveries[mine[n]].target \in Target
    BY <2>1 DEF Delivery
  <2> HIDE DEF mine, N
  <2> QED
    BY <1>2, <1>9, <2>2
<1> QED
  BY <1>2, <1>9, <1>10 DEF InLogOrder

LEMMA MadeInOrderNext == TypeOK' => (\A v \in Videos : InLogOrder(v))'
BY MadeInOrder, PTL

\* A new delivery is the last call of its video and no call of another one.
LEMMA OneMoreCall ==
  ASSUME TypeOK, NEW v \in Videos, NEW d \in Delivery, d.video = v,
         deliveries' = Append(deliveries, d), TypeOK'
  PROVE  /\ Made(v)' = Append(Made(v), d.target)
         /\ \A w \in Videos \ {v} : Made(w)' = Made(w)
<1> DEFINE L == Len(deliveries)
<1>1. deliveries \in Seq(Delivery) /\ L \in Nat /\ DOMAIN deliveries = 1..L
  BY DEF TypeOK
<1>2. /\ DOMAIN deliveries' = 1..(L + 1) /\ deliveries'[L + 1] = d
      /\ \A i \in 1..L : deliveries'[i] = deliveries[i]
  BY <1>1
<1>3. ASSUME NEW w \in Videos
      PROVE  /\ MadeAt(w) \in SUBSET Nat /\ IsFiniteSet(MadeAt(w)) /\ MadeAt(w) \subseteq 1..L
             /\ Cardinality(MadeAt(w)) \in Nat
             /\ \A n \in 1..Cardinality(MadeAt(w)) : InOrder(MadeAt(w))[n] \in 1..L
             /\ InOrder(MadeAt(w)) \in Seq(Nat)
             /\ Len(InOrder(MadeAt(w))) = Cardinality(MadeAt(w))
  <2>1. MadeAt(w) \in SUBSET Nat /\ IsFiniteSet(MadeAt(w)) /\ MadeAt(w) \subseteq 1..L
    BY MadeInOrder, <1>1 DEF InLogOrder
  <2>2. /\ InOrder(MadeAt(w)) \in Seq(MadeAt(w)) /\ Len(InOrder(MadeAt(w))) = Cardinality(MadeAt(w))
        /\ Cardinality(MadeAt(w)) \in Nat
    BY <2>1, Within
  <2> DEFINE S == MadeAt(w)
             q == InOrder(S)
             N == Cardinality(S)
  <2> HIDE DEF S, q, N, L
  <2>3. \A n \in 1..N : q[n] \in S
    BY <2>2 DEF S, q, N
  <2>4. q \in Seq(Nat)
    BY <2>1, <2>2 DEF S, q, N
  <2>5. \A n \in 1..N : q[n] \in 1..L
    BY <2>1, <2>3 DEF S
  <2> QED
    BY <2>1, <2>2, <2>4, <2>5 DEF S, q, N
<1>4. ASSUME NEW w \in Videos
      PROVE  Made(w)' = [n \in 1..Cardinality(MadeAt(w)') |-> deliveries'[InOrder(MadeAt(w)')[n]].target]
  <2>1. (\A x \in Videos : InLogOrder(x))'
    BY MadeInOrderNext
  <2>2. InLogOrder(w)'
    BY <2>1
  <2> QED
    BY <2>2 DEF InLogOrder, InOrder
<1>5. ASSUME NEW w \in Videos \ {v} PROVE Made(w)' = Made(w)
  <2>1. MadeAt(w)' = MadeAt(w)
    <3>1. \A i : i \in MadeAt(w)' <=> i \in 1..(L + 1) /\ deliveries'[i].video = w
      BY <1>2 DEF MadeAt
    <3>2. \A i : i \in MadeAt(w) <=> i \in 1..L /\ deliveries[i].video = w
      BY <1>1 DEF MadeAt
    <3>3. \A i : i \in MadeAt(w)' <=> i \in MadeAt(w)
      <4> HIDE DEF L
      <4> QED
        BY <3>1, <3>2, <1>1, <1>2
    <3> QED
      BY <3>3
  <2>2. Made(w) = [n \in 1..Cardinality(MadeAt(w)) |-> deliveries[InOrder(MadeAt(w))[n]].target]
    BY MadeInOrder DEF InLogOrder
  <2>3. \A n \in 1..Cardinality(MadeAt(w)) :
          deliveries'[InOrder(MadeAt(w))[n]] = deliveries[InOrder(MadeAt(w))[n]]
    BY <1>2, <1>3
  <2>4. Made(w)' = [n \in 1..Cardinality(MadeAt(w)) |-> deliveries'[InOrder(MadeAt(w))[n]].target]
    BY <1>4, <2>1
  <2> DEFINE q == InOrder(MadeAt(w))
             N == Cardinality(MadeAt(w))
  <2> HIDE DEF q, N
  <2>5. [n \in 1..N |-> deliveries'[q[n]].target] = [n \in 1..N |-> deliveries[q[n]].target]
    BY <2>3 DEF q, N
  <2> QED
    BY <2>2, <2>4, <2>5 DEF q, N
<1>6. Made(v)' = Append(Made(v), d.target)
  <2> DEFINE S == MadeAt(v)
             N == Cardinality(S)
             q == InOrder(S)
  <2>1. MadeAt(v)' = S \cup {L + 1}
    <3>1. \A i : i \in MadeAt(v)' <=> i \in 1..(L + 1) /\ deliveries'[i].video = v
      BY <1>2 DEF MadeAt
    <3>2. \A i : i \in S <=> i \in 1..L /\ deliveries[i].video = v
      BY <1>1 DEF MadeAt
    <3>3. \A i : i \in MadeAt(v)' <=> i \in S \cup {L + 1}
      <4> HIDE DEF L, S
      <4> QED
        BY <3>1, <3>2, <1>1, <1>2
    <3> QED
      BY <3>3
  <2>2. InOrder(S \cup {L + 1}) = Append(q, L + 1)
    <3>1. \A i \in S : i < L + 1
      BY <1>1, <1>3
    <3>2. L + 1 \in Nat
      BY <1>1
    <3> HIDE DEF L
    <3> QED
      BY <1>3, <3>1, <3>2, LaterIsLast
  <2>3. Cardinality(S \cup {L + 1}) = N + 1
    <3>1. L + 1 \notin S
      BY <1>1, <1>3
    <3> HIDE DEF L
    <3> QED
      BY <1>3, <3>1, FS_AddElement
  <2>4. /\ N \in Nat /\ q \in Seq(Nat) /\ Len(q) = N
        /\ \A n \in 1..N : q[n] \in 1..L
    BY <1>3
  <2>5. Made(v)' = [n \in 1..(N + 1) |-> deliveries'[Append(q, L + 1)[n]].target]
    <3>1. Made(v)' =
            [n \in 1..Cardinality(MadeAt(v)') |-> deliveries'[InOrder(MadeAt(v)')[n]].target]
      BY <1>4
    <3>2. Made(v)' = [n \in 1..Cardinality(S \cup {L + 1}) |->
                        deliveries'[InOrder(S \cup {L + 1})[n]].target]
      BY <2>1, <3>1
    <3> QED
      BY <2>2, <2>3, <3>2
  <2>6. Made(v) = [n \in 1..N |-> deliveries[q[n]].target] /\ Made(v) \in Seq(Target)
    BY MadeInOrder DEF InLogOrder
  <2> HIDE DEF S, N, q, L
  <2>7. /\ Append(q, L + 1)[N + 1] = L + 1
        /\ \A n \in 1..N : Append(q, L + 1)[n] = q[n]
    BY <2>4, <1>1
  <2>8. /\ \A n \in 1..N : deliveries'[Append(q, L + 1)[n]].target = deliveries[q[n]].target
        /\ deliveries'[Append(q, L + 1)[N + 1]].target = d.target
    BY <2>4, <2>7, <1>2
  <2>9. Made(v)' = [n \in 1..(N + 1) |-> IF n = N + 1 THEN d.target ELSE Made(v)[n]]
    <3> DEFINE f == [n \in 1..(N + 1) |-> deliveries'[Append(q, L + 1)[n]].target]
               g == [n \in 1..(N + 1) |-> IF n = N + 1 THEN d.target ELSE Made(v)[n]]
    <3>1. ASSUME NEW n \in 1..(N + 1) PROVE f[n] = g[n]
      <4>1. CASE n = N + 1
        BY <4>1, <2>8
      <4>2. CASE n # N + 1
        <5>1. n \in 1..N
          BY <4>2, <2>4
        <5>2. Made(v)[n] = deliveries[q[n]].target
          BY <5>1, <2>6
        <5>3. f[n] = deliveries[q[n]].target
          BY <5>1, <2>8
        <5> QED
          BY <4>2, <5>2, <5>3
      <4> QED
        BY <4>1, <4>2
    <3>2. f = g
      BY <3>1
    <3> QED
      BY <2>5, <3>2
  <2>10. Len(Made(v)) = N /\ d.target \in Target
    BY <2>4, <2>6 DEF Delivery
  <2> QED
    BY <2>4, <2>6, <2>9, <2>10
<1> QED
  BY <1>5, <1>6

LEMMA SameCalls ==
  ASSUME UNCHANGED deliveries
  PROVE  \A v \in Videos : Made(v)' = Made(v)
BY DEF Made, EventPage, InOrder

LEMMA MoveOne ==
  ASSUME NEW s \in Seq(Target), NEW t \in Seq(Target), t # <<>>
  PROVE  Append(s, Head(t)) \o Tail(t) = s \o t
OBVIOUS

LEMMA FrontOfCalls ==
  ASSUME NEW s \in Seq(Target), NEW t \in Seq(Target)
  PROVE  s = SubSeq(s \o t, 1, Len(s)) /\ Len(s) \in 0..Len(s \o t)
OBVIOUS

-----------------------------------------------------------------------------
(* The steps *)

LEMMA TypeParts ==
  ASSUME TypeOK, NEW v \in Videos
  PROVE  /\ DOMAIN job = Videos /\ DOMAIN video = Videos
         /\ DOMAIN plan = Videos /\ DOMAIN ended = Videos
         /\ job[v] \in Job /\ video[v] \in Video /\ plan[v] \in Seq(Target)
         /\ job[v].targets \in Seq(Target) /\ ended[v] \in Nat /\ edits \in Nat
         /\ End(v) \in EventType
<1>1. job[v] \in Job
  BY DEF TypeOK
<1> QED
  BY <1>1 DEF TypeOK, Job, End, EventType

\* A job whose video has not ended has called nobody.
LEMMA NoCallsYet ==
  ASSUME IInv, NEW v \in Videos, job[v].pc \notin Ended
  PROVE  /\ v \notin raised /\ plan[v] = <<>> /\ job[v].targets = <<>> /\ Made(v) = <<>>
         /\ \A i \in DOMAIN deliveries : deliveries[i].video # v
<1>1. v \notin raised /\ plan[v] = <<>> /\ job[v].targets = <<>>
  BY DEF IInv, NobodyBefore, Ended
<1>2. Made(v) \o job[v].targets = plan[v] /\ Made(v) \in Seq(Target)
  BY <1>1, MadeInOrder DEF IInv, CalledOnceInOrder, InLogOrder
<1>3. Made(v) = <<>>
  BY <1>1, <1>2
<1>4. \A i \in DOMAIN deliveries : deliveries[i].video # v
  BY DEF IInv, Truthful
<1> QED
  BY <1>1, <1>3, <1>4

LEMMA DeliveryOfVideo ==
  ASSUME TypeOK, NEW i \in DOMAIN deliveries
  PROVE  deliveries[i] \in Delivery /\ deliveries[i].video \in Videos
<1>1. deliveries[i] \in Delivery
  BY DEF TypeOK
<1> QED
  BY <1>1 DEF Delivery

\* CreateVideo and Advance.
LEMMA Progress ==
  ASSUME IInv, NEW v \in Videos, job[v].pc \notin Ended,
         NEW pc, NEW nv \in Video,
         \/ pc = "queued" /\ nv.status = "pending"
         \/ pc = "rendering" /\ nv.status = "processing",
         job' = [job EXCEPT ![v].pc = pc], video' = [video EXCEPT ![v] = nv],
         UNCHANGED <<endpoints, deliveries, assets, edits, plan, ended, raised>>
  PROVE  IInv'
<1> DEFINE nj == [job[v] EXCEPT !.pc = pc]
<1>1. TypeOK /\ DOMAIN job = Videos /\ DOMAIN video = Videos /\ job[v] \in Job
  BY TypeParts DEF IInv
<1>2. nj \in Job /\ nj.pc = pc /\ nj.targets = job[v].targets
  BY <1>1 DEF Job
<1>3. /\ job'[v] = nj /\ video'[v] = nv
      /\ \A w \in Videos \ {v} : job'[w] = job[w] /\ video'[w] = video[w]
  BY <1>1
<1>4. pc \in {"queued", "rendering"} /\ pc \notin Ended
  BY DEF Ended
<1>5. job[v].targets = <<>> /\ v \notin raised /\ plan[v] = <<>>
      /\ \A i \in DOMAIN deliveries : deliveries[i].video # v
  BY NoCallsYet
<1> HIDE DEF nj
<1>6. TypeOK'
  <2>1. job' \in [Videos -> Job] /\ video' \in [Videos -> Video]
    BY <1>1, <1>2 DEF TypeOK, nj
  <2> QED
    BY <1>1, <2>1 DEF TypeOK
<1>7. StatusFits'
  <2> SUFFICES ASSUME NEW w \in Videos
               PROVE  /\ job'[w].pc = "none" <=> video'[w].status = "none"
                      /\ job'[w].pc = "queued" => video'[w].status = "pending"
                      /\ job'[w].pc = "rendering" => video'[w].status = "processing"
                      /\ job'[w].pc \in Ended => video'[w].status = End(w)'
    BY DEF StatusFits
  <2>1. CASE w = v
    BY <2>1, <1>2, <1>3, <1>4
  <2>2. CASE w # v
    BY <2>2, <1>3 DEF IInv, StatusFits, End
  <2> QED
    BY <2>1, <2>2
<1>8. NobodyBefore'
  <2> SUFFICES ASSUME NEW w \in Videos
               PROVE  /\ job'[w].pc \notin Ended => plan[w] = <<>> /\ w \notin raised
                      /\ job'[w].pc = "sending" <=> job'[w].targets # <<>>
                      /\ w \in raised => job'[w].pc = "done"
    BY DEF NobodyBefore
  <2>1. CASE w = v
    BY <2>1, <1>2, <1>3, <1>4, <1>5
  <2>2. CASE w # v
    BY <2>2, <1>3 DEF IInv, NobodyBefore
  <2> QED
    BY <2>1, <2>2
<1>9. Truthful'
  BY <1>1, <1>3, <1>5, DeliveryOfVideo DEF IInv, Truthful, End
<1>10. StillRegistered'
  <2>1. \A w \in Videos : job'[w].targets = job[w].targets
    BY <1>2, <1>3
  <2> QED
    BY <2>1 DEF IInv, StillRegistered
<1>11. CalledOnceInOrder'
  <2>1. \A w \in Videos : job'[w].targets = job[w].targets
    BY <1>2, <1>3
  <2> QED
    BY <2>1, SameCalls DEF IInv, CalledOnceInOrder
<1> QED
  BY <1>6, <1>7, <1>8, <1>9, <1>10, <1>11 DEF IInv

LEMMA CreateStep ==
  ASSUME IInv, NEW v \in Videos, CreateVideo(v)
  PROVE  IInv'
<1>1. PICK g \in Generation : video' = [video EXCEPT ![v] = Pending(g)]
  BY DEF CreateVideo
<1>2. Pending(g) \in Video /\ Pending(g).status = "pending"
  BY DEF Pending, Generation, Video
<1>3. job[v].pc \notin Ended
  BY DEF CreateVideo, IInv, StatusFits, Ended
<1> QED
  BY <1>1, <1>2, <1>3, Progress DEF CreateVideo

LEMMA AdvanceStep ==
  ASSUME IInv, NEW v \in Videos, Advance(v)
  PROVE  IInv'
<1> DEFINE nv == [video[v] EXCEPT !.status = "processing"]
<1>1. DOMAIN video = Videos /\ video[v] \in Video
  BY TypeParts DEF IInv
<1>2. nv \in Video /\ nv.status = "processing"
  BY <1>1 DEF Video
<1>3. video' = [video EXCEPT ![v] = nv]
  BY <1>1 DEF Advance, WithStatus
<1>4. job[v].pc \notin Ended
  BY DEF Advance, Ended
<1> HIDE DEF nv
<1> QED
  BY <1>2, <1>3, <1>4, Progress DEF Advance

\* The job of v goes on calling, or has just begun to.
LEMMA JobGoesOn ==
  ASSUME TypeOK, NEW v \in Videos, NEW targets \in Seq(Target),
         job' = [job EXCEPT ![v] = Calling(targets)]
  PROVE  /\ job' \in [Videos -> Job]
         /\ job'[v].pc \in Ended /\ job'[v].targets = targets
         /\ job'[v].pc = "sending" <=> targets # <<>>
         /\ \A w \in Videos \ {v} : job'[w] = job[w]
<1>1. DOMAIN job = Videos /\ job \in [Videos -> Job]
  BY DEF TypeOK
<1>2. Calling(targets) \in Job
  BY CallingType
<1>3. job'[v] = Calling(targets) /\ \A w \in Videos \ {v} : job'[w] = job[w]
  BY <1>1
<1>4. job' \in [Videos -> Job]
  BY <1>1, <1>2
<1> QED
  BY <1>3, <1>4, CallingType

LEMMA FinishStep ==
  ASSUME IInv, NEW v \in Videos, Finish(v)
  PROVE  IInv'
<1> DEFINE nv == [video[v] EXCEPT !.status = End(v)]
           T == Targets(v)
<1>1. /\ TypeOK /\ DOMAIN video = Videos /\ video[v] \in Video /\ End(v) \in EventType
      /\ DOMAIN plan = Videos /\ DOMAIN ended = Videos /\ edits \in Nat
  BY TypeParts DEF IInv
<1>2. nv \in Video /\ nv.status = End(v) /\ nv.outcome = video[v].outcome
  BY <1>1 DEF Video, EventType
<1>3. video'[v] = nv /\ \A w \in Videos \ {v} : video'[w] = video[w]
  BY <1>1 DEF Finish, WithStatus
<1>4. \A w \in Videos : End(w)' = End(w)
  BY <1>2, <1>3 DEF End
<1>5. T \in Seq(Target)
  BY <1>1, TakenDown
<1>6. /\ job' \in [Videos -> Job] /\ job'[v].pc \in Ended /\ job'[v].targets = T
      /\ job'[v].pc = "sending" <=> T # <<>>
      /\ \A w \in Videos \ {v} : job'[w] = job[w]
  <2> HIDE DEF T
  <2>1. job' = [job EXCEPT ![v] = Calling(T)]
    BY DEF Finish, T
  <2> QED
    BY <1>1, <1>5, <2>1, JobGoesOn
<1>7. /\ plan' = [plan EXCEPT ![v] = T] /\ ended' = [ended EXCEPT ![v] = edits]
      /\ plan'[v] = T /\ \A w \in Videos \ {v} : plan'[w] = plan[w]
      /\ ended'[v] = edits /\ \A w \in Videos \ {v} : ended'[w] = ended[w]
      /\ UNCHANGED <<endpoints, deliveries, assets, edits, raised>>
  BY <1>1 DEF Finish
<1>8. /\ v \notin raised /\ Made(v) = <<>> /\ \A i \in DOMAIN deliveries : deliveries[i].video # v
  <2>1. job[v].pc \notin Ended
    BY DEF Finish, Ended
  <2> QED
    BY <2>1, NoCallsYet
<1>9. \A k \in DOMAIN T :
        T[k].to # Callback => \E i \in DOMAIN endpoints :
          endpoints[i].id = T[k].to /\ endpoints[i].url = T[k].url /\ endpoints[i].secret = T[k].secret
  BY <1>1, TakenDown
<1>a. video' = [video EXCEPT ![v] = nv]
  BY <1>1 DEF Finish, WithStatus
<1> HIDE DEF nv, T
<1>10. TypeOK'
  <2>1. video' \in [Videos -> Video] /\ plan' \in [Videos -> Seq(Target)] /\ ended' \in [Videos -> Nat]
    BY <1>1, <1>2, <1>5, <1>7, <1>a DEF TypeOK
  <2> QED
    BY <1>1, <1>6, <1>7, <2>1 DEF TypeOK
<1>11. StatusFits'
  <2> SUFFICES ASSUME NEW w \in Videos
               PROVE  /\ job'[w].pc = "none" <=> video'[w].status = "none"
                      /\ job'[w].pc = "queued" => video'[w].status = "pending"
                      /\ job'[w].pc = "rendering" => video'[w].status = "processing"
                      /\ job'[w].pc \in Ended => video'[w].status = End(w)'
    BY DEF StatusFits
  <2>1. CASE w = v
    BY <2>1, <1>1, <1>2, <1>3, <1>4, <1>6 DEF Ended, EventType
  <2>2. CASE w # v
    BY <2>2, <1>3, <1>4, <1>6 DEF IInv, StatusFits
  <2> QED
    BY <2>1, <2>2
<1>12. NobodyBefore'
  <2> SUFFICES ASSUME NEW w \in Videos
               PROVE  /\ job'[w].pc \notin Ended => plan'[w] = <<>> /\ w \notin raised'
                      /\ job'[w].pc = "sending" <=> job'[w].targets # <<>>
                      /\ w \in raised' => job'[w].pc = "done"
    BY DEF NobodyBefore
  <2>1. CASE w = v
    BY <2>1, <1>6, <1>7, <1>8
  <2>2. CASE w # v
    BY <2>2, <1>6, <1>7 DEF IInv, NobodyBefore
  <2> QED
    BY <2>1, <2>2
<1>13. Truthful'
  BY <1>1, <1>3, <1>4, <1>6, <1>7, <1>8, DeliveryOfVideo DEF IInv, Truthful
<1>14. StillRegistered'
  <2> SUFFICES ASSUME NEW w \in Videos
               PROVE  /\ ended'[w] <= edits'
                      /\ ended'[w] = edits' =>
                           \A k \in DOMAIN job'[w].targets :
                             LET t == job'[w].targets[k] IN
                             t.to # Callback => \E i \in DOMAIN endpoints' :
                               /\ endpoints'[i].id = t.to /\ endpoints'[i].url = t.url
                               /\ endpoints'[i].secret = t.secret
    BY DEF StillRegistered
  <2>1. CASE w = v
    BY <2>1, <1>1, <1>6, <1>7, <1>9
  <2>2. CASE w # v
    BY <2>2, <1>6, <1>7 DEF IInv, StillRegistered
  <2> QED
    BY <2>1, <2>2
<1>15. CalledOnceInOrder'
  <2>1. Made(v)' = <<>> /\ <<>> \o T = T
    BY <1>5, <1>7, <1>8, SameCalls
  <2> SUFFICES ASSUME NEW w \in Videos
               PROVE  IF w \in raised'
                      THEN \E n \in 0..Len(plan'[w]) : Made(w)' = SubSeq(plan'[w], 1, n)
                      ELSE Made(w)' \o job'[w].targets = plan'[w]
    BY DEF CalledOnceInOrder
  <2>2. CASE w = v
    BY <2>1, <2>2, <1>6, <1>7, <1>8
  <2>3. CASE w # v
    BY <2>3, <1>6, <1>7, SameCalls DEF IInv, CalledOnceInOrder
  <2> QED
    BY <2>2, <2>3
<1> QED
  BY <1>10, <1>11, <1>12, <1>13, <1>14, <1>15 DEF IInv

\* While a job calls, its video stays as it ended.
LEMMA CallingFits ==
  ASSUME IInv, NEW v \in Videos, job[v].pc = "sending", NEW targets \in Seq(Target),
         job' = [job EXCEPT ![v] = Calling(targets)], UNCHANGED video
  PROVE  /\ StatusFits'
         /\ \A w \in Videos : job'[w].pc \in Ended <=> job[w].pc \in Ended
<1>1. /\ job'[v].pc \in Ended /\ job[v].pc \in Ended
      /\ \A w \in Videos \ {v} : job'[w] = job[w]
  BY JobGoesOn DEF IInv, Ended
<1>2. \A w \in Videos : job'[w].pc \in Ended <=> job[w].pc \in Ended
  BY <1>1
<1>3. \A w \in Videos : End(w)' = End(w)
  BY DEF End
<1>4. StatusFits'
  <2> SUFFICES ASSUME NEW w \in Videos
               PROVE  /\ job'[w].pc = "none" <=> video'[w].status = "none"
                      /\ job'[w].pc = "queued" => video'[w].status = "pending"
                      /\ job'[w].pc = "rendering" => video'[w].status = "processing"
                      /\ job'[w].pc \in Ended => video'[w].status = End(w)'
    BY DEF StatusFits
  <2>1. CASE w = v
    <3>1. video[v].status = End(v) /\ End(v) \in EventType
      BY <1>1, TypeParts DEF IInv, StatusFits
    <3> QED
      BY <2>1, <3>1, <1>1, <1>3 DEF Ended, EventType
  <2>2. CASE w # v
    BY <2>2, <1>1, <1>3 DEF IInv, StatusFits
  <2> QED
    BY <2>1, <2>2
<1> QED
  BY <1>2, <1>4

LEMMA DeliverStep ==
  ASSUME IInv, NEW v \in Videos, Deliver(v)
  PROVE  IInv'
<1> DEFINE T == job[v].targets
           d == [video |-> v, event |-> End(v), shown |-> video[v], target |-> Head(T)]
           L == Len(deliveries)
<1>1. /\ TypeOK /\ T \in Seq(Target) /\ End(v) \in EventType /\ video[v] \in Video
      /\ plan[v] \in Seq(Target)
  BY TypeParts DEF IInv
<1>2. T # <<>> /\ v \notin raised
  BY DEF Deliver, IInv, NobodyBefore
<1>3. Tail(T) \in Seq(Target) /\ Head(T) \in Target
      /\ \A k \in DOMAIN Tail(T) : k + 1 \in DOMAIN T /\ Tail(T)[k] = T[k + 1]
  <2> HIDE DEF T
  <2> QED
    BY <1>1, <1>2
<1>4. /\ job' = [job EXCEPT ![v] = Calling(Tail(T))] /\ job[v].pc = "sending"
      /\ deliveries' = Append(deliveries, d)
      /\ UNCHANGED <<video, endpoints, assets, edits, plan, ended, raised>>
  BY DEF Deliver, Recorded
<1>5. d \in Delivery /\ d.video = v /\ d.event = End(v) /\ d.shown = video[v] /\ d.target = Head(T)
  BY <1>1, <1>3 DEF Delivery
<1> HIDE DEF T, d
<1>6. /\ job' \in [Videos -> Job] /\ job'[v].pc \in Ended /\ job'[v].targets = Tail(T)
      /\ job'[v].pc = "sending" <=> Tail(T) # <<>>
      /\ \A w \in Videos \ {v} : job'[w] = job[w]
  BY <1>1, <1>3, <1>4, JobGoesOn
<1>7. StatusFits' /\ \A w \in Videos : job'[w].pc \in Ended <=> job[w].pc \in Ended
  BY <1>3, <1>4, CallingFits
<1>8. TypeOK'
  <2>1. deliveries' \in Seq(Delivery)
    BY <1>1, <1>4, <1>5 DEF TypeOK
  <2> QED
    BY <1>1, <1>4, <1>6, <2>1 DEF TypeOK
<1>9. NobodyBefore'
  <2> SUFFICES ASSUME NEW w \in Videos
               PROVE  /\ job'[w].pc \notin Ended => plan[w] = <<>> /\ w \notin raised
                      /\ job'[w].pc = "sending" <=> job'[w].targets # <<>>
                      /\ w \in raised => job'[w].pc = "done"
    BY <1>4 DEF NobodyBefore
  <2>1. CASE w = v
    BY <2>1, <1>2, <1>6
  <2>2. CASE w # v
    BY <2>2, <1>6 DEF IInv, NobodyBefore
  <2> QED
    BY <2>1, <2>2
<1>10. Truthful'
  <2>1. /\ L \in Nat /\ DOMAIN deliveries = 1..L /\ DOMAIN deliveries' = 1..(L + 1)
        /\ deliveries'[L + 1] = d /\ \A i \in 1..L : deliveries'[i] = deliveries[i]
    BY <1>1, <1>4 DEF TypeOK
  <2> SUFFICES ASSUME NEW i \in 1..(L + 1)
               PROVE  /\ job'[deliveries'[i].video].pc \in Ended
                      /\ deliveries'[i].event = End(deliveries'[i].video)
                      /\ deliveries'[i].shown = video[deliveries'[i].video]
    BY <2>1, <1>4 DEF Truthful, End
  <2>3. CASE i = L + 1
    BY <2>1, <2>3, <1>5, <1>6
  <2>4. CASE i # L + 1
    <3>1. i \in 1..L
      BY <2>1, <2>4
    <3>2. i \in DOMAIN deliveries /\ deliveries'[i] = deliveries[i]
      BY <2>1, <3>1
    <3>3. /\ job[deliveries[i].video].pc \in Ended /\ deliveries[i].event = End(deliveries[i].video)
          /\ deliveries[i].shown = video[deliveries[i].video] /\ deliveries[i].video \in Videos
      BY <1>1, <3>2, DeliveryOfVideo DEF IInv, Truthful
    <3> QED
      BY <3>2, <3>3, <1>7
  <2> QED
    BY <2>3, <2>4
<1>11. StillRegistered'
  <2> SUFFICES ASSUME NEW w \in Videos
               PROVE  /\ ended[w] <= edits
                      /\ ended[w] = edits =>
                           \A k \in DOMAIN job'[w].targets :
                             LET t == job'[w].targets[k] IN
                             t.to # Callback => \E i \in DOMAIN endpoints :
                               /\ endpoints[i].id = t.to /\ endpoints[i].url = t.url
                               /\ endpoints[i].secret = t.secret
    BY <1>4 DEF StillRegistered
  <2>1. \A k \in DOMAIN job'[w].targets : \E l \in DOMAIN job[w].targets :
          job'[w].targets[k] = job[w].targets[l]
    <3> SUFFICES ASSUME NEW k \in DOMAIN job'[w].targets
                 PROVE  \E l \in DOMAIN job[w].targets : job'[w].targets[k] = job[w].targets[l]
      OBVIOUS
    <3>1. CASE w = v
      <4>1. k + 1 \in DOMAIN job[v].targets /\ job'[v].targets[k] = job[v].targets[k + 1]
        BY <3>1, <1>3, <1>6 DEF T
      <4> QED
        BY <3>1, <4>1
    <3>2. CASE w # v
      BY <3>2, <1>6
    <3> QED
      BY <3>1, <3>2
  <2> QED
    BY <2>1 DEF IInv, StillRegistered
<1>12. CalledOnceInOrder'
  <2>1. Made(v)' = Append(Made(v), Head(T)) /\ \A w \in Videos \ {v} : Made(w)' = Made(w)
    BY <1>1, <1>4, <1>5, <1>8, OneMoreCall
  <2>2. Made(v) \o T = plan[v] /\ Made(v) \in Seq(Target)
    BY <1>1, <1>2, MadeInOrder DEF IInv, CalledOnceInOrder, InLogOrder, T
  <2>3. Made(v)' \o Tail(T) = plan[v]
    BY <1>1, <1>2, <2>1, <2>2, MoveOne
  <2> SUFFICES ASSUME NEW w \in Videos
               PROVE  IF w \in raised
                      THEN \E n \in 0..Len(plan[w]) : Made(w)' = SubSeq(plan[w], 1, n)
                      ELSE Made(w)' \o job'[w].targets = plan[w]
    BY <1>4 DEF CalledOnceInOrder
  <2>4. CASE w = v
    BY <2>3, <2>4, <1>2, <1>6
  <2>5. CASE w # v
    BY <2>1, <2>5, <1>6 DEF IInv, CalledOnceInOrder
  <2> QED
    BY <2>4, <2>5
<1> QED
  BY <1>7, <1>8, <1>9, <1>10, <1>11, <1>12 DEF IInv

LEMMA RaisesStep ==
  ASSUME IInv, NEW v \in Videos, SenderRaises(v)
  PROVE  IInv'
<1>1. /\ TypeOK /\ job[v].targets \in Seq(Target) /\ <<>> \in Seq(Target)
      /\ plan[v] \in Seq(Target)
  BY TypeParts DEF IInv
<1>2. v \notin raised
  BY DEF SenderRaises, IInv, NobodyBefore
<1>3. /\ job' = [job EXCEPT ![v] = Calling(<<>>)] /\ job[v].pc = "sending"
      /\ raised' = raised \cup {v}
      /\ UNCHANGED <<video, endpoints, deliveries, assets, edits, plan, ended>>
  BY DEF SenderRaises, store
<1>4. /\ job' \in [Videos -> Job] /\ job'[v].pc \in Ended /\ job'[v].targets = <<>>
      /\ job'[v].pc # "sending"
      /\ \A w \in Videos \ {v} : job'[w] = job[w]
  BY <1>1, <1>3, JobGoesOn
<1>5. StatusFits' /\ \A w \in Videos : job'[w].pc \in Ended <=> job[w].pc \in Ended
  BY <1>1, <1>3, CallingFits
<1>6. TypeOK'
  BY <1>1, <1>3, <1>4 DEF TypeOK
<1>7. NobodyBefore'
  <2> SUFFICES ASSUME NEW w \in Videos
               PROVE  /\ job'[w].pc \notin Ended => plan[w] = <<>> /\ w \notin raised'
                      /\ job'[w].pc = "sending" <=> job'[w].targets # <<>>
                      /\ w \in raised' => job'[w].pc = "done"
    BY <1>3 DEF NobodyBefore
  <2>1. CASE w = v
    BY <2>1, <1>4 DEF Ended
  <2>2. CASE w # v
    BY <2>2, <1>3, <1>4 DEF IInv, NobodyBefore
  <2> QED
    BY <2>1, <2>2
<1>8. Truthful'
  <2>1. \A w \in Videos : End(w)' = End(w)
    BY <1>3 DEF End
  <2> QED
    BY <2>1, <1>1, <1>3, <1>5, DeliveryOfVideo DEF IInv, Truthful
<1>9. StillRegistered'
  <2> SUFFICES ASSUME NEW w \in Videos
               PROVE  /\ ended[w] <= edits
                      /\ ended[w] = edits =>
                           \A k \in DOMAIN job'[w].targets :
                             LET t == job'[w].targets[k] IN
                             t.to # Callback => \E i \in DOMAIN endpoints :
                               /\ endpoints[i].id = t.to /\ endpoints[i].url = t.url
                               /\ endpoints[i].secret = t.secret
    BY <1>3 DEF StillRegistered
  <2>1. DOMAIN job'[w].targets = {} \/ job'[w].targets = job[w].targets
    BY <1>4
  <2> QED
    BY <2>1 DEF IInv, StillRegistered
<1>10. CalledOnceInOrder'
  <2>1. \A w \in Videos : Made(w)' = Made(w)
    BY <1>3, SameCalls
  <2>2. Made(v) \o job[v].targets = plan[v] /\ Made(v) \in Seq(Target)
    BY <1>1, <1>2, MadeInOrder DEF IInv, CalledOnceInOrder, InLogOrder
  <2>3. Made(v) = SubSeq(plan[v], 1, Len(Made(v))) /\ Len(Made(v)) \in 0..Len(plan[v])
    BY <1>1, <2>2, FrontOfCalls
  <2> SUFFICES ASSUME NEW w \in Videos
               PROVE  IF w \in raised'
                      THEN \E n \in 0..Len(plan[w]) : Made(w)' = SubSeq(plan[w], 1, n)
                      ELSE Made(w)' \o job'[w].targets = plan[w]
    BY <1>3 DEF CalledOnceInOrder
  <2>4. CASE w = v
    BY <2>1, <2>3, <2>4, <1>3
  <2>5. CASE w # v
    BY <2>1, <2>5, <1>3, <1>4 DEF IInv, CalledOnceInOrder
  <2> QED
    BY <2>4, <2>5
<1> QED
  BY <1>5, <1>6, <1>7, <1>8, <1>9, <1>10 DEF IInv

\* A change of the endpoints leaves the jobs alone and is dated.
LEMMA EditStep ==
  ASSUME IInv, edits' = edits + 1, endpoints' \in Seq(Endpoint),
         UNCHANGED <<video, job, deliveries, assets, plan, ended, raised>>
  PROVE  IInv'
<1>1. TypeOK /\ edits \in Nat /\ \A v \in Videos : ended[v] \in Nat /\ ended[v] <= edits
  BY TypeParts DEF IInv, TypeOK, StillRegistered
<1>2. TypeOK'
  BY <1>1 DEF TypeOK
<1>3. StatusFits' /\ NobodyBefore'
  BY DEF IInv, StatusFits, NobodyBefore, End
<1>4. Truthful'
  BY DEF IInv, Truthful, End
<1>5. StillRegistered'
  BY <1>1 DEF StillRegistered
<1>6. CalledOnceInOrder'
  BY SameCalls DEF IInv, CalledOnceInOrder
<1> QED
  BY <1>2, <1>3, <1>4, <1>5, <1>6 DEF IInv

LEMMA RegisterStep ==
  ASSUME IInv, NEW id \in Endpoints, Register(id)
  PROVE  IInv'
<1>1. PICK events \in Filters, entity \in Videos \cup {AnyVideo} :
        endpoints' = Append(endpoints, [id |-> id, events |-> events, entity |-> entity,
                                        url |-> edits', secret |-> edits'])
  BY DEF Register
<1>2. edits' = edits + 1 /\ edits' \in Nat /\ endpoints \in Seq(Endpoint)
  BY DEF Register, IInv, TypeOK
<1>3. [id |-> id, events |-> events, entity |-> entity, url |-> edits', secret |-> edits'] \in Endpoint
  BY <1>2, ProviderConstants DEF Endpoint
<1>4. endpoints' \in Seq(Endpoint)
  BY <1>1, <1>2, <1>3
<1> QED
  BY <1>2, <1>4, EditStep DEF Register

LEMMA PatchStep ==
  ASSUME IInv, NEW i \in DOMAIN endpoints, Patch(i)
  PROVE  IInv'
<1> DEFINE e == endpoints[i]
<1>1. PICK url \in {e.url, edits'}, events \in Filters \cup {e.events},
           entity \in Videos \cup {AnyVideo} :
        endpoints' = [endpoints EXCEPT ![i].url = url, ![i].events = events, ![i].entity = entity]
  BY DEF Patch
<1>2. edits' = edits + 1 /\ edits' \in Nat /\ endpoints \in Seq(Endpoint) /\ e \in Endpoint
  BY RegisteredTypes DEF Patch, IInv, TypeOK
<1>3. [[[e EXCEPT !.url = url] EXCEPT !.events = events] EXCEPT !.entity = entity] \in Endpoint
  BY <1>2, ProviderConstants DEF Endpoint
<1>4. endpoints' = [endpoints EXCEPT ![i] =
                     [[[e EXCEPT !.url = url] EXCEPT !.events = events] EXCEPT !.entity = entity]]
  BY <1>1, <1>2
<1>5. endpoints' \in Seq(Endpoint)
  BY <1>2, <1>3, <1>4
<1> QED
  BY <1>2, <1>5, EditStep DEF Patch

LEMMA RotateStep ==
  ASSUME IInv, NEW i \in DOMAIN endpoints, Rotate(i)
  PROVE  IInv'
<1> DEFINE e == [endpoints[i] EXCEPT !.secret = edits']
<1>1. edits' = edits + 1 /\ edits' \in Nat /\ endpoints \in Seq(Endpoint) /\ endpoints[i] \in Endpoint
  BY RegisteredTypes DEF Rotate, IInv, TypeOK
<1>2. e \in Endpoint
  BY <1>1 DEF Endpoint
<1>3. endpoints' = [endpoints EXCEPT ![i] = e]
  BY DEF Rotate
<1> HIDE DEF e
<1>4. endpoints' \in Seq(Endpoint)
  BY <1>1, <1>2, <1>3
<1> QED
  BY <1>1, <1>4, EditStep DEF Rotate

LEMMA DeleteStep ==
  ASSUME IInv, NEW i \in DOMAIN endpoints, Delete(i)
  PROVE  IInv'
<1>1. edits' = edits + 1 /\ endpoints \in Seq(Endpoint)
  BY DEF Delete, IInv, TypeOK
<1>2. endpoints' = SubSeq(endpoints, 1, i - 1) \o SubSeq(endpoints, i + 1, Len(endpoints))
  BY DEF Delete, RemoveAt
<1>3. /\ SubSeq(endpoints, 1, i - 1) \in Seq(Endpoint)
      /\ SubSeq(endpoints, i + 1, Len(endpoints)) \in Seq(Endpoint)
  BY <1>1
<1>4. endpoints' \in Seq(Endpoint)
  BY <1>2, <1>3
<1> QED
  BY <1>1, <1>4, EditStep DEF Delete

LEMMA QuietStep ==
  ASSUME IInv, assets' \in SUBSET Assets,
         UNCHANGED <<video, endpoints, deliveries, job, edits, plan, ended, raised>>
  PROVE  IInv'
<1>1. TypeOK'
  BY DEF IInv, TypeOK
<1>2. StatusFits' /\ NobodyBefore'
  BY DEF IInv, StatusFits, NobodyBefore, End
<1>3. Truthful' /\ StillRegistered'
  BY DEF IInv, Truthful, StillRegistered, End
<1>4. CalledOnceInOrder'
  BY SameCalls DEF IInv, CalledOnceInOrder
<1> QED
  BY <1>1, <1>2, <1>3, <1>4 DEF IInv

LEMMA InitInv == Init => IInv
<1> SUFFICES ASSUME Init PROVE IInv
  OBVIOUS
<1>1. NoVideo \in Video /\ NoJob \in Job
  BY DEF NoVideo, NoJob, Video, Job
<1>2. TypeOK
  BY <1>1 DEF Init, TypeOK
<1>3. StatusFits /\ NobodyBefore
  BY DEF Init, StatusFits, NobodyBefore, NoVideo, NoJob, Ended
<1>4. Truthful /\ StillRegistered
  BY DEF Init, Truthful, StillRegistered, NoJob
<1>5. CalledOnceInOrder
  <2> SUFFICES ASSUME NEW v \in Videos
               PROVE  Made(v) \o job[v].targets = plan[v] /\ v \notin raised
    BY DEF CalledOnceInOrder
  <2>1. InLogOrder(v) /\ MadeAt(v) = {}
    BY <1>2, MadeInOrder DEF Init, MadeAt
  <2>2. Cardinality(MadeAt(v)) = 0
    BY <2>1, FS_EmptySet
  <2>3. Made(v) \in Seq(Target) /\ DOMAIN Made(v) = 1..0
    BY <2>1, <2>2 DEF InLogOrder
  <2>4. Made(v) = <<>>
    BY <2>3
  <2> QED
    BY <2>4 DEF Init, NoJob
<1> QED
  BY <1>2, <1>3, <1>4, <1>5 DEF IInv

LEMMA StepInv == IInv /\ [Next]_vars => IInv'
<1> SUFFICES ASSUME IInv, [Next]_vars PROVE IInv'
  OBVIOUS
<1>1. ASSUME NEW v \in Videos, CreateVideo(v) \/ Work(v) PROVE IInv'
  BY <1>1, CreateStep, AdvanceStep, FinishStep, DeliverStep, RaisesStep DEF Work
<1>2. ASSUME NEW id \in Endpoints, Register(id) PROVE IInv'
  BY <1>2, RegisterStep
<1>3. ASSUME NEW a \in Assets, UploadAsset(a) PROVE IInv'
  BY <1>3, QuietStep DEF UploadAsset, IInv, TypeOK
<1>4. ASSUME NEW i \in DOMAIN endpoints, Patch(i) \/ Rotate(i) \/ Delete(i) PROVE IInv'
  BY <1>4, PatchStep, RotateStep, DeleteStep
<1>5. CASE UNCHANGED vars
  BY <1>5, QuietStep DEF vars, store, IInv, TypeOK
<1> QED
  BY <1>1, <1>2, <1>3, <1>4, <1>5 DEF Next

LEMMA InvariantHolds == Spec => []IInv
BY InitInv, StepInv, PTL DEF Spec

-----------------------------------------------------------------------------
(* The theorems *)

\* Videos, jobs, endpoints and the event log keep their types, whatever is
\* edited while jobs call.
THEOREM TypeCorrect == Spec => []TypeOK
<1>1. IInv => TypeOK
  BY DEF IInv
<1> QED
  BY <1>1, InvariantHolds, PTL

\* _dispatch_webhooks calls each receiver it took down once and in order, and
\* the event log shows these calls, up to an exception of a sender.
THEOREM CallsOnceInOrder == Spec => []CalledOnceInOrder
<1>1. IInv => CalledOnceInOrder
  BY DEF IInv
<1> QED
  BY <1>1, InvariantHolds, PTL

\* _advance_video_job sets the status before it tells anybody: polling, files
\* and the data of an event agree with the event from its delivery on.
THEOREM EventsTellTheStatus == Spec => []EventsMatchPoll
<1>1. ASSUME IInv PROVE EventsMatchPoll
  <2> SUFFICES ASSUME NEW i \in DOMAIN deliveries
               PROVE  LET d == deliveries[i] IN
                      /\ GenerationStatus(d.video) = d.event
                      /\ d.event = "completed" => Links(d.shown) /\ FileAnswer(d.video) = 200
                      /\ d.event = "failed" => Failure(d.shown)
    BY DEF EventsMatchPoll
  <2> DEFINE d == deliveries[i]
  <2>1. d.video \in Videos /\ End(d.video) \in EventType
    BY <1>1, DeliveryOfVideo, TypeParts DEF IInv
  <2>2. d.event = End(d.video) /\ d.shown = video[d.video] /\ video[d.video].status = End(d.video)
    BY <1>1, <2>1 DEF IInv, Truthful, StatusFits
  <2> HIDE DEF d
  <2>3. GenerationStatus(d.video) = d.event
    BY <2>1, <2>2 DEF GenerationStatus, EventType
  <2>4. d.event = "completed" => Links(d.shown) /\ FileAnswer(d.video) = 200
    BY <2>2 DEF Links, FileAnswer
  <2>5. d.event = "failed" => Failure(d.shown)
    BY <2>2 DEF Failure
  <2> QED
    BY <2>3, <2>4, <2>5 DEF d
<1> QED
  BY <1>1, InvariantHolds, PTL

\* A call goes to an endpoint as it is registered, unless the endpoints were
\* edited after its video ended.
THEOREM StaleIsExplained == Spec => StaleOnlyAfterEdit
<1> DEFINE Explained ==
      \A v \in Videos :
        LET t == Head(job[v].targets) IN
        Deliver(v) /\ t.to # Callback /\ edits = ended[v] =>
          \E i \in DOMAIN endpoints :
            endpoints[i].id = t.to /\ endpoints[i].url = t.url /\ endpoints[i].secret = t.secret
<1>1. ASSUME IInv PROVE Explained
  <2> SUFFICES ASSUME NEW v \in Videos, Deliver(v), Head(job[v].targets).to # Callback,
                      edits = ended[v]
               PROVE  \E i \in DOMAIN endpoints :
                        /\ endpoints[i].id = Head(job[v].targets).to
                        /\ endpoints[i].url = Head(job[v].targets).url
                        /\ endpoints[i].secret = Head(job[v].targets).secret
    OBVIOUS
  <2>1. job[v].targets # <<>> /\ job[v].targets \in Seq(Target)
    BY <1>1, TypeParts DEF Deliver, IInv, NobodyBefore
  <2>2. 1 \in DOMAIN job[v].targets /\ Head(job[v].targets) = job[v].targets[1]
    BY <2>1
  <2> QED
    BY <1>1, <2>2 DEF IInv, StillRegistered
<1>2. IInv /\ [Next]_vars => [Explained]_vars
  BY <1>1
<1>3. Spec => [][Explained]_vars
  BY <1>2, InvariantHolds, PTL DEF Spec
<1> QED
  BY <1>3 DEF StaleOnlyAfterEdit

=============================================================================
