-------------------------- MODULE LinkBytes_proofs --------------------------
(***************************************************************************)
(* Over the remote link a byte is whole: for every byte width, every bound *)
(* on losses, retries and resets and whatever the guests write, the        *)
(* exchange that began with a request is carried out on both sides or on   *)
(* neither, with one byte going each way, and a link that loses nothing is *)
(* only ever ended by a timeout. The transport is the one of LinkDelivery: *)
(* a request may be lost, sent again too late, put off until the guest is  *)
(* ready, denied because both sides asked at once, answered from the       *)
(* cached reply, or cut off by a reset.                                    *)
(***************************************************************************)
EXTENDS LinkDelivery_proofs

-----------------------------------------------------------------------------
(* Requests and replies are told apart from the other packets; what a step *)
(* sends holds at most one of them.                                        *)
Calls == Requests \cup Replies

Mute(o)    == \A i \in DOMAIN o : o[i] \notin Calls
Says(o, p) == \E k \in DOMAIN o :
                 o[k] = p /\ \A i \in DOMAIN o : i # k => o[i] \notin Calls

\* At most one member of S, and every member of S ahead of those of R.
Once(w, S) == \A i, j \in DOMAIN w : w[i] \in S /\ w[j] \in S => i = j
Before(w, S, R) == \A i, j \in DOMAIN w : w[i] \in S /\ w[j] \in R => i < j

\* A queue from which packets were taken or lost.
Within(v, w) ==
    \E f \in [DOMAIN v -> DOMAIN w] :
        /\ \A i \in DOMAIN v : v[i] = w[f[i]]
        /\ \A i, j \in DOMAIN v : i < j => f[i] < f[j]

LEMMA WithinFacts ==
    ASSUME NEW v \in Seq(Packets), NEW w \in Seq(Packets), Within(v, w)
    PROVE  /\ Range(v) \subseteq Range(w)
           /\ \A S : Once(w, S) => Once(v, S)
           /\ \A S, R : Before(w, S, R) => Before(v, S, R)
<1>1. PICK f \in [DOMAIN v -> DOMAIN w] :
          /\ \A i \in DOMAIN v : v[i] = w[f[i]]
          /\ \A i, j \in DOMAIN v : i < j => f[i] < f[j]
  BY DEF Within
<1>2. DOMAIN v \subseteq Nat /\ DOMAIN w \subseteq Nat
  OBVIOUS
<1>3. \A i, j \in DOMAIN v : f[i] < f[j] => i < j
  BY <1>1, <1>2
<1>4. \A i, j \in DOMAIN v : f[i] = f[j] => i = j
  BY <1>1, <1>2
<1>5. Range(v) \subseteq Range(w)
  BY <1>1 DEF Range
<1>6. ASSUME NEW S, Once(w, S) PROVE Once(v, S)
  BY <1>1, <1>4, <1>6, Zenon DEF Once
<1>7. ASSUME NEW S, NEW R, Before(w, S, R) PROVE Before(v, S, R)
  BY <1>1, <1>3, <1>7, Zenon DEF Before
<1> QED
  BY <1>5, <1>6, <1>7, Zenon

LEMMA SelfWithin ==
    ASSUME NEW w \in Seq(Packets)
    PROVE  Within(w, w)
<1> DEFINE f == [i \in DOMAIN w |-> i]
<1>1. f \in [DOMAIN w -> DOMAIN w] /\ \A i \in DOMAIN w : f[i] = i
  OBVIOUS
<1> HIDE DEF f
<1> QED
  BY <1>1, Zenon DEF Within

LEMMA TailWithin ==
    ASSUME NEW w \in Seq(Packets), w # <<>>
    PROVE  Within(Tail(w), w) /\ Tail(w) \in Seq(Packets)
<1> DEFINE f == [i \in DOMAIN Tail(w) |-> i + 1]
<1>1. /\ Len(w) \in Nat /\ Len(w) > 0 /\ DOMAIN w = 1..Len(w)
      /\ Tail(w) \in Seq(Packets) /\ DOMAIN Tail(w) = 1..(Len(w) - 1)
      /\ \A i \in 1..(Len(w) - 1) : Tail(w)[i] = w[i + 1]
  OBVIOUS
<1>2. f \in [DOMAIN Tail(w) -> DOMAIN w] /\ \A i \in DOMAIN Tail(w) : f[i] = i + 1
  BY <1>1
<1>3. \A i, j \in DOMAIN Tail(w) : i < j => f[i] < f[j]
  BY <1>1, <1>2
<1>4. \A i \in DOMAIN Tail(w) : Tail(w)[i] = w[f[i]]
  BY <1>1, <1>2
<1> HIDE DEF f
<1> QED
  BY <1>1, <1>2, <1>3, <1>4, Zenon DEF Within

LEMMA JoinedFacts ==
    ASSUME NEW w \in Seq(Packets), NEW o \in Seq(Packets)
    PROVE  /\ w \o o \in Seq(Packets) /\ DOMAIN (w \o o) = 1..(Len(w) + Len(o))
           /\ Len(w) \in Nat /\ Len(o) \in Nat
           /\ DOMAIN w = 1..Len(w) /\ DOMAIN o = 1..Len(o)
           /\ \A i \in DOMAIN w : i \in DOMAIN (w \o o) /\ (w \o o)[i] = w[i]
           /\ \A i \in DOMAIN o : /\ i + Len(w) \in DOMAIN (w \o o)
                                  /\ (w \o o)[i + Len(w)] = o[i]
           /\ \A i \in DOMAIN (w \o o) :
                 i \in DOMAIN w \/ i - Len(w) \in DOMAIN o
<1>1. /\ w \o o \in Seq(Packets) /\ DOMAIN (w \o o) = 1..(Len(w) + Len(o))
      /\ Len(w) \in Nat /\ Len(o) \in Nat
      /\ DOMAIN w = 1..Len(w) /\ DOMAIN o = 1..Len(o)
  OBVIOUS
<1>2. \A i \in 1..Len(w) : (w \o o)[i] = w[i]
  OBVIOUS
<1>3. \A i \in 1..Len(o) : (w \o o)[i + Len(w)] = o[i]
  BY <1>1
<1> HIDE DEF Packets
<1>4. \A i \in DOMAIN w : i \in DOMAIN (w \o o)
  BY <1>1
<1>5. \A i \in DOMAIN o : i + Len(w) \in DOMAIN (w \o o)
  BY <1>1
<1>6. \A i \in DOMAIN (w \o o) : i \in DOMAIN w \/ i - Len(w) \in DOMAIN o
  BY <1>1
<1> QED
  BY <1>1, <1>2, <1>3, <1>4, <1>5, <1>6

LEMMA PartsOfRemoveAt ==
    ASSUME NEW S, NEW s \in Seq(S), NEW i \in 1..Len(s)
    PROVE  LET a == SubSeq(s, 1, i - 1)
               b == SubSeq(s, i + 1, Len(s))
           IN  /\ a \in Seq(S) /\ Len(a) = i - 1 /\ \A j \in 1..(i - 1) : a[j] = s[j]
               /\ b \in Seq(S) /\ Len(b) = Len(s) - i
               /\ \A j \in 1..(Len(s) - i) : b[j] = s[j + i]
<1> DEFINE a == SubSeq(s, 1, i - 1)
           b == SubSeq(s, i + 1, Len(s))
<1>1. Len(s) \in Nat /\ DOMAIN s = 1..Len(s)
  OBVIOUS
<1> QED
  <2>1. a \in Seq(S) /\ Len(a) = i - 1 /\ \A j \in 1..(i - 1) : a[j] = s[j]
    BY <1>1
  <2>2. b \in Seq(S) /\ Len(b) = Len(s) - i
    <3>1. i + 1 \in Int /\ Len(s) \in Int
      BY <1>1
    <3>2. ASSUME NEW j \in (i + 1)..Len(s) PROVE s[j] \in S
      <4>1. j \in 1..Len(s)
        BY <1>1
      <4> QED
        BY <4>1
    <3>3. b \in Seq(S) /\ Len(b) = IF i + 1 <= Len(s) THEN Len(s) - (i + 1) + 1 ELSE 0
      BY <3>1, <3>2, SubSeqProperties
    <3>4. CASE i + 1 <= Len(s)
      BY <1>1, <3>3, <3>4
    <3>5. CASE i = Len(s)
      <4>1. Len(b) = 0 /\ Len(s) - i = 0
        <5>1. ~(i + 1 <= Len(s)) /\ Len(s) - i = 0
          BY <1>1, <3>5
        <5> QED
          BY <3>3, <5>1
      <4> QED
        BY <3>3, <4>1
    <3>6. i + 1 <= Len(s) \/ i = Len(s)
      <4>1. \A l \in Nat : \A k \in 1..l : k + 1 <= l \/ k = l
        OBVIOUS
      <4> QED
        BY <1>1, <4>1, Zenon
    <3> QED
      BY <3>4, <3>5, <3>6
  <2>3. ASSUME NEW j \in 1..(Len(s) - i) PROVE b[j] = s[j + i]
    <3>1. (i + 1) + j - 1 = j + i /\ i + 1 \in Nat /\ j \in 1..(Len(s) - (i + 1) + 1)
      BY <1>1
    <3>2. b[j] = s[(i + 1) + j - 1]
      BY <1>1, <3>1
    <3> QED
      BY <3>1, <3>2
  <2> QED
    BY <2>1, <2>2, <2>3

LEMMA RemoveAtWithin ==
    ASSUME NEW w \in Seq(Packets), NEW k \in 1..Len(w)
    PROVE  Within(RemoveAt(w, k), w)
<1> DEFINE v == RemoveAt(w, k)
           a == SubSeq(w, 1, k - 1)
           b == SubSeq(w, k + 1, Len(w))
           f == [i \in DOMAIN v |-> IF i < k THEN i ELSE i + 1]
<1>1. Len(w) \in Nat /\ DOMAIN w = 1..Len(w)
  OBVIOUS
<1>2. /\ a \in Seq(Packets) /\ Len(a) = k - 1 /\ \A j \in 1..(k - 1) : a[j] = w[j]
      /\ b \in Seq(Packets) /\ Len(b) = Len(w) - k
      /\ \A j \in 1..(Len(w) - k) : b[j] = w[j + k]
  BY PartsOfRemoveAt
<1>3. v = a \o b
  BY DEF RemoveAt
<1> HIDE DEF a, b, v
<1>4. /\ v \in Seq(Packets) /\ DOMAIN v = 1..(Len(w) - 1)
      /\ \A i \in DOMAIN a : v[i] = a[i]
      /\ \A i \in DOMAIN b : v[i + Len(a)] = b[i]
      /\ DOMAIN a = 1..(k - 1) /\ DOMAIN b = 1..(Len(w) - k)
  <2>1. /\ v \in Seq(Packets) /\ DOMAIN v = 1..(Len(a) + Len(b))
        /\ \A i \in DOMAIN a : v[i] = a[i]
        /\ \A i \in DOMAIN b : v[i + Len(a)] = b[i]
        /\ DOMAIN a = 1..Len(a) /\ DOMAIN b = 1..Len(b)
    BY <1>2, <1>3, JoinedFacts
  <2>2. Len(a) + Len(b) = Len(w) - 1
    BY <1>1, <1>2
  <2> QED
    BY <1>2, <2>1, <2>2
<1>5. \A i \in DOMAIN v : v[i] = IF i < k THEN w[i] ELSE w[i + 1]
  <2> SUFFICES ASSUME NEW i \in DOMAIN v PROVE v[i] = IF i < k THEN w[i] ELSE w[i + 1]
    OBVIOUS
  <2>1. CASE i < k
    <3>1. i \in 1..(k - 1)
      BY <1>1, <1>4, <2>1
    <3> QED
      BY <1>2, <1>4, <2>1, <3>1
  <2>2. CASE ~(i < k)
    <3>1. i - (k - 1) \in 1..(Len(w) - k) /\ (i - (k - 1)) + (k - 1) = i
          /\ (i - (k - 1)) + k = i + 1
      BY <1>1, <1>4, <2>2
    <3>2. v[(i - (k - 1)) + (k - 1)] = b[i - (k - 1)]
      BY <1>2, <1>4, <3>1
    <3> QED
      BY <1>2, <2>2, <3>1, <3>2
  <2> QED
    BY <2>1, <2>2
<1>6. f \in [DOMAIN v -> DOMAIN w] /\ \A i \in DOMAIN v : f[i] = IF i < k THEN i ELSE i + 1
  BY <1>1, <1>4
<1> HIDE DEF f
<1>7. \A i, j \in DOMAIN v : i < j => f[i] < f[j]
  BY <1>1, <1>4, <1>6
<1>8. \A i \in DOMAIN v : v[i] = w[f[i]]
  BY <1>5, <1>6
<1> QED
  BY <1>6, <1>7, <1>8, Zenon DEF Within, v

LEMMA HeadFacts ==
    ASSUME NEW w \in Seq(Packets), w # <<>>
    PROVE  /\ Head(w) \in Range(w) /\ Head(w) \in Packets
           /\ \A p \in Range(w) : p = Head(w) \/ p \in Range(Tail(w))
           /\ \A S : Once(w, S) /\ Head(w) \in S =>
                 \A p \in Range(Tail(w)) : p \notin S
           /\ \A S, R : Before(w, S, R) /\ Head(w) \in R =>
                 \A p \in Range(w) : p \notin S
<1>1. /\ Len(w) \in Nat /\ Len(w) > 0 /\ DOMAIN w = 1..Len(w) /\ 1 \in DOMAIN w
      /\ Head(w) = w[1] /\ DOMAIN Tail(w) = 1..(Len(w) - 1)
      /\ \A i \in 1..(Len(w) - 1) : Tail(w)[i] = w[i + 1]
      /\ \A i \in DOMAIN w : w[i] \in Packets
  OBVIOUS
<1>2. Head(w) \in Range(w) /\ Head(w) \in Packets
  BY <1>1 DEF Range
<1>3. ASSUME NEW p \in Range(w) PROVE p = Head(w) \/ p \in Range(Tail(w))
  <2>1. PICK i \in DOMAIN w : p = w[i]
    BY <1>3 DEF Range
  <2>2. CASE i = 1
    BY <1>1, <2>1, <2>2
  <2>3. CASE i # 1
    <3>1. i - 1 \in DOMAIN Tail(w) /\ Tail(w)[i - 1] = w[i]
      BY <1>1, <2>3
    <3> QED
      BY <2>1, <3>1, Zenon DEF Range
  <2> QED
    BY <2>2, <2>3
<1>4. ASSUME NEW S, Once(w, S), Head(w) \in S, NEW p \in Range(Tail(w)) PROVE p \notin S
  <2>1. PICK i \in DOMAIN Tail(w) : p = Tail(w)[i]
    BY <1>4 DEF Range
  <2>2. i + 1 \in DOMAIN w /\ p = w[i + 1] /\ i + 1 # 1
    BY <1>1, <2>1
  <2> QED
    BY <1>1, <1>4, <2>2, Zenon DEF Once
<1>5. ASSUME NEW S, NEW R, Before(w, S, R), Head(w) \in R, NEW p \in Range(w) PROVE p \notin S
  <2>1. PICK i \in DOMAIN w : p = w[i]
    BY <1>5 DEF Range
  <2>2. ~(i < 1)
    BY <1>1
  <2> QED
    BY <1>1, <1>5, <2>1, <2>2, Zenon DEF Before
<1> QED
  BY <1>2, <1>3, <1>4, <1>5, Zenon

LEMMA MuteJoined ==
    ASSUME NEW w \in Seq(Packets), NEW o \in Seq(Packets), Mute(o)
    PROVE  /\ \A p \in Calls : p \in Range(w \o o) <=> p \in Range(w)
           /\ \A S \in SUBSET Calls : Once(w, S) => Once(w \o o, S)
           /\ \A S, R \in SUBSET Calls : Before(w, S, R) => Before(w \o o, S, R)
<1> DEFINE v == w \o o
<1>1. \A i \in DOMAIN v : v[i] \in Calls => i \in DOMAIN w /\ v[i] = w[i]
  BY JoinedFacts DEF Mute
<1>2. \A i \in DOMAIN w : i \in DOMAIN v /\ v[i] = w[i]
  BY JoinedFacts
<1> HIDE DEF v
<1>3. \A p \in Calls : p \in Range(v) <=> p \in Range(w)
  BY <1>1, <1>2, Zenon DEF Range
<1>4. ASSUME NEW S \in SUBSET Calls, Once(w, S) PROVE Once(v, S)
  BY <1>1, <1>4, Zenon DEF Once
<1>5. ASSUME NEW S \in SUBSET Calls, NEW R \in SUBSET Calls, Before(w, S, R)
      PROVE  Before(v, S, R)
  BY <1>1, <1>5, Zenon DEF Before
<1> QED
  BY <1>3, <1>4, <1>5, Zenon DEF v

LEMMA SaysJoined ==
    ASSUME NEW w \in Seq(Packets), NEW o \in Seq(Packets), NEW q \in Calls, Says(o, q)
    PROVE  /\ \A p \in Calls : p \in Range(w \o o) <=> p \in Range(w) \/ p = q
           /\ \A S \in SUBSET Calls :
                 Once(w, S) /\ (q \notin S \/ \A p \in Range(w) : p \notin S)
                    => Once(w \o o, S)
           /\ \A S, R \in SUBSET Calls :
                 Before(w, S, R) /\ q \notin S => Before(w \o o, S, R)
<1> DEFINE v == w \o o
<1>1. PICK k \in DOMAIN o : o[k] = q /\ \A i \in DOMAIN o : i # k => o[i] \notin Calls
  BY DEF Says
<1> DEFINE l == k + Len(w)
<1>2. l \in DOMAIN v /\ v[l] = q /\ \A i \in DOMAIN w : i < l
  BY <1>1, JoinedFacts
<1>3. \A i \in DOMAIN v : v[i] \in Calls => i = l \/ (i \in DOMAIN w /\ v[i] = w[i])
  <2> SUFFICES ASSUME NEW i \in DOMAIN v, v[i] \in Calls, i \notin DOMAIN w PROVE i = l
    BY JoinedFacts
  <2>1. i - Len(w) \in DOMAIN o /\ v[i] = o[i - Len(w)]
    <3>1. i \in 1..(Len(w) + Len(o)) /\ Len(w) \in Nat /\ Len(o) \in Nat
          /\ i - Len(w) \in DOMAIN o /\ v[(i - Len(w)) + Len(w)] = o[i - Len(w)]
      BY JoinedFacts
    <3>2. (i - Len(w)) + Len(w) = i
      BY <3>1
    <3> HIDE DEF v
    <3> QED
      BY <3>1, <3>2
  <2>2. i - Len(w) = k
    BY <1>1, <2>1
  <2>3. i \in Int /\ Len(w) \in Int
    BY JoinedFacts
  <2> HIDE DEF v
  <2> QED
    BY <2>2, <2>3
<1>4. \A i \in DOMAIN w : i \in DOMAIN v /\ v[i] = w[i]
  BY JoinedFacts
<1>5. \A i \in DOMAIN w : ~(l < i)
  BY <1>2, JoinedFacts
<1> HIDE DEF v, l
<1>6. \A p \in Calls : p \in Range(v) <=> p \in Range(w) \/ p = q
  BY <1>2, <1>3, <1>4, Zenon DEF Range
<1>7. ASSUME NEW S \in SUBSET Calls, Once(w, S), q \notin S \/ \A p \in Range(w) : p \notin S
      PROVE  Once(v, S)
  <2> SUFFICES ASSUME NEW i \in DOMAIN v, NEW j \in DOMAIN v, v[i] \in S, v[j] \in S
               PROVE  i = j
    BY Zenon DEF Once
  <2>1. CASE q \notin S
    BY <1>2, <1>3, <1>7, <2>1, Zenon DEF Once
  <2>2. CASE \A p \in Range(w) : p \notin S
    <3>1. \A m \in DOMAIN w : w[m] \notin S
      BY <2>2, Zenon DEF Range
    <3> QED
      BY <1>3, <3>1, Zenon
  <2> QED
    BY <1>7, <2>1, <2>2
<1>8. ASSUME NEW S \in SUBSET Calls, NEW R \in SUBSET Calls, Before(w, S, R), q \notin S
      PROVE  Before(v, S, R)
  <2> SUFFICES ASSUME NEW i \in DOMAIN v, NEW j \in DOMAIN v, v[i] \in S, v[j] \in R
               PROVE  i < j
    BY Zenon DEF Before
  <2>1. i # l /\ i \in DOMAIN w /\ v[i] = w[i]
    BY <1>2, <1>3, <1>8, Zenon
  <2>2. CASE j = l
    BY <1>2, <2>1, <2>2
  <2>3. CASE j # l
    BY <1>3, <1>8, <2>1, <2>3, Zenon DEF Before
  <2> QED
    BY <2>2, <2>3
<1> QED
  BY <1>6, <1>7, <1>8, Zenon DEF v

LEMMA MuteAppend ==
    ASSUME NEW o \in Seq(Packets), Mute(o), NEW p \in Packets
    PROVE  /\ p \notin Calls => Mute(Append(o, p))
           /\ p \in Calls => Says(Append(o, p), p)
<1>1. /\ DOMAIN Append(o, p) = 1..(Len(o) + 1) /\ DOMAIN o = 1..Len(o) /\ Len(o) \in Nat
      /\ Append(o, p)[Len(o) + 1] = p
      /\ \A i \in 1..Len(o) : Append(o, p)[i] = o[i]
  OBVIOUS
<1>2. \A i \in DOMAIN Append(o, p) : i # Len(o) + 1 => Append(o, p)[i] \notin Calls
  BY <1>1 DEF Mute
<1>3. Len(o) + 1 \in DOMAIN Append(o, p)
  BY <1>1
<1> DEFINE a == Append(o, p)
           l == Len(o) + 1
<1>4. l \in DOMAIN a /\ a[l] = p /\ \A i \in DOMAIN a : i # l => a[i] \notin Calls
  BY <1>1, <1>2, <1>3
<1> HIDE DEF a, l
<1>5. (p \notin Calls => Mute(a)) /\ (p \in Calls => Says(a, p))
  BY <1>4, Zenon DEF Mute, Says
<1> QED
  BY <1>5 DEF a

-----------------------------------------------------------------------------
(* What an endpoint knows of requests and replies, and the fields that are *)
(* no part of it.                                                          *)
SameCore(e, f) ==
    /\ f.next = e.next /\ f.pending = e.pending /\ f.answer = e.answer
    /\ f.response = e.response /\ f.deferred = e.deferred
    /\ f.served = e.served /\ f.reply = e.reply

LEMMA OtherFields ==
    ASSUME NEW e \in Endpoint, NEW x
    PROVE  /\ SameCore(e, [e EXCEPT !.retries = x])
           /\ SameCore(e, [e EXCEPT !.backoff = x])
           /\ SameCore(e, [e EXCEPT !.busy = x])
           /\ SameCore(e, [e EXCEPT !.seen = x])
           /\ SameCore(e, [e EXCEPT !.completed = x])
           /\ SameCore(e, [e EXCEPT !.commit = x])
           /\ SameCore(e, [e EXCEPT !.commit_retries = x])
           /\ SameCore(e, [e EXCEPT !.reset = x])
           /\ SameCore(e, [e EXCEPT !.reset_retries = x])
           /\ SameCore(e, [e EXCEPT !.peer_reset = x])
           /\ [e EXCEPT !.retries = x].retries = x
<1>1. SameCore(e, [e EXCEPT !.retries = x])
  BY DEF Endpoint, SameCore
<1>2. SameCore(e, [e EXCEPT !.backoff = x])
  BY DEF Endpoint, SameCore
<1>3. SameCore(e, [e EXCEPT !.busy = x])
  BY DEF Endpoint, SameCore
<1>4. SameCore(e, [e EXCEPT !.seen = x])
  BY DEF Endpoint, SameCore
<1>5. SameCore(e, [e EXCEPT !.completed = x])
  BY DEF Endpoint, SameCore
<1>6. SameCore(e, [e EXCEPT !.commit = x])
  BY DEF Endpoint, SameCore
<1>7. SameCore(e, [e EXCEPT !.commit_retries = x])
  BY DEF Endpoint, SameCore
<1>8. SameCore(e, [e EXCEPT !.reset = x])
  BY DEF Endpoint, SameCore
<1>9. SameCore(e, [e EXCEPT !.reset_retries = x])
  BY DEF Endpoint, SameCore
<1>10. SameCore(e, [e EXCEPT !.peer_reset = x])
  BY DEF Endpoint, SameCore
<1>11. [e EXCEPT !.retries = x].retries = x
  BY DEF Endpoint
<1> QED
  BY <1>1, <1>2, <1>3, <1>4, <1>5, <1>6, <1>7, <1>8, <1>9, <1>10, <1>11

LEMMA NextAlone ==
    ASSUME NEW e \in Endpoint, NEW x
    PROVE  LET f == [e EXCEPT !.next = x]
           IN  /\ f.next = x
               /\ f.pending = e.pending /\ f.answer = e.answer
               /\ f.response = e.response /\ f.deferred = e.deferred
               /\ f.served = e.served /\ f.reply = e.reply
BY DEF Endpoint

LEMMA PendingAlone ==
    ASSUME NEW e \in Endpoint, NEW x
    PROVE  LET f == [e EXCEPT !.pending = x]
           IN  /\ f.pending = x
               /\ f.next = e.next /\ f.answer = e.answer
               /\ f.response = e.response /\ f.deferred = e.deferred
               /\ f.served = e.served /\ f.reply = e.reply
BY DEF Endpoint

LEMMA AnswerAlone ==
    ASSUME NEW e \in Endpoint, NEW x
    PROVE  LET f == [e EXCEPT !.answer = x]
           IN  /\ f.answer = x
               /\ f.next = e.next /\ f.pending = e.pending
               /\ f.response = e.response /\ f.deferred = e.deferred
               /\ f.served = e.served /\ f.reply = e.reply
BY DEF Endpoint

LEMMA ResponseAlone ==
    ASSUME NEW e \in Endpoint, NEW x
    PROVE  LET f == [e EXCEPT !.response = x]
           IN  /\ f.response = x
               /\ f.next = e.next /\ f.pending = e.pending
               /\ f.answer = e.answer /\ f.deferred = e.deferred
               /\ f.served = e.served /\ f.reply = e.reply
BY DEF Endpoint

LEMMA DeferredAlone ==
    ASSUME NEW e \in Endpoint, NEW x
    PROVE  LET f == [e EXCEPT !.deferred = x]
           IN  /\ f.deferred = x
               /\ f.next = e.next /\ f.pending = e.pending
               /\ f.answer = e.answer /\ f.response = e.response
               /\ f.served = e.served /\ f.reply = e.reply
BY DEF Endpoint

LEMMA ServedAlone ==
    ASSUME NEW e \in Endpoint, NEW x
    PROVE  LET f == [e EXCEPT !.served = x]
           IN  /\ f.served = x
               /\ f.next = e.next /\ f.pending = e.pending
               /\ f.answer = e.answer /\ f.response = e.response
               /\ f.deferred = e.deferred /\ f.reply = e.reply
BY DEF Endpoint

LEMMA ReplyAlone ==
    ASSUME NEW e \in Endpoint, NEW x
    PROVE  LET f == [e EXCEPT !.reply = x]
           IN  /\ f.reply = x
               /\ f.next = e.next /\ f.pending = e.pending
               /\ f.answer = e.answer /\ f.response = e.response
               /\ f.deferred = e.deferred /\ f.served = e.served
BY DEF Endpoint

-----------------------------------------------------------------------------
(* A node whose handler has not said anything of a request yet.            *)
Clear(n) == Well(n) /\ n.fault = None /\ Mute(n.out)

LEMMA CallsByKind ==
    ASSUME NEW p \in Packets
    PROVE  /\ p \in Requests <=> p.kind = "request"
           /\ p \in Replies <=> p.kind \in {"response", "denied", "not_ready"}
           /\ p \in Resets <=> p.kind = "reset"
           /\ p \in Acks <=> p.kind = "reset_ack"
           /\ p \in Calls <=> p.kind \in {"request", "response", "denied", "not_ready"}
BY DEF Packets, Harmless, Requests, Replies, Resets, Acks, Others_, Calls

LEMMA SendClear ==
    ASSUME NEW n, Clear(n), NEW p \in Packets
    PROVE  LET m == Send(n, p)
           IN  /\ Well(m) /\ m.port = n.port /\ m.ep = n.ep /\ m.fault = None
               /\ p \notin Calls => Clear(m)
               /\ p \in Calls => Says(m.out, p)
<1>1. /\ Well(Send(n, p)) /\ Send(n, p).port = n.port /\ Send(n, p).ep = n.ep
      /\ Send(n, p).fault = None
  BY SendType DEF Clear
<1>2. n.out \in Seq(Packets) /\ Send(n, p).out = Append(n.out, p)
  BY DEF Clear, Well, Nodes, Send
<1>3. /\ p \notin Calls => Mute(Append(n.out, p))
      /\ p \in Calls => Says(Append(n.out, p), p)
  BY <1>2, MuteAppend DEF Clear
<1> QED
  BY <1>1, <1>2, <1>3 DEF Clear

LEMMA PlainPackets ==
    ASSUME NEW k \in Nat
    PROVE  \A kind \in {"release", "commit", "commit_ack", "reset", "reset_ack"} :
              Packet(kind, k, <<>>) \in Packets \ Calls
<1>1. <<>> \in BitSeq
  BY BitSeqFacts
<1> QED
  BY <1>1 DEF Packet, Packets, Harmless, Others_, Resets, Acks, Calls, Requests, Replies

LEMMA ReleaseRunning ==
    ASSUME NEW n, Clear(n), n.port.active
    PROVE  LET m == ReleaseClock(n)
           IN  Clear(m) /\ m.ep = n.ep /\ m.port = n.port
<1>1. CASE AnswerReady(n)
  BY <1>1 DEF ReleaseClock
<1>2. CASE ~AnswerReady(n)
  <2> DEFINE m == [n EXCEPT !.ep = n.ep]
  <2>1. m = n
    BY DEF Clear, Well, Nodes
  <2>2. ReleaseClock(n) = Send(m, Packet("release", 0, <<>>))
    BY <1>2 DEF ReleaseClock
  <2> HIDE DEF m
  <2>3. Packet("release", 0, <<>>) \in Packets \ Calls
    BY PlainPackets
  <2> QED
    BY <2>1, <2>2, <2>3, SendClear
<1> QED
  BY <1>1, <1>2

LEMMA WithEndpoint ==
    ASSUME NEW n, Clear(n), NEW e \in Endpoint
    PROVE  LET m == [n EXCEPT !.ep = e]
           IN  Clear(m) /\ m.ep = e /\ m.port = n.port /\ m.out = n.out
BY DEF Clear, Well, Nodes

LEMMA WithPort ==
    ASSUME NEW n, Clear(n), NEW p, Sound(p)
    PROVE  LET m == [n EXCEPT !.port = p]
           IN  Clear(m) /\ m.ep = n.ep /\ m.port = p /\ m.out = n.out
BY DEF Clear, Well, Nodes, Sound

LEMMA SameCoreChain ==
    ASSUME NEW e, NEW f, NEW g, SameCore(e, f), SameCore(f, g)
    PROVE  SameCore(e, g)
BY DEF SameCore

LEMMA ReleaseDone ==
    ASSUME NEW n, Clear(n), ~n.port.active, ~AnswerReady(n), n.ep.pending = None
    PROVE  LET m == ReleaseClock(n)
           IN  Clear(m) /\ SameCore(n.ep, m.ep) /\ m.port = n.port
<1> DEFINE f == Forget(n.ep)
           e == [f EXCEPT !.backoff = 0]
           g1 == [e EXCEPT !.commit = e.completed]
           g2 == [g1 EXCEPT !.commit_retries = 0]
           g == [g2 EXCEPT !.completed = None]
<1>1. n.ep \in Endpoint
  BY DEF Clear, Well, Nodes
<1>2. f \in Endpoint /\ SameCore(n.ep, f)
  <2> DEFINE f1 == [n.ep EXCEPT !.pending = None]
  <2>1. f1 \in Endpoint /\ SameCore(n.ep, f1)
    BY <1>1, PendingField, PendingAlone DEF SameCore
  <2>2. f = [f1 EXCEPT !.retries = 0]
    BY DEF Forget
  <2> HIDE DEF f1
  <2>3. SameCore(f1, [f1 EXCEPT !.retries = 0])
    BY <2>1, OtherFields
  <2>4. f \in Endpoint
    BY <1>1, ForgetType
  <2> QED
    BY <2>1, <2>2, <2>3, <2>4, SameCoreChain
<1> HIDE DEF f
<1>3. e \in Endpoint /\ SameCore(f, e)
  BY <1>2, BackoffField, OtherFields
<1>4. e.completed \in Nat \cup {None}
  <2> HIDE DEF e
  <2> QED
    BY <1>3 DEF Endpoint
<1>5. SameCore(n.ep, e)
  BY <1>2, <1>3, SameCoreChain
<1>6. n.port.active = FALSE \/ ~n.port.active
  OBVIOUS
<1>7. ReleaseClock(n) =
        IF e.completed # None
          THEN Send([n EXCEPT !.ep = g], Packet("commit", e.completed, <<>>))
          ELSE Send([n EXCEPT !.ep = e], Packet("release", 0, <<>>))
  BY DEF ReleaseClock, f
<1> HIDE DEF e
<1>8. CASE e.completed # None
  <2>1. g1 \in Endpoint /\ SameCore(e, g1)
    BY <1>3, <1>4, CommitField, OtherFields
  <2> HIDE DEF g1
  <2>2. g2 \in Endpoint /\ SameCore(g1, g2)
    BY <2>1, CommitRetriesField, OtherFields
  <2> HIDE DEF g2
  <2>3. g \in Endpoint /\ SameCore(g2, g)
    BY <2>2, CompletedField, OtherFields
  <2> HIDE DEF g
  <2>4. SameCore(n.ep, g)
    BY <1>5, <2>1, <2>2, <2>3, SameCoreChain, Zenon
  <2>5. Packet("commit", e.completed, <<>>) \in Packets \ Calls
    BY <1>4, <1>8, PlainPackets
  <2> DEFINE o == [n EXCEPT !.ep = g]
  <2>6. Clear(o) /\ o.ep = g /\ o.port = n.port
    BY <2>3, WithEndpoint
  <2>7. ReleaseClock(n) = Send(o, Packet("commit", e.completed, <<>>))
    BY <1>7, <1>8
  <2> HIDE DEF o
  <2> QED
    BY <2>4, <2>5, <2>6, <2>7, SendClear
<1>9. CASE e.completed = None
  <2>1. Packet("release", 0, <<>>) \in Packets \ Calls
    BY PlainPackets
  <2> DEFINE o == [n EXCEPT !.ep = e]
  <2>2. Clear(o) /\ o.ep = e /\ o.port = n.port
    BY <1>3, WithEndpoint
  <2>3. ReleaseClock(n) = Send(o, Packet("release", 0, <<>>))
    BY <1>7, <1>9
  <2> HIDE DEF o
  <2> QED
    BY <1>5, <2>1, <2>2, <2>3, SendClear
<1> QED
  BY <1>8, <1>9

(* What a rewrite of SC makes of a port on a link.                         *)
Rewritten(p, q) ==
    /\ q.bits < ByteBits
    /\ Drives(p) /\ Drives(q) => q.data = p.data /\ q.bits = p.bits
    /\ (p.active => p.bits = 0) /\ q.active => q.bits = 0

LEMMA RewritePlain ==
    ASSUME NEW c \in Consoles, NEW n, Clear(n), NEW sc \in Control
    PROVE  LET m == RewriteControl(c, n, sc)
           IN  /\ Clear(m) /\ m.ep = n.ep /\ Rewritten(n.port, m.port)
               /\ n.port.active /\ sc.start /\ ~sc.internal =>
                     Follows(m.port) /\ m.port.data = n.port.data
                                    /\ m.port.bits = n.port.bits
<1> DEFINE m == IF GivesClockBack(n.port, sc, TRUE) THEN ReleaseClock(n) ELSE n
           granted == AsksForClock(n.port, sc, TRUE) => Grants(c, m.ep)
           q == WriteControl(n.port, sc, TRUE, TRUE, granted)
<1>1. Clear(m) /\ m.ep = n.ep /\ m.port = n.port
  BY ReleaseRunning DEF GivesClockBack, Drives
<1>2. RewriteControl(c, n, sc) = [m EXCEPT !.port = q]
  BY DEF RewriteControl
<1> HIDE DEF m
<1>3. granted \in BOOLEAN /\ n.port \in Port /\ Sound(n.port) /\ TRUE \in BOOLEAN
  BY DEF Clear, Well, Nodes
<1>4. ~AsksForClock(n.port, sc, TRUE) => granted
  OBVIOUS
<1> HIDE DEF granted
<1>5. Sound(q)
  BY <1>3, WriteControlSound
<1>6. Drives(q) = (sc.start /\ sc.internal /\ granted)
  BY <1>3, WriteControlSound
<1>7. Rewritten(n.port, q)
  <2>1. CASE ~sc.start
    <3>1. q.bits = 0 /\ ~q.active
      BY <2>1 DEF WriteControl
    <3> HIDE DEF q
    <3> QED
      BY <3>1, PortAssumption DEF Rewritten, Drives
  <2>2. CASE sc.start
    <3>1. /\ q.active /\ q.bits = IF n.port.active THEN n.port.bits ELSE 0
          /\ ~(sc.internal /\ ~granted) => q.data = n.port.data
      BY <1>3, <2>2 DEF WriteControl, Continues
    <3>2. q.bits < ByteBits
      BY <1>5, <3>1 DEF Sound
    <3> HIDE DEF q
    <3> QED
      BY <1>4, <1>6, <2>2, <3>1, <3>2 DEF Rewritten, Drives, AsksForClock, Continues
  <2> QED
    BY <2>1, <2>2
<1>8. ASSUME n.port.active, sc.start, ~sc.internal
      PROVE  Follows(q) /\ q.data = n.port.data /\ q.bits = n.port.bits
  BY <1>3, <1>8 DEF WriteControl, Continues, Follows
<1> HIDE DEF q
<1>9. /\ Clear([m EXCEPT !.port = q]) /\ [m EXCEPT !.port = q].ep = m.ep
      /\ [m EXCEPT !.port = q].port = q
  BY <1>1, <1>5, WithPort
<1> QED
  BY <1>1, <1>2, <1>7, <1>8, <1>9

LEMMA DemotePlain ==
    ASSUME NEW c \in Consoles, NEW n, Clear(n), Drives(n.port)
    PROVE  LET m == Demote(c, n)
           IN  /\ Clear(m) /\ m.ep = n.ep /\ Follows(m.port)
               /\ m.port.data = n.port.data /\ m.port.bits = n.port.bits
<1> DEFINE sc == [n.port.control EXCEPT !.internal = FALSE]
<1>1. n.port.control \in Control /\ n.port.active /\ n.port.control.start
  BY DEF Clear, Well, Nodes, Port, Sound, Drives
<1>2. sc \in Control /\ sc.start /\ ~sc.internal
  BY <1>1 DEF Control
<1> HIDE DEF sc
<1> QED
  BY <1>1, <1>2, RewritePlain DEF Demote, sc

-----------------------------------------------------------------------------
(* The four outcomes of an edge of a driving port.                         *)
Shaped(p, e) ==
    /\ e.response = <<>>
    /\ e.pending # None => /\ Drives(p) /\ Len(e.pending.bits) = ByteBits
                           /\ e.pending.seq + 1 = e.next
    /\ e.answer # <<>> => e.pending # None /\ p.bits + Len(e.answer) = ByteBits
    /\ e.answer = <<>> /\ p.active => p.bits = 0
    /\ e.answer = <<>> /\ e.pending # None => e.pending.bits = p.data

Unmoved(n, m) == Clear(m) /\ SameCore(n.ep, m.ep) /\ m.port = n.port

Inquires(n, m, r) ==
    /\ Well(m) /\ m.fault = None /\ m.port = n.port /\ Says(m.out, r)
    /\ r \in Requests /\ r.seq = n.ep.next /\ r.bits = n.port.data
    /\ n.ep.pending = None /\ n.ep.answer = <<>>
    /\ m.ep.next = n.ep.next + 1 /\ m.ep.pending = r
    /\ m.ep.answer = n.ep.answer /\ m.ep.response = n.ep.response
    /\ m.ep.deferred = n.ep.deferred /\ m.ep.served = n.ep.served
    /\ m.ep.reply = n.ep.reply

Shifts(n, m) ==
    /\ Clear(m) /\ n.ep.answer # <<>> /\ n.ep.pending # None
    /\ m.port.data = ShiftedData(n.port.data, Head(n.ep.answer))
    /\ m.port.bits = n.port.bits + 1
    /\ m.ep.next = n.ep.next /\ m.ep.response = <<>>
    /\ m.ep.deferred = n.ep.deferred /\ m.ep.served = n.ep.served
    /\ m.ep.reply = n.ep.reply
    /\ \/ /\ Len(n.ep.answer) > 1 /\ Drives(m.port)
          /\ m.ep.answer = Tail(n.ep.answer) /\ m.ep.pending = n.ep.pending
       \/ /\ Len(n.ep.answer) = 1 /\ ~m.port.active /\ m.port.bits = ByteBits
          /\ m.ep.answer = <<>> /\ m.ep.pending = None

LEMMA PrepareOutcomes ==
    ASSUME NEW c \in Consoles, NEW n, Clear(n), Drives(n.port), Shaped(n.port, n.ep)
    PROVE  LET m == PrepareBit(c, n)
           IN  \/ Unmoved(n, m) /\ (n.ep.pending # None => m = n)
               \/ \E r \in Requests : Inquires(n, m, r)
<1> DEFINE m == PrepareBit(c, n)
           e == n.ep
           bits == IF n.port.bits = 0 THEN n.port.data ELSE <<Outgoing(n.port)>>
           request == Packet("request", e.next, bits)
           e1 == [e EXCEPT !.next = e.next + 1]
           e2 == [e1 EXCEPT !.pending = request]
           asking == [e2 EXCEPT !.retries = 0]
           waiting == [e EXCEPT !.backoff = e.backoff - 1]
<1>1. e \in Endpoint /\ n.port \in Port /\ e.next \in Nat /\ n \in Nodes
  BY DEF Clear, Well, Nodes, Endpoint
<1>2. \/ m = n
      \/ e.pending = None /\ e.backoff # 0 /\ m = [n EXCEPT !.ep = waiting]
      \/ e.pending = None /\ m = Send([n EXCEPT !.ep = asking], request)
  <2>1. [n EXCEPT !.ep.backoff = @ - 1] = [n EXCEPT !.ep = waiting]
    BY <1>1 DEF Nodes
  <2>2. [e EXCEPT !.next = @ + 1, !.pending = request, !.retries = 0] = asking
    BY <1>1 DEF Endpoint
  <2> HIDE DEF waiting, asking
  <2> QED
    BY <2>1, <2>2 DEF PrepareBit, request
<1>3. CASE m = n
  BY <1>3 DEF Unmoved, SameCore
<1>4. CASE e.backoff # 0 /\ e.pending = None /\ m = [n EXCEPT !.ep = waiting]
  <2>1. e.backoff - 1 \in Nat
    BY <1>1, <1>4 DEF Endpoint
  <2>2. waiting \in Endpoint /\ SameCore(e, waiting)
    <3> DEFINE x == e.backoff - 1
    <3> HIDE DEF x, e
    <3>1. [e EXCEPT !.backoff = x] \in Endpoint /\ SameCore(e, [e EXCEPT !.backoff = x])
      BY <1>1, <2>1, BackoffField, OtherFields DEF x
    <3> QED
      BY <3>1 DEF x
  <2> HIDE DEF waiting, m
  <2> QED
    BY <1>4, <2>2, WithEndpoint DEF Unmoved, m
<1>5. CASE e.pending = None /\ m = Send([n EXCEPT !.ep = asking], request)
  <2>1. e.answer = <<>> /\ n.port.bits = 0
    BY <1>5 DEF Shaped, Drives
  <2>2. bits = n.port.data /\ n.port.data \in BitSeq
    BY <1>1, <2>1, OutgoingBit
  <2>3. request \in Requests /\ request.seq = e.next /\ request.bits = n.port.data
    BY <1>1, <2>2, ReplyIsHarmless DEF Packet
  <2> HIDE DEF request, e
  <2> DEFINE x == e.next + 1
  <2>4. x \in Nat
    BY <1>1
  <2>5. e1 = [e EXCEPT !.next = x]
    OBVIOUS
  <2> HIDE DEF x, e1
  <2>6. /\ e1 \in Endpoint /\ e1.next = x /\ e1.pending = e.pending
        /\ e1.answer = e.answer /\ e1.response = e.response
        /\ e1.deferred = e.deferred /\ e1.served = e.served /\ e1.reply = e.reply
    BY <1>1, <2>4, <2>5, NextField, NextAlone
  <2>7. /\ e2 \in Endpoint /\ e2.next = e1.next /\ e2.pending = request
        /\ e2.answer = e1.answer /\ e2.response = e1.response
        /\ e2.deferred = e1.deferred /\ e2.served = e1.served /\ e2.reply = e1.reply
    BY <2>3, <2>6, PendingField, PendingAlone
  <2> HIDE DEF e2
  <2>8. asking \in Endpoint /\ SameCore(e2, asking)
    BY <2>7, RetriesField, OtherFields
  <2> HIDE DEF asking
  <2> DEFINE o == [n EXCEPT !.ep = asking]
  <2>9. Clear(o) /\ o.ep = asking /\ o.port = n.port
    BY <2>8, WithEndpoint
  <2>10. m = Send(o, request)
    BY <1>5
  <2> HIDE DEF o, m
  <2>11. request \in Packets /\ request \in Calls
    BY <2>3 DEF Packets, Calls
  <2>12. /\ Well(m) /\ m.port = o.port /\ m.ep = o.ep /\ m.fault = None
         /\ Says(m.out, request)
    BY <2>9, <2>10, <2>11, SendClear
  <2>13. m.ep.next = e.next + 1 /\ m.ep.pending = request /\ m.ep.answer = e.answer
         /\ m.ep.response = e.response /\ m.ep.deferred = e.deferred
         /\ m.ep.served = e.served /\ m.ep.reply = e.reply
    BY <2>6, <2>7, <2>8, <2>9, <2>12 DEF SameCore, x
  <2>14. Inquires(n, m, request)
    BY <1>5, <2>1, <2>3, <2>9, <2>12, <2>13 DEF Inquires, e
  <2> QED
    BY <2>3, <2>14 DEF m
<1> QED
  BY <1>2, <1>3, <1>4, <1>5

LEMMA ConsumeOutcomes ==
    ASSUME NEW e \in Endpoint, e.response = <<>>, e.answer # <<>>
    PROVE  LET f == Consume(e)
           IN  /\ f \in Endpoint /\ Incoming(e) = Head(e.answer)
               /\ f.next = e.next /\ f.response = <<>>
               /\ f.deferred = e.deferred /\ f.served = e.served /\ f.reply = e.reply
               /\ \/ /\ Len(e.answer) > 1 /\ f.answer = Tail(e.answer)
                     /\ f.pending = e.pending
                  \/ Len(e.answer) = 1 /\ f.answer = <<>> /\ f.pending = None
<1>1. Consume(e) \in Endpoint /\ Incoming(e) = Head(e.answer)
  BY ConsumeType DEF Incoming
<1>2. e.answer \in BitSeq /\ Len(e.answer) \in Nat /\ Len(e.answer) # 0
  BY BitSeqFacts DEF Endpoint
<1>3. CASE Len(e.answer) > 1
  <2> DEFINE x == Tail(e.answer)
             f == [e EXCEPT !.answer = x]
  <2>1. Consume(e) = f
    BY <1>3 DEF Consume
  <2> HIDE DEF x
  <2>2. /\ f.answer = x /\ f.next = e.next /\ f.response = e.response
        /\ f.deferred = e.deferred /\ f.served = e.served /\ f.reply = e.reply
        /\ f.pending = e.pending
    BY AnswerAlone
  <2> HIDE DEF f
  <2> QED
    BY <1>1, <1>3, <2>1, <2>2 DEF x
<1>4. CASE ~(Len(e.answer) > 1)
  <2> DEFINE last == IF e.pending = None THEN None ELSE e.pending.seq
             h1 == [e EXCEPT !.pending = None]
             h == [h1 EXCEPT !.retries = 0]
             g == [h EXCEPT !.completed = last]
             f == [g EXCEPT !.answer = <<>>]
  <2>1. Consume(e) = f
    <3>1. h = Forget(e)
      BY DEF Endpoint, Forget
    <3> HIDE DEF h
    <3>2. g = Settle(e)
      BY <3>1 DEF Settle
    <3> HIDE DEF g
    <3> QED
      BY <1>4, <3>2 DEF Consume
  <2>2. h1 \in Endpoint /\ h1.pending = None
        /\ h1.answer = e.answer /\ h1.next = e.next /\ h1.response = e.response
        /\ h1.deferred = e.deferred /\ h1.served = e.served /\ h1.reply = e.reply
    BY PendingField, PendingAlone
  <2> HIDE DEF h1
  <2>3. h \in Endpoint /\ SameCore(h1, h)
    BY <2>2, RetriesField, OtherFields
  <2> HIDE DEF h
  <2>4. last \in Nat \cup {None}
    BY DEF Endpoint, Requests
  <2> HIDE DEF last
  <2>5. g \in Endpoint /\ SameCore(h, g)
    BY <2>3, <2>4, CompletedField, OtherFields
  <2> HIDE DEF g
  <2>6. /\ f.answer = <<>> /\ f.next = g.next /\ f.response = g.response
        /\ f.deferred = g.deferred /\ f.served = g.served /\ f.reply = g.reply
        /\ f.pending = g.pending
    BY <2>5, AnswerAlone
  <2> HIDE DEF f
  <2>7. Len(e.answer) = 1
    <3>1. \A l \in Nat : l # 0 /\ ~(l > 1) => l = 1
      OBVIOUS
    <3> QED
      BY <1>2, <1>4, <3>1, Zenon
  <2> QED
    BY <1>1, <2>1, <2>2, <2>3, <2>5, <2>6, <2>7 DEF SameCore
<1> QED
  BY <1>3, <1>4

LEMMA EdgeOutcomes ==
    ASSUME NEW c \in Consoles, NEW n, Clear(n), Drives(n.port), Shaped(n.port, n.ep)
    PROVE  LET m == ClockEdge(c, n)
           IN  \/ Unmoved(n, m)
               \/ \E r \in Requests : Inquires(n, m, r)
               \/ Shifts(n, m)
<1> DEFINE asked == PrepareBit(c, n)
           p == Shift(asked.port, Incoming(asked.ep))
           e == Consume(asked.ep)
           moved == [asked EXCEPT !.port = p, !.ep = e]
<1>1. \/ Unmoved(n, asked) /\ (n.ep.pending # None => asked = n)
      \/ \E r \in Requests : Inquires(n, asked, r)
  BY PrepareOutcomes
<1>2. ClockEdge(c, n) = IF ~AnswerReady(asked) THEN asked
                        ELSE IF moved.port.active THEN moved ELSE ReleaseClock(moved)
  BY DEF ClockEdge
<1> HIDE DEF asked
<1>3. CASE ~AnswerReady(asked)
  BY <1>1, <1>2, <1>3
<1>4. CASE AnswerReady(asked)
  <2>1. n.ep.answer # <<>> /\ n.ep.pending # None /\ n.ep.response = <<>>
    BY <1>1, <1>4 DEF AnswerReady, Shaped, Unmoved, Inquires, SameCore
  <2>2. asked = n
    BY <1>1, <2>1 DEF Inquires
  <2>3. n.ep \in Endpoint /\ n.port \in Port /\ Sound(n.port) /\ n.port.active
    BY DEF Clear, Well, Nodes, Drives
  <2>4. /\ e \in Endpoint /\ Incoming(n.ep) = Head(n.ep.answer)
        /\ e.next = n.ep.next /\ e.response = <<>>
        /\ e.deferred = n.ep.deferred /\ e.served = n.ep.served /\ e.reply = n.ep.reply
        /\ \/ /\ Len(n.ep.answer) > 1 /\ e.answer = Tail(n.ep.answer)
              /\ e.pending = n.ep.pending
           \/ Len(n.ep.answer) = 1 /\ e.answer = <<>> /\ e.pending = None
    BY <2>1, <2>2, <2>3, ConsumeOutcomes
  <2>5. Head(n.ep.answer) \in Bit
    <3>1. n.ep.answer \in BitSeq
      BY <2>3 DEF Endpoint
    <3> QED
      BY <2>1, <3>1, BitSeqFacts
  <2>6. /\ Sound(p) /\ p.bits = n.port.bits + 1
        /\ p.active = (n.port.bits + 1 # ByteBits) /\ p.internal = n.port.internal
        /\ p.data = ShiftedData(n.port.data, Head(n.ep.answer))
    <3> DEFINE b == Head(n.ep.answer)
    <3>1. p = Shift(n.port, b)
      BY <2>2, <2>4
    <3> HIDE DEF b, p
    <3> QED
      BY <2>3, <2>5, <3>1, ShiftSound DEF b
  <2> HIDE DEF p, e
  <2>7. Clear(moved) /\ moved.port = p /\ moved.ep = e
    <3>1. n \in Nodes /\ Mute(n.out) /\ n.fault = None
      BY DEF Clear, Well
    <3>2. p \in Port
      BY <2>6 DEF Sound
    <3>3. /\ moved \in Nodes /\ moved.port = p /\ moved.ep = e /\ moved.out = n.out
          /\ moved.fault = n.fault
      BY <2>2, <2>4, <3>1, <3>2 DEF Nodes
    <3> HIDE DEF moved
    <3> QED
      BY <2>6, <3>1, <3>3 DEF Clear, Well
  <2> HIDE DEF moved
  <2>8. n.port.bits \in Nat /\ n.port.bits + Len(n.ep.answer) = ByteBits
        /\ Len(n.ep.answer) \in Nat /\ ByteBits \in Nat
    <3>1. n.ep.answer \in BitSeq /\ n.port.bits \in Nat
      BY <2>3 DEF Endpoint, Port
    <3> QED
      BY <2>1, <3>1, BitSeqFacts, PortAssumption DEF Shaped
  <2>9. CASE Len(n.ep.answer) > 1
    <3>1. n.port.bits + 1 # ByteBits /\ Len(n.ep.answer) # 1
      <4>1. \A l, b, w \in Nat : b + l = w /\ l > 1 => b + 1 # w /\ l # 1
        OBVIOUS
      <4> QED
        BY <2>8, <2>9, <4>1, Zenon
    <3>2. p.active = TRUE
      BY <2>6, <3>1
    <3>3. ClockEdge(c, n) = moved
      BY <1>2, <1>4, <2>7, <3>2
    <3>4. Drives(p)
      BY <2>6, <3>2 DEF Drives
    <3>5. Shifts(n, moved)
      BY <2>1, <2>4, <2>6, <2>7, <2>9, <3>1, <3>4 DEF Shifts
    <3> QED
      BY <3>3, <3>5
  <2>10. CASE Len(n.ep.answer) = 1
    <3>1. n.port.bits + 1 = ByteBits /\ ~(Len(n.ep.answer) > 1)
      <4>1. \A l, b, w \in Nat : b + l = w /\ l = 1 => b + 1 = w /\ ~(l > 1)
        OBVIOUS
      <4> QED
        BY <2>8, <2>10, <4>1, Zenon
    <3>2. p.active = FALSE
      BY <2>6, <3>1
    <3>3. ClockEdge(c, n) = ReleaseClock(moved)
      BY <1>2, <1>4, <2>7, <3>2
    <3>4. e.answer = <<>> /\ e.pending = None /\ e.response = <<>>
      BY <2>4, <3>1
    <3>5. /\ Clear(ReleaseClock(moved)) /\ SameCore(e, ReleaseClock(moved).ep)
          /\ ReleaseClock(moved).port = p
      <4>1. ~AnswerReady(moved)
        BY <2>7, <3>4 DEF AnswerReady
      <4> QED
        BY <2>7, <3>2, <3>4, <4>1, ReleaseDone
    <3>6. Shifts(n, ReleaseClock(moved))
      BY <2>1, <2>4, <2>6, <2>10, <3>1, <3>2, <3>4, <3>5 DEF Shifts, SameCore
    <3> QED
      BY <3>3, <3>6
  <2> QED
    BY <2>4, <2>9, <2>10
<1> QED
  BY <1>3, <1>4

-----------------------------------------------------------------------------
(* A following port at the start of its byte that is clocked by a whole    *)
(* request holds its bits, has given as many, and is idle.                 *)
BitAt(data, bits, k) == IF k <= ByteBits THEN data[k] ELSE bits[k - ByteBits]

Passed(data, bits, m) == [i \in 1..ByteBits |-> BitAt(data, bits, i + m)]

LEMMA PassedNext ==
    ASSUME NEW data \in Byte, NEW bits, NEW m \in Nat, m < ByteBits
    PROVE  ShiftedData(Passed(data, bits, m), bits[m + 1]) = Passed(data, bits, m + 1)
<1>1. ByteBits \in Nat
  BY PortAssumption
<1>2. ASSUME NEW i \in 1..ByteBits
      PROVE  ShiftedData(Passed(data, bits, m), bits[m + 1])[i] = Passed(data, bits, m + 1)[i]
  <2>1. Passed(data, bits, m + 1)[i] = BitAt(data, bits, i + (m + 1))
    BY DEF Passed
  <2>2. CASE i = ByteBits
    <3>1. ~(i + (m + 1) <= ByteBits) /\ (i + (m + 1)) - ByteBits = m + 1
      BY <1>1, <2>2
    <3>2. BitAt(data, bits, i + (m + 1)) = bits[m + 1]
      BY <3>1, Zenon DEF BitAt
    <3> QED
      BY <2>1, <2>2, <3>2 DEF ShiftedData
  <2>3. CASE i # ByteBits
    <3>1. i + 1 \in 1..ByteBits /\ (i + 1) + m = i + (m + 1)
      BY <1>1, <2>3
    <3>2. ShiftedData(Passed(data, bits, m), bits[m + 1])[i] = Passed(data, bits, m)[i + 1]
      BY <2>3 DEF ShiftedData
    <3>3. Passed(data, bits, m)[i + 1] = BitAt(data, bits, (i + 1) + m)
      <4>1. \A j \in 1..ByteBits : Passed(data, bits, m)[j] = BitAt(data, bits, j + m)
        BY DEF Passed
      <4> QED
        BY <3>1, <4>1, Zenon
    <3>4. BitAt(data, bits, (i + 1) + m) = BitAt(data, bits, i + (m + 1))
      BY <3>1, Zenon
    <3> QED
      BY <2>1, <3>2, <3>3, <3>4, Zenon
  <2> QED
    BY <2>2, <2>3
<1>3. /\ ShiftedData(Passed(data, bits, m), bits[m + 1])
            = [i \in 1..ByteBits |-> ShiftedData(Passed(data, bits, m), bits[m + 1])[i]]
      /\ Passed(data, bits, m + 1) = [i \in 1..ByteBits |-> Passed(data, bits, m + 1)[i]]
  BY DEF ShiftedData, Passed
<1> QED
  BY <1>2, <1>3, Zenon

LEMMA ClockedWhole ==
    ASSUME NEW p \in Port, Sound(p), Follows(p), p.bits = 0,
           NEW bits \in BitSeq, Len(bits) = ByteBits
    PROVE  LET k == ClockedBy(p, bits)
           IN  /\ Sound(k.port) /\ ~k.port.active /\ k.port.bits = ByteBits
               /\ k.port.data = bits /\ k.gave \in BitSeq /\ Len(k.gave) = ByteBits
<1> DEFINE n == Len(bits)
           step == CHOOSE g : IsClocking(g, p, bits, n)
           At(q, m) == /\ q.port \in Port /\ Sound(q.port) /\ q.gave \in BitSeq
                       /\ q.port.bits = m /\ Len(q.gave) = m
                       /\ q.port.active = (m # ByteBits) /\ ~q.port.internal
                       /\ q.port.data = Passed(p.data, bits, m)
           S == {m \in Nat : m <= n => At(step[m], m)}
<1>1. ClockedBy(p, bits) = step[n]
  BY Zenon DEF ClockedBy, IsClocking, OneClock, Untouched
<1>2. n \in Nat /\ n = ByteBits /\ ByteBits # 0 /\ (\A i \in 1..n : bits[i] \in Bit) /\ p.data \in Byte
  BY PortAssumption DEF BitSeq, Port
<1>3. IsClocking(step, p, bits, n)
  BY <1>2, ClockingExists
<1> HIDE DEF step, n
<1>4. 0 \in S
  <2>1. step[0] = Untouched(p)
    BY <1>2, <1>3 DEF IsClocking
  <2>2. Untouched(p).port = p /\ Untouched(p).gave = <<>> /\ <<>> \in BitSeq /\ Len(<<>>) = 0
    BY BitSeqFacts DEF Untouched
  <2>3. p.data = Passed(p.data, bits, 0)
    <3>1. p.data = [i \in 1..ByteBits |-> p.data[i]]
      BY <1>2 DEF Byte
    <3>2. \A i \in 1..ByteBits : i + 0 <= ByteBits /\ i + 0 = i
      BY <1>2
    <3> QED
      BY <3>1, <3>2 DEF Passed, BitAt
  <2>4. p.active = TRUE /\ p.internal = FALSE
    BY DEF Follows, Port
  <2>5. At(step[0], 0)
    BY <1>2, <2>1, <2>2, <2>3, <2>4
  <2> HIDE DEF At
  <2> QED
    BY <2>5
<1>5. ASSUME NEW m \in Nat, m \in S PROVE m + 1 \in S
  <2> SUFFICES ASSUME m + 1 <= n PROVE At(step[m + 1], m + 1)
    OBVIOUS
  <2> DEFINE q == step[m]
             b == bits[m + 1]
             o == step[m + 1]
  <2>1. At(q, m) /\ m < ByteBits /\ m + 1 \in 1..n
    BY <1>2, <1>5
  <2>2. o = OneClock(q, b)
    BY <1>2, <1>3 DEF IsClocking
  <2>3. b \in Bit
    BY <1>2, <2>1
  <2>4. q.port.active /\ ~q.port.internal /\ Follows(q.port)
    <3>1. m # ByteBits
      BY <1>2, <2>1
    <3> HIDE DEF q
    <3> QED
      BY <2>1, <3>1 DEF Follows
  <2> HIDE DEF q, o
  <2>5. Outgoing(q.port) \in Bit
    BY <2>1, OutgoingBit
  <2>6. o.port = Shift(q.port, b) /\ o.gave = Append(q.gave, Outgoing(q.port))
    BY <2>2, <2>4 DEF OneClock
  <2> HIDE DEF b
  <2>7. /\ Sound(o.port) /\ o.port.bits = m + 1
        /\ o.port.active = (m + 1 # ByteBits) /\ o.port.internal = q.port.internal
        /\ o.port.data = ShiftedData(q.port.data, b)
    BY <2>1, <2>3, <2>4, <2>6, ShiftSound
  <2>8. o.gave \in BitSeq /\ Len(o.gave) = m + 1
    <3>1. Len(Append(q.gave, Outgoing(q.port))) = Len(q.gave) + 1
      BY <2>1, <2>5 DEF BitSeq
    <3> QED
      BY <2>1, <2>5, <2>6, <3>1, BitSeqFacts
  <2>9. o.port.data = Passed(p.data, bits, m + 1)
    BY <1>2, <2>1, <2>7, PassedNext DEF b
  <2> QED
    BY <2>4, <2>7, <2>8, <2>9 DEF Sound, o
<1> HIDE DEF S
<1>6. Nat \subseteq S
  BY <1>4, <1>5, InductionOverNat
<1>7. At(step[n], n)
  BY <1>2, <1>6 DEF S
<1>8. Passed(p.data, bits, n) = bits
  <2>1. \A i \in 1..ByteBits : ~(i + n <= ByteBits) /\ (i + n) - ByteBits = i
    BY <1>2
  <2>2. Passed(p.data, bits, n) = [i \in 1..ByteBits |-> bits[i]]
    <3>1. \A i \in 1..ByteBits : BitAt(p.data, bits, i + n) = bits[i]
      BY <2>1 DEF BitAt
    <3>2. Passed(p.data, bits, n) = [i \in 1..ByteBits |-> BitAt(p.data, bits, i + n)]
      BY DEF Passed
    <3> QED
      BY <3>1, <3>2
  <2>3. bits = [i \in 1..ByteBits |-> bits[i]]
    BY <1>2 DEF BitSeq, n
  <2> QED
    BY <2>2, <2>3
<1> QED
  BY <1>1, <1>2, <1>7, <1>8

-----------------------------------------------------------------------------
(* Serving a request. A port that is not armed puts it off, a driving host *)
(* denies it, and any other port is clocked by it, a driving joiner after  *)
(* it has given its own request up.                                        *)
Answering(n, m, q) ==
    /\ Well(m) /\ m.fault = None /\ Says(m.out, m.ep.reply)
    /\ m.ep.reply \in Replies /\ m.ep.reply.seq = q.seq
    /\ m.ep.next = n.ep.next /\ m.ep.answer = n.ep.answer
    /\ m.ep.response = n.ep.response /\ m.ep.served = n.ep.served

PutsOff(n, m, q) ==
    /\ Clear(m) /\ ~n.port.active /\ m.port = n.port
    /\ m.ep.next = n.ep.next /\ m.ep.pending = n.ep.pending
    /\ m.ep.answer = n.ep.answer /\ m.ep.response = n.ep.response
    /\ m.ep.deferred = q /\ m.ep.served = n.ep.served /\ m.ep.reply = n.ep.reply

Declines(n, m, q) ==
    /\ Answering(n, m, q) /\ m.ep.reply.kind \in {"denied", "not_ready"}
    /\ m.ep.reply.bits = q.bits /\ m.port = n.port
    /\ m.ep.pending = n.ep.pending /\ m.ep.deferred = n.ep.deferred

Gives(n, m, q) ==
    /\ Answering(n, m, q) /\ m.ep.reply.kind = "response"
    /\ n.port.active /\ n.port.bits = 0
    /\ ~m.port.active /\ m.port.bits = ByteBits /\ m.port.data = q.bits
    /\ Len(m.ep.reply.bits) = ByteBits /\ m.ep.deferred = n.ep.deferred
    /\ m.ep.pending = IF Drives(n.port) THEN None ELSE n.ep.pending

LEMMA ReplySays ==
    ASSUME NEW n, Clear(n), NEW packet \in Replies
    PROVE  LET m == Reply(n, packet)
           IN  /\ Well(m) /\ m.fault = None /\ m.port = n.port
               /\ Says(m.out, packet) /\ m.ep.reply = packet
               /\ m.ep.next = n.ep.next /\ m.ep.pending = n.ep.pending
               /\ m.ep.answer = n.ep.answer /\ m.ep.response = n.ep.response
               /\ m.ep.deferred = n.ep.deferred /\ m.ep.served = n.ep.served
<1> DEFINE e == [n.ep EXCEPT !.reply = packet]
           o == [n EXCEPT !.ep = e]
<1>1. n.ep \in Endpoint
  BY DEF Clear, Well, Nodes
<1>2. /\ e \in Endpoint /\ e.reply = packet
      /\ e.next = n.ep.next /\ e.pending = n.ep.pending
      /\ e.answer = n.ep.answer /\ e.response = n.ep.response
      /\ e.deferred = n.ep.deferred /\ e.served = n.ep.served
  BY <1>1, ReplyField, ReplyAlone
<1>3. Reply(n, packet) = Send(o, packet)
  BY DEF Reply
<1> HIDE DEF e
<1>4. Clear(o) /\ o.port = n.port /\ o.ep = e
  BY <1>2, WithEndpoint
<1> HIDE DEF o
<1>5. packet \in Packets /\ packet \in Calls
  BY DEF Packets, Harmless, Calls
<1> QED
  BY <1>2, <1>3, <1>4, <1>5, SendClear

LEMMA ClockedGives ==
    ASSUME NEW n, Clear(n), Follows(n.port), n.port.bits = 0,
           NEW q \in Requests, Len(q.bits) = ByteBits
    PROVE  Gives(n, Clocked(n, q), q)
<1> DEFINE k == ClockedBy(n.port, q.bits)
           o == [n EXCEPT !.port = k.port]
           packet == Packet("response", q.seq, k.gave)
           m == Clocked(n, q)
<1>1. /\ n.port \in Port /\ Sound(n.port)
      /\ q.seq \in Nat /\ q.bits \in BitSeq
  BY DEF Clear, Well, Nodes, Requests
<1>2. /\ Sound(k.port) /\ ~k.port.active /\ k.port.bits = ByteBits
      /\ k.port.data = q.bits /\ k.gave \in BitSeq /\ Len(k.gave) = ByteBits
  BY <1>1, ClockedWhole
<1>3. m = Reply(o, packet)
  BY DEF Clocked
<1> HIDE DEF k
<1>4. /\ packet \in Replies /\ packet.seq = q.seq /\ packet.kind = "response"
      /\ packet.bits = k.gave
  BY <1>1, <1>2, ReplyIsHarmless DEF Packet
<1>5. Clear(o) /\ o.ep = n.ep /\ o.port = k.port
  BY <1>2, WithPort
<1> HIDE DEF o, packet, m
<1>6. /\ Well(m) /\ m.fault = None /\ m.port = o.port
      /\ Says(m.out, packet) /\ m.ep.reply = packet
      /\ m.ep.next = o.ep.next /\ m.ep.pending = o.ep.pending
      /\ m.ep.answer = o.ep.answer /\ m.ep.response = o.ep.response
      /\ m.ep.deferred = o.ep.deferred /\ m.ep.served = o.ep.served
  BY <1>3, <1>4, <1>5, ReplySays
<1>7. n.port.active /\ ~Drives(n.port)
  BY DEF Follows, Drives
<1>8. Answering(n, m, q)
  BY <1>4, <1>5, <1>6 DEF Answering
<1>9. Gives(n, m, q)
  BY <1>2, <1>4, <1>5, <1>6, <1>7, <1>8 DEF Gives
<1> QED
  BY <1>9 DEF m

LEMMA YieldPlain ==
    ASSUME NEW c \in Consoles, NEW n, Clear(n), Drives(n.port)
    PROVE  LET m == Yield(c, n)
           IN  /\ Clear(m) /\ Follows(m.port) /\ m.port.bits = n.port.bits
               /\ m.ep.pending = None /\ m.ep.response = <<>>
               /\ m.ep.next = n.ep.next /\ m.ep.answer = n.ep.answer
               /\ m.ep.deferred = n.ep.deferred /\ m.ep.served = n.ep.served
               /\ m.ep.reply = n.ep.reply
<1> DEFINE m == Demote(c, n)
           e1 == [m.ep EXCEPT !.pending = None]
           e == [e1 EXCEPT !.response = <<>>]
<1>1. Clear(m) /\ m.ep = n.ep /\ Follows(m.port) /\ m.port.bits = n.port.bits
  BY DemotePlain
<1>2. Yield(c, n) = [m EXCEPT !.ep = e]
  <2>1. m.ep \in Endpoint /\ m \in Nodes
    BY <1>1 DEF Clear, Well, Nodes
  <2> HIDE DEF m
  <2>2. [m EXCEPT !.ep.pending = None, !.ep.response = <<>>] = [m EXCEPT !.ep = e]
    BY <2>1 DEF Nodes, Endpoint
  <2> QED
    BY <2>2 DEF Yield, m
<1> HIDE DEF m
<1>3. m.ep \in Endpoint
  BY <1>1 DEF Clear, Well, Nodes
<1>4. /\ e1 \in Endpoint /\ e1.pending = None
      /\ e1.next = m.ep.next /\ e1.answer = m.ep.answer
      /\ e1.deferred = m.ep.deferred /\ e1.served = m.ep.served /\ e1.reply = m.ep.reply
  BY <1>3, PendingField, PendingAlone
<1> HIDE DEF e1
<1>5. /\ e \in Endpoint /\ e.pending = e1.pending /\ e.response = <<>>
      /\ e.next = e1.next /\ e.answer = e1.answer
      /\ e.deferred = e1.deferred /\ e.served = e1.served /\ e.reply = e1.reply
  BY <1>4, BitSeqFacts, ResponseField, ResponseAlone
<1> HIDE DEF e
<1>6. LET o == [m EXCEPT !.ep = e] IN Clear(o) /\ o.ep = e /\ o.port = m.port
  BY <1>1, <1>5, WithEndpoint
<1> QED
  BY <1>1, <1>2, <1>4, <1>5, <1>6

LEMMA ServeOutcomes ==
    ASSUME NEW c \in Consoles, NEW n, Clear(n), n.ep.response = <<>>,
           NEW q \in Requests, Len(q.bits) = ByteBits,
           n.port.active /\ ~(n.port.internal /\ c = Host) => n.port.bits = 0
    PROVE  LET m == Serve(c, n, q)
           IN  \/ PutsOff(n, m, q)
               \/ Drives(n.port) /\ c = Host /\ Declines(n, m, q)
               \/ (Drives(n.port) => c = Join) /\ Gives(n, m, q)
<1> DEFINE m == Serve(c, n, q)
<1>1. n.ep \in Endpoint /\ n.port \in Port /\ q.seq \in Nat /\ q.bits \in BitSeq
  BY DEF Clear, Well, Nodes, Requests
<1>2. CASE ~n.port.active
  <2> DEFINE e == [n.ep EXCEPT !.deferred = q]
  <2>1. /\ e \in Endpoint /\ e.deferred = q /\ e.next = n.ep.next
        /\ e.pending = n.ep.pending /\ e.answer = n.ep.answer
        /\ e.response = n.ep.response /\ e.served = n.ep.served /\ e.reply = n.ep.reply
    BY <1>1, DeferredField, DeferredAlone
  <2>2. m = [n EXCEPT !.ep = e]
    BY <1>2 DEF Serve, Clear, Well, Nodes
  <2> HIDE DEF e, m
  <2>3. Clear(m) /\ m.ep = e /\ m.port = n.port
    BY <2>1, <2>2, WithEndpoint
  <2>4. PutsOff(n, m, q)
    BY <1>2, <2>1, <2>3 DEF PutsOff
  <2> QED
    BY <2>4 DEF m
<1>3. CASE n.port.active /\ n.port.internal /\ c = Host
  <2> DEFINE e == [n.ep EXCEPT !.busy = FALSE]
             o == [n EXCEPT !.ep = e]
             packet == Packet("denied", q.seq, q.bits)
  <2>1. e \in Endpoint /\ SameCore(n.ep, e)
    BY <1>1, BusyField, OtherFields
  <2>2. m = Reply(o, packet)
    <3>1. [n EXCEPT !.ep.busy = FALSE] = o
      BY DEF Clear, Well, Nodes
    <3> QED
      BY <1>3, <3>1 DEF Serve
  <2>3. /\ packet \in Replies /\ packet.seq = q.seq /\ packet.kind = "denied"
        /\ packet.bits = q.bits
    BY <1>1, ReplyIsHarmless DEF Packet
  <2> HIDE DEF e, m, packet
  <2>4. Clear(o) /\ o.port = n.port /\ o.ep = e
    BY <2>1, WithEndpoint
  <2> HIDE DEF o
  <2>5. /\ Well(m) /\ m.fault = None /\ m.port = o.port
        /\ Says(m.out, packet) /\ m.ep.reply = packet
        /\ m.ep.next = o.ep.next /\ m.ep.pending = o.ep.pending
        /\ m.ep.answer = o.ep.answer /\ m.ep.response = o.ep.response
        /\ m.ep.deferred = o.ep.deferred /\ m.ep.served = o.ep.served
    BY <2>2, <2>3, <2>4, ReplySays
  <2>6. Declines(n, m, q)
    BY <2>1, <2>3, <2>4, <2>5 DEF Declines, Answering, SameCore
  <2> QED
    BY <1>3, <2>6 DEF m, Drives
<1>4. CASE n.port.active /\ ~n.port.internal
  <2>1. m = Clocked(n, q)
    BY <1>4 DEF Serve
  <2>2. Follows(n.port) /\ n.port.bits = 0 /\ ~Drives(n.port)
    BY <1>4 DEF Follows, Drives
  <2>3. Gives(n, m, q)
    BY <2>1, <2>2, ClockedGives
  <2> QED
    BY <2>2, <2>3
<1>5. CASE n.port.active /\ n.port.internal /\ c # Host
  <2> DEFINE o == Yield(c, n)
  <2>1. m = Clocked(o, q)
    BY <1>5 DEF Serve
  <2>2. Drives(n.port) /\ n.port.bits = 0 /\ c = Join
    BY <1>5 DEF Drives, Consoles
  <2>3. /\ Clear(o) /\ Follows(o.port) /\ o.port.bits = 0
        /\ o.ep.pending = None /\ o.ep.response = <<>>
        /\ o.ep.next = n.ep.next /\ o.ep.answer = n.ep.answer
        /\ o.ep.deferred = n.ep.deferred /\ o.ep.served = n.ep.served
    BY <2>2, YieldPlain
  <2> HIDE DEF o, m
  <2>4. Gives(o, m, q) /\ ~Drives(o.port)
    BY <2>1, <2>3, ClockedGives DEF Drives, Follows
  <2>5. Gives(n, m, q)
    BY <1>5, <2>2, <2>3, <2>4 DEF Gives, Answering
  <2> QED
    BY <2>2, <2>5 DEF m
<1> QED
  BY <1>2, <1>3, <1>4, <1>5

-----------------------------------------------------------------------------
(* A received request: one served before is answered from the cache, one   *)
(* that is not the next is a fault, any other is served.                   *)
Accepted(e, q) ==
    [e EXCEPT !.served = q.seq, !.reply = None, !.seen = TRUE, !.busy = TRUE]

LEMMA AcceptedCore ==
    ASSUME NEW e \in Endpoint, NEW q \in Requests
    PROVE  LET f == Accepted(e, q)
           IN  /\ f \in Endpoint /\ f.served = q.seq /\ f.reply = None
               /\ f.next = e.next /\ f.pending = e.pending /\ f.answer = e.answer
               /\ f.response = e.response /\ f.deferred = e.deferred
<1> DEFINE x == q.seq
           e1 == [e EXCEPT !.served = x]
           e2 == [e1 EXCEPT !.reply = None]
           e3 == [e2 EXCEPT !.seen = TRUE]
           e4 == [e3 EXCEPT !.busy = TRUE]
<1>1. x \in Nat
  BY DEF Requests
<1>2. Accepted(e, q) = e4
  BY DEF Accepted
<1> HIDE DEF x
<1>3. /\ e1 \in Endpoint /\ e1.served = x
      /\ e1.next = e.next /\ e1.pending = e.pending /\ e1.answer = e.answer
      /\ e1.response = e.response /\ e1.deferred = e.deferred /\ e1.reply = e.reply
  BY <1>1, ServedField, ServedAlone
<1> HIDE DEF e1
<1>4. /\ e2 \in Endpoint /\ e2.reply = None
      /\ e2.next = e1.next /\ e2.pending = e1.pending /\ e2.answer = e1.answer
      /\ e2.response = e1.response /\ e2.deferred = e1.deferred /\ e2.served = e1.served
  BY <1>3, ReplyField, ReplyAlone
<1> HIDE DEF e2
<1>5. e3 \in Endpoint /\ SameCore(e2, e3)
  BY <1>4, SeenField, OtherFields
<1> HIDE DEF e3
<1>6. e4 \in Endpoint /\ SameCore(e3, e4)
  BY <1>5, BusyField, OtherFields
<1> HIDE DEF e4
<1> QED
  BY <1>2, <1>3, <1>4, <1>5, <1>6 DEF SameCore, x

Repeats(n, m, q) ==
    /\ n.ep.served = q.seq /\ n.ep.reply # None
    /\ Well(m) /\ m.fault = None /\ m.port = n.port /\ m.ep = n.ep
    /\ Says(m.out, n.ep.reply)

LEMMA RequestOutcomes ==
    ASSUME NEW c \in Consoles, NEW n, Clear(n), n.ep.response = <<>>, n.ep.deferred = None,
           NEW q \in Requests, Len(q.bits) = ByteBits,
           n.port.active /\ ~(n.port.internal /\ c = Host) => n.port.bits = 0
    PROVE  LET m == ReceiveRequest(c, n, q)
               a == [n EXCEPT !.ep = Accepted(n.ep, q)]
           IN  \/ n.ep.served = q.seq /\ m = n
               \/ Repeats(n, m, q)
               \/ /\ n.ep.served # None /\ q.seq # n.ep.served + 1 /\ n.ep.served # q.seq
                  /\ m = [n EXCEPT !.fault = "out of order"]
               \/ /\ n.ep.served # q.seq
                  /\ n.ep.served = None \/ q.seq = n.ep.served + 1
                  /\ Clear(a) /\ a.ep = Accepted(n.ep, q) /\ a.port = n.port
                  /\ \/ PutsOff(a, m, q)
                     \/ Drives(n.port) /\ c = Host /\ Declines(a, m, q)
                     \/ (Drives(n.port) => c = Join) /\ Gives(a, m, q)
<1> DEFINE e == n.ep
           m == ReceiveRequest(c, n, q)
           a == [n EXCEPT !.ep = Accepted(n.ep, q)]
<1>1. e \in Endpoint
  BY DEF Clear, Well, Nodes
<1>2. m = IF e.served = q.seq THEN IF e.reply = None THEN n ELSE Send(n, e.reply)
          ELSE IF e.served # None /\ q.seq # e.served + 1
            THEN [n EXCEPT !.fault = "out of order"]
          ELSE Serve(c, a, q)
  BY DEF ReceiveRequest, Accepted
<1>3. CASE e.served = q.seq /\ e.reply = None
  BY <1>2, <1>3
<1>4. CASE e.served = q.seq /\ e.reply # None
  <2>1. e.reply \in Packets /\ e.reply \in Calls
    BY <1>1, <1>4 DEF Endpoint, Packets, Harmless, Calls
  <2>2. m = Send(n, e.reply)
    BY <1>2, <1>4
  <2> HIDE DEF m
  <2>3. Repeats(n, m, q)
    BY <1>4, <2>1, <2>2, SendClear DEF Repeats
  <2> QED
    BY <2>3 DEF m
<1>5. CASE e.served # q.seq /\ e.served # None /\ q.seq # e.served + 1
  BY <1>2, <1>5
<1>6. CASE e.served # q.seq /\ ~(e.served # None /\ q.seq # e.served + 1)
  <2>1. m = Serve(c, a, q)
    BY <1>2, <1>6
  <2> DEFINE f == Accepted(e, q)
  <2>2. f \in Endpoint /\ f.response = e.response
    BY <1>1, AcceptedCore
  <2> HIDE DEF f
  <2>3. Clear(a) /\ a.ep = f /\ a.port = n.port
    BY <2>2, WithEndpoint DEF f
  <2> HIDE DEF a, m
  <2>4. \/ PutsOff(a, m, q)
        \/ Drives(a.port) /\ c = Host /\ Declines(a, m, q)
        \/ (Drives(a.port) => c = Join) /\ Gives(a, m, q)
    BY <2>1, <2>2, <2>3, ServeOutcomes
  <2> QED
    BY <1>6, <2>3, <2>4 DEF a, m, f
<1> QED
  BY <1>3, <1>4, <1>5, <1>6

-----------------------------------------------------------------------------
(* A received reply: refused, the request is given up and a denied driver  *)
(* gives up the clock; answered, its bits are kept.                        *)
Refused(n, m) ==
    /\ Clear(m) /\ m.ep.next = n.ep.next /\ m.ep.pending = None
    /\ m.ep.answer = <<>> /\ m.ep.response = <<>>
    /\ m.ep.deferred = n.ep.deferred /\ m.ep.served = n.ep.served
    /\ m.ep.reply = n.ep.reply
    /\ m.port.bits = n.port.bits
    /\ m.port = n.port \/ Follows(m.port)

Answered(n, m, q) ==
    /\ Clear(m) /\ m.port = n.port
    /\ m.ep.next = n.ep.next /\ m.ep.pending = n.ep.pending
    /\ m.ep.answer = q.bits /\ m.ep.response = n.ep.response
    /\ m.ep.deferred = n.ep.deferred /\ m.ep.served = n.ep.served
    /\ m.ep.reply = n.ep.reply

LEMMA ForgetCore ==
    ASSUME NEW e \in Endpoint
    PROVE  LET f == Forget(e)
           IN  /\ f \in Endpoint /\ f.pending = None
               /\ f.next = e.next /\ f.answer = e.answer /\ f.response = e.response
               /\ f.deferred = e.deferred /\ f.served = e.served /\ f.reply = e.reply
<1> DEFINE h1 == [e EXCEPT !.pending = None]
           h == [h1 EXCEPT !.retries = 0]
<1>1. /\ h1 \in Endpoint /\ h1.pending = None
      /\ h1.next = e.next /\ h1.answer = e.answer /\ h1.response = e.response
      /\ h1.deferred = e.deferred /\ h1.served = e.served /\ h1.reply = e.reply
  BY PendingField, PendingAlone
<1>2. Forget(e) = h
  BY DEF Forget
<1> HIDE DEF h1
<1>3. h \in Endpoint /\ SameCore(h1, h)
  BY <1>1, RetriesField, OtherFields
<1> HIDE DEF h
<1> QED
  BY <1>1, <1>2, <1>3 DEF SameCore

LEMMA ReplyOutcomes ==
    ASSUME NEW c \in Consoles, NEW n, Clear(n), NEW q \in Replies,
           n.ep.response = <<>>,
           n.ep.pending # None => Len(n.ep.pending.bits) = ByteBits,
           Len(q.bits) = ByteBits
    PROVE  LET m == ReceiveReply(c, n, q)
           IN  \/ (n.ep.pending = None \/ q.seq # n.ep.pending.seq) /\ m = n
               \/ /\ n.ep.pending # None /\ q.seq = n.ep.pending.seq
                  /\ \/ q.kind = "response" /\ Answered(n, m, q)
                     \/ /\ q.kind # "response"
                        /\ n.ep.answer = <<>> => Refused(n, m)
<1> DEFINE e == n.ep
           m == ReceiveReply(c, n, q)
           d == IF Drives(n.port) THEN Demote(c, n) ELSE n
           f == Forget(d.ep)
           f1 == [f EXCEPT !.response = <<>>]
           f2 == [f1 EXCEPT !.answer = <<>>]
           f3 == [f2 EXCEPT !.backoff = Backoff]
           g == Forget(e)
           g1 == [g EXCEPT !.response = <<>>]
           g2 == [g1 EXCEPT !.backoff = Backoff]
<1>1. e \in Endpoint /\ n \in Nodes /\ Backoff \in Nat
  BY EndpointAssumption DEF Clear, Well, Nodes
<1>2. q.kind \in {"response", "denied", "not_ready"} /\ q.bits \in BitSeq
  BY DEF Replies
<1>3. CASE e.pending = None \/ q.seq # e.pending.seq
  BY <1>3 DEF ReceiveReply
<1>4. ASSUME e.pending # None, q.seq = e.pending.seq
      PROVE  /\ q.kind = "denied" => m = [d EXCEPT !.ep = f3]
             /\ q.kind = "not_ready" => m = [n EXCEPT !.ep = g2]
             /\ q.kind = "response" => m = [n EXCEPT !.ep = [n.ep EXCEPT !.answer = q.bits]]
  <2>1. Len(q.bits) = Len(e.pending.bits) /\ Len(q.bits) > 1
    BY <1>4, EndpointAssumption
  <2>2. [Forget(d.ep) EXCEPT !.response = <<>>, !.answer = <<>>, !.backoff = Backoff] = f3
    OBVIOUS
  <2>3. [Forget(e) EXCEPT !.response = <<>>, !.backoff = Backoff] = g2
    OBVIOUS
  <2>4. [n EXCEPT !.ep.answer = q.bits] = [n EXCEPT !.ep = [n.ep EXCEPT !.answer = q.bits]]
    BY <1>1 DEF Nodes
  <2> HIDE DEF f3, g2
  <2> QED
    BY <1>4, <2>1, <2>2, <2>3, <2>4 DEF ReceiveReply
<1>5. CASE e.pending # None /\ q.seq = e.pending.seq /\ q.kind = "response"
  <2> DEFINE h == [n.ep EXCEPT !.answer = q.bits]
  <2>1. /\ h \in Endpoint /\ h.answer = q.bits
        /\ h.next = e.next /\ h.pending = e.pending /\ h.response = e.response
        /\ h.deferred = e.deferred /\ h.served = e.served /\ h.reply = e.reply
    BY <1>1, <1>2, AnswerField, AnswerAlone
  <2>2. m = [n EXCEPT !.ep = h]
    BY <1>4, <1>5
  <2> HIDE DEF h, m
  <2>3. Clear(m) /\ m.ep = h /\ m.port = n.port
    BY <2>1, <2>2, WithEndpoint
  <2>4. Answered(n, m, q)
    BY <2>1, <2>3 DEF Answered
  <2> QED
    BY <1>5, <2>4 DEF m
<1>6. CASE e.pending # None /\ q.seq = e.pending.seq /\ q.kind = "denied"
  <2>1. /\ Clear(d) /\ d.ep = e /\ d.port.bits = n.port.bits
        /\ d.port = n.port \/ Follows(d.port)
    BY DemotePlain
  <2>2. m = [d EXCEPT !.ep = f3]
    BY <1>4, <1>6
  <2> HIDE DEF d
  <2>3. /\ f \in Endpoint /\ f.pending = None
        /\ f.next = e.next /\ f.answer = e.answer /\ f.response = e.response
        /\ f.deferred = e.deferred /\ f.served = e.served /\ f.reply = e.reply
    BY <1>1, <2>1, ForgetCore
  <2> HIDE DEF f
  <2>4. /\ f1 \in Endpoint /\ f1.response = <<>>
        /\ f1.next = f.next /\ f1.answer = f.answer /\ f1.pending = f.pending
        /\ f1.deferred = f.deferred /\ f1.served = f.served /\ f1.reply = f.reply
    BY <2>3, BitSeqFacts, ResponseField, ResponseAlone
  <2> HIDE DEF f1
  <2>5. /\ f2 \in Endpoint /\ f2.answer = <<>>
        /\ f2.next = f1.next /\ f2.response = f1.response /\ f2.pending = f1.pending
        /\ f2.deferred = f1.deferred /\ f2.served = f1.served /\ f2.reply = f1.reply
    BY <2>4, BitSeqFacts, AnswerField, AnswerAlone
  <2> HIDE DEF f2
  <2>6. f3 \in Endpoint /\ SameCore(f2, f3)
    BY <1>1, <2>5, BackoffField, OtherFields
  <2> HIDE DEF f3, m
  <2>7. Clear(m) /\ m.ep = f3 /\ m.port = d.port
    BY <2>1, <2>2, <2>6, WithEndpoint
  <2>8. Refused(n, m)
    BY <2>1, <2>3, <2>4, <2>5, <2>6, <2>7 DEF Refused, SameCore
  <2> QED
    BY <1>6, <2>8 DEF m
<1>7. CASE e.pending # None /\ q.seq = e.pending.seq /\ q.kind = "not_ready"
  <2>1. m = [n EXCEPT !.ep = g2]
    BY <1>4, <1>7
  <2>2. /\ g \in Endpoint /\ g.pending = None
        /\ g.next = e.next /\ g.answer = e.answer /\ g.response = e.response
        /\ g.deferred = e.deferred /\ g.served = e.served /\ g.reply = e.reply
    BY <1>1, ForgetCore
  <2> HIDE DEF g
  <2>3. /\ g1 \in Endpoint /\ g1.response = <<>>
        /\ g1.next = g.next /\ g1.answer = g.answer /\ g1.pending = g.pending
        /\ g1.deferred = g.deferred /\ g1.served = g.served /\ g1.reply = g.reply
    BY <2>2, BitSeqFacts, ResponseField, ResponseAlone
  <2> HIDE DEF g1
  <2>4. g2 \in Endpoint /\ SameCore(g1, g2)
    BY <1>1, <2>3, BackoffField, OtherFields
  <2> HIDE DEF g2, m
  <2>5. Clear(m) /\ m.ep = g2 /\ m.port = n.port
    BY <2>1, <2>4, WithEndpoint
  <2>6. e.answer = <<>> => Refused(n, m)
    BY <2>2, <2>3, <2>4, <2>5 DEF Refused, SameCore
  <2> QED
    BY <1>7, <2>6 DEF m
<1> QED
  BY <1>2, <1>3, <1>5, <1>6, <1>7

-----------------------------------------------------------------------------
(* The other packets: a reset that was not seen before forgets all of the  *)
(* transfer, anything else leaves it alone.                                *)
Blank(e) ==
    /\ e.pending = None /\ e.answer = <<>> /\ e.response = <<>>
    /\ e.deferred = None /\ e.served = None /\ e.reply = None

Forgotten(n, m) ==
    Clear(m) /\ m.ep.next = n.ep.next /\ Blank(m.ep) /\ m.port = n.port

LEMMA AbandonBlank ==
    ASSUME NEW e \in Endpoint
    PROVE  Abandon(e) \in Endpoint /\ Abandon(e).next = e.next /\ Blank(Abandon(e))
<1> DEFINE a == Attached
<1>1. a \in Endpoint /\ Blank(a)
  BY AttachedType DEF Attached, Blank
<1>2. Abandon(e) = [a EXCEPT !.next = e.next, !.control = e.control,
                             !.completed = e.completed, !.reset = e.reset,
                             !.reset_retries = e.reset_retries,
                             !.peer_reset = e.peer_reset]
  BY DEF Abandon
<1> HIDE DEF a
<1>3. /\ Abandon(e).answer = a.answer /\ Abandon(e).response = a.response
      /\ Abandon(e).reply = a.reply
  BY <1>1, <1>2 DEF Endpoint
<1> QED
  BY <1>1, <1>3, AbandonType DEF Blank

LEMMA UnmovedItself ==
    ASSUME NEW n, Clear(n)
    PROVE  Unmoved(n, n)
BY DEF Unmoved, SameCore

LEMMA UnmovedField ==
    ASSUME NEW n, Clear(n), NEW e \in Endpoint, SameCore(n.ep, e)
    PROVE  Unmoved(n, [n EXCEPT !.ep = e])
BY WithEndpoint DEF Unmoved

LEMMA UnmovedSend ==
    ASSUME NEW n, NEW m, Unmoved(n, m), NEW p \in Packets \ Calls
    PROVE  Unmoved(n, Send(m, p))
<1>1. Clear(m)
  BY DEF Unmoved
<1> QED
  BY <1>1, SendClear DEF Unmoved

LEMMA ResetOutcomes ==
    ASSUME NEW n, Clear(n), NEW q \in Resets
    PROVE  LET m == ReceiveReset(n, q)
           IN  \/ Unmoved(n, m)
               \/ /\ n.ep.peer_reset = None \/ q.seq > n.ep.peer_reset
                  /\ Forgotten(n, m)
<1> DEFINE stale == IF n.ep.peer_reset = None THEN FALSE ELSE q.seq <= n.ep.peer_reset
           a == Abandon(n.ep)
           e == [a EXCEPT !.peer_reset = q.seq]
           o == [n EXCEPT !.ep = e]
           ack == Packet("reset_ack", q.seq, <<>>)
           m == ReceiveReset(n, q)
<1>1. /\ n.ep \in Endpoint /\ q.seq \in Nat /\ n.ep.peer_reset \in Nat \cup {None}
      /\ None \notin Nat
  BY EndpointAssumption DEF Clear, Well, Nodes, Resets, Endpoint
<1>2. ack \in Packets \ Calls
  BY <1>1, PlainPackets
<1>3. m = Send(IF stale THEN n ELSE o, ack)
  BY DEF ReceiveReset
<1> HIDE DEF ack, m
<1>4. CASE stale
  <2>1. Unmoved(n, m)
    BY <1>2, <1>3, <1>4, UnmovedItself, UnmovedSend
  <2> QED
    BY <2>1 DEF m
<1>5. CASE ~stale
  <2>1. a \in Endpoint /\ a.next = n.ep.next /\ Blank(a)
    BY <1>1, AbandonBlank
  <2> HIDE DEF a
  <2>2. e \in Endpoint /\ SameCore(a, e)
    BY <1>1, <2>1, PeerResetField, OtherFields
  <2> HIDE DEF e
  <2>3. Clear(o) /\ o.ep = e /\ o.port = n.port
    BY <2>2, WithEndpoint
  <2>4. n.ep.peer_reset = None \/ q.seq > n.ep.peer_reset
    BY <1>1, <1>5
  <2> HIDE DEF o, stale
  <2>5. Clear(m) /\ m.port = o.port /\ m.ep = o.ep
    BY <1>2, <1>3, <1>5, <2>3, SendClear
  <2>6. Forgotten(n, m)
    BY <2>1, <2>2, <2>3, <2>5 DEF Forgotten, SameCore, Blank
  <2> QED
    BY <2>4, <2>6 DEF m
<1> QED
  BY <1>4, <1>5

LEMMA OtherOutcomes ==
    ASSUME NEW c \in Consoles, NEW n, Clear(n), NEW q \in Packets \ Calls
    PROVE  LET m == Receive(c, n, q)
           IN  \/ Unmoved(n, m)
               \/ /\ q \in Resets
                  /\ n.ep.peer_reset = None \/ q.seq > n.ep.peer_reset
                  /\ Forgotten(n, m)
<1>1. n.ep \in Endpoint /\ n \in Nodes
  BY DEF Clear, Well, Nodes
<1>2. Unmoved(n, n)
  BY UnmovedItself
<1>3. CASE q \in Resets
  <2>1. Receive(c, n, q) = ReceiveReset(n, q)
    BY <1>3 DEF Receive, Resets
  <2> QED
    BY <1>3, <2>1, ResetOutcomes
<1>4. CASE q \in Acks
  <2> DEFINE e0 == [n.ep EXCEPT !.reset = None]
             e == [e0 EXCEPT !.reset_retries = 0]
             m == [n EXCEPT !.ep = e]
  <2>1. Receive(c, n, q) = IF q.seq = n.ep.reset THEN m ELSE n
    BY <1>1, <1>4 DEF Receive, Acks, Nodes
  <2>2. e0 \in Endpoint /\ SameCore(n.ep, e0)
    BY <1>1, ResetField, OtherFields
  <2> HIDE DEF e0
  <2>3. e \in Endpoint /\ SameCore(e0, e)
    BY <2>2, ResetRetriesField, OtherFields
  <2> HIDE DEF e
  <2>4. SameCore(n.ep, e)
    BY <2>2, <2>3, SameCoreChain
  <2>5. Unmoved(n, m)
    BY <2>3, <2>4, UnmovedField
  <2> HIDE DEF m
  <2> QED
    BY <1>2, <2>1, <2>5
<1>5. CASE q \in Others_
  <2> DEFINE idle == [n.ep EXCEPT !.busy = FALSE]
             o == [n EXCEPT !.ep = idle]
             ack == Packet("commit_ack", q.seq, <<>>)
             f0 == [n.ep EXCEPT !.commit = None]
             f == [f0 EXCEPT !.commit_retries = 0]
             m == [n EXCEPT !.ep = f]
  <2>1. q.seq \in Nat /\ ack \in Packets \ Calls
    BY <1>5, PlainPackets DEF Others_
  <2>2. \/ Receive(c, n, q) = o \/ Receive(c, n, q) = Send(o, ack)
        \/ Receive(c, n, q) = n \/ Receive(c, n, q) = m
    BY <1>1, <1>5 DEF Receive, Others_, Nodes
  <2>3. idle \in Endpoint /\ SameCore(n.ep, idle)
    BY <1>1, BusyField, OtherFields
  <2>4. f0 \in Endpoint /\ SameCore(n.ep, f0)
    BY <1>1, CommitField, OtherFields
  <2> HIDE DEF f0, idle, ack
  <2>5. f \in Endpoint /\ SameCore(f0, f)
    BY <2>4, CommitRetriesField, OtherFields
  <2> HIDE DEF f
  <2>6. SameCore(n.ep, f)
    BY <2>4, <2>5, SameCoreChain
  <2>7. Unmoved(n, o)
    BY <2>3, UnmovedField
  <2>8. Unmoved(n, m)
    BY <2>5, <2>6, UnmovedField
  <2> HIDE DEF o, m
  <2>9. Unmoved(n, Send(o, ack))
    BY <2>1, <2>7, UnmovedSend
  <2> QED
    BY <1>2, <2>2, <2>7, <2>8, <2>9
<1> QED
  BY <1>3, <1>4, <1>5 DEF Packets, Harmless, Calls

-----------------------------------------------------------------------------
(* The end of a poll: a request that was put off clocks a port that follows*)
(* now; and what expires is declined.                                      *)
Resumes(n, m) ==
    /\ n.ep.deferred # None /\ Follows(n.port)
    /\ \E a : /\ Clear(a) /\ a.port = n.port /\ a.ep.deferred = None
              /\ a.ep.next = n.ep.next /\ a.ep.pending = n.ep.pending
              /\ a.ep.answer = n.ep.answer /\ a.ep.response = n.ep.response
              /\ a.ep.served = n.ep.served
              /\ Gives(a, m, n.ep.deferred)

LEMMA TakenUp ==
    ASSUME NEW n, Clear(n)
    PROVE  LET a == [n EXCEPT !.ep = [n.ep EXCEPT !.deferred = None]]
           IN  /\ Clear(a) /\ a.port = n.port /\ a.ep.deferred = None
               /\ a.ep.next = n.ep.next /\ a.ep.pending = n.ep.pending
               /\ a.ep.answer = n.ep.answer /\ a.ep.response = n.ep.response
               /\ a.ep.served = n.ep.served /\ a.ep.reply = n.ep.reply
               /\ [n EXCEPT !.ep.deferred = None] = a
<1> DEFINE e == [n.ep EXCEPT !.deferred = None]
           a == [n EXCEPT !.ep = e]
<1>1. n \in Nodes /\ n.ep \in Endpoint
  BY DEF Clear, Well, Nodes
<1>2. [n EXCEPT !.ep.deferred = None] = a
  BY <1>1 DEF Nodes
<1>3. /\ e \in Endpoint /\ e.deferred = None
      /\ e.next = n.ep.next /\ e.pending = n.ep.pending /\ e.answer = n.ep.answer
      /\ e.response = n.ep.response /\ e.served = n.ep.served /\ e.reply = n.ep.reply
  BY <1>1, DeferredField, DeferredAlone
<1> HIDE DEF e
<1>4. Clear(a) /\ a.ep = e /\ a.port = n.port
  BY <1>3, WithEndpoint
<1> HIDE DEF a
<1>5. /\ Clear(a) /\ a.port = n.port /\ a.ep.deferred = None
      /\ a.ep.next = n.ep.next /\ a.ep.pending = n.ep.pending
      /\ a.ep.answer = n.ep.answer /\ a.ep.response = n.ep.response
      /\ a.ep.served = n.ep.served /\ a.ep.reply = n.ep.reply
  BY <1>3, <1>4
<1> QED
  BY <1>2, <1>5 DEF a, e

LEMMA DeferredOutcomes ==
    ASSUME NEW c \in Consoles, NEW n, Clear(n), n.ep.response = <<>>,
           n.ep.deferred # None => Len(n.ep.deferred.bits) = ByteBits,
           Follows(n.port) => n.port.bits = 0
    PROVE  LET m == ServeDeferred(c, n)
           IN  m = n \/ Resumes(n, m)
<1> DEFINE a == [n EXCEPT !.ep = [n.ep EXCEPT !.deferred = None]]
           q == n.ep.deferred
           m == ServeDeferred(c, n)
<1>1. /\ Clear(a) /\ a.port = n.port /\ a.ep.deferred = None
      /\ a.ep.next = n.ep.next /\ a.ep.pending = n.ep.pending
      /\ a.ep.answer = n.ep.answer /\ a.ep.response = n.ep.response
      /\ a.ep.served = n.ep.served
      /\ [n EXCEPT !.ep.deferred = None] = a
  BY TakenUp
<1> HIDE DEF a
<1>2. CASE n.ep.deferred # None /\ Follows(n.port)
  <2>1. m = Serve(c, a, q)
    BY <1>1, <1>2 DEF ServeDeferred, Clear
  <2>2. q \in Requests /\ Len(q.bits) = ByteBits
    BY <1>2 DEF Clear, Well, Nodes, Endpoint
  <2>3. a.port.active /\ ~a.port.internal /\ a.port.bits = 0 /\ ~Drives(a.port)
    BY <1>1, <1>2 DEF Follows, Drives
  <2> HIDE DEF m, q
  <2>4. \/ PutsOff(a, m, q)
        \/ Drives(a.port) /\ c = Host /\ Declines(a, m, q)
        \/ (Drives(a.port) => c = Join) /\ Gives(a, m, q)
    BY <1>1, <2>1, <2>2, <2>3, ServeOutcomes
  <2>5. Gives(a, m, q)
    BY <2>3, <2>4 DEF PutsOff
  <2>6. Resumes(n, m)
    BY <1>1, <1>2, <2>5 DEF Resumes, q
  <2> QED
    BY <2>6 DEF m
<1>3. CASE ~(n.ep.deferred # None /\ Follows(n.port))
  BY <1>3 DEF ServeDeferred
<1> QED
  BY <1>2, <1>3

Expires(n, m) ==
    /\ n.ep.deferred # None /\ ~n.port.active
    /\ \E a : /\ Clear(a) /\ a.port = n.port /\ a.ep.deferred = None
              /\ a.ep.next = n.ep.next /\ a.ep.pending = n.ep.pending
              /\ a.ep.answer = n.ep.answer /\ a.ep.response = n.ep.response
              /\ a.ep.served = n.ep.served
              /\ Declines(a, m, n.ep.deferred)

LEMMA ExpiredOutcomes ==
    ASSUME NEW n, Clear(n), n.ep.deferred # None, ~n.port.active
    PROVE  Expires(n, Reply([n EXCEPT !.ep.deferred = None],
                            Packet("not_ready", n.ep.deferred.seq, n.ep.deferred.bits)))
<1> DEFINE a == [n EXCEPT !.ep = [n.ep EXCEPT !.deferred = None]]
           q == n.ep.deferred
           packet == Packet("not_ready", q.seq, q.bits)
           m == Reply(a, packet)
<1>1. /\ Clear(a) /\ a.port = n.port /\ a.ep.deferred = None
      /\ a.ep.next = n.ep.next /\ a.ep.pending = n.ep.pending
      /\ a.ep.answer = n.ep.answer /\ a.ep.response = n.ep.response
      /\ a.ep.served = n.ep.served
      /\ [n EXCEPT !.ep.deferred = None] = a
  BY TakenUp
<1> HIDE DEF a
<1>2. q \in Requests /\ q.seq \in Nat /\ q.bits \in BitSeq
  BY DEF Clear, Well, Nodes, Endpoint, Requests
<1>3. /\ packet \in Replies /\ packet.seq = q.seq /\ packet.kind = "not_ready"
      /\ packet.bits = q.bits
  BY <1>2, ReplyIsHarmless DEF Packet
<1> HIDE DEF packet, m
<1>4. /\ Well(m) /\ m.fault = None /\ m.port = a.port
      /\ Says(m.out, packet) /\ m.ep.reply = packet
      /\ m.ep.next = a.ep.next /\ m.ep.pending = a.ep.pending
      /\ m.ep.answer = a.ep.answer /\ m.ep.response = a.ep.response
      /\ m.ep.deferred = a.ep.deferred /\ m.ep.served = a.ep.served
  BY <1>1, <1>3, ReplySays DEF m
<1>5. Declines(a, m, q)
  BY <1>3, <1>4 DEF Declines, Answering
<1>6. Expires(n, m)
  BY <1>1, <1>5 DEF Expires, q
<1> QED
  BY <1>1, <1>6 DEF m, packet, q

-----------------------------------------------------------------------------
(* The inductive invariant, of two sides as records: x is the side it      *)
(* speaks of and y the other one.                                          *)
Side(c) == [port |-> port[c], ep |-> ep[c], wire |-> wire[c], up |-> up[c],
            log |-> log[c], done |-> done[c]]

ReplyTo(s) == {p \in Replies : p.seq = s}
Has(l, s)  == \E z \in Range(l) : z.seq = s

\* Part way through a byte: the rest of the answer is what the peer gave.
PartWay(p, answer, sent, gave) ==
    /\ \A i \in 1..ByteBits : p.data[i] = BitAt(sent, gave, i + p.bits)
    /\ \A i \in 1..Len(answer) : answer[i] = gave[i + p.bits]

Unreplied(x) == \A p \in Range(x.wire) : p \notin ReplyTo(x.ep.pending.seq)
Unasked(x)   == \A p \in Range(x.wire) : p \notin Requests

(* What a side holds of its own request: one reply at most is on its way,  *)
(* it is a response if and only if the peer has clocked the request, and   *)
(* the bits are those the peer gave.                                       *)
OldReplies(x) ==
    \A p \in Range(x.wire) :
        p \in Replies => p.seq < x.ep.next /\ Len(p.bits) = ByteBits

OneReply(x) == x.ep.pending # None => Once(x.wire, ReplyTo(x.ep.pending.seq))

TrueReplies(x, y) ==
    x.ep.pending # None =>
        \A p \in Range(x.wire) :
            p \in ReplyTo(x.ep.pending.seq) =>
                /\ x.ep.answer = <<>> /\ x.ep.deferred = None
                /\ p.kind = "response" <=> Has(y.log, x.ep.pending.seq)

TrueAnswer(x, y) ==
    x.ep.pending # None /\ x.ep.answer # <<>> => Has(y.log, x.ep.pending.seq)

\* A joiner whose request was clocked has no request of the host to yield to.
HostWaits(c, x, y) ==
    c = Join /\ x.ep.pending # None /\ Has(y.log, x.ep.pending.seq) => Unasked(x)

Swaps(x, y) ==
    x.ep.pending # None =>
        \A z \in Range(y.log) :
            z.seq = x.ep.pending.seq =>
                /\ z.holds = x.ep.pending.bits /\ Len(z.gave) = ByteBits
                /\ \A p \in Range(x.wire) :
                      p \in ReplyTo(x.ep.pending.seq) => p.bits = z.gave
                /\ x.ep.answer # <<>> =>
                      PartWay(x.port, x.ep.answer, x.ep.pending.bits, z.gave)

Own(c, x, y) ==
    /\ Shaped(x.port, x.ep) /\ OldReplies(x) /\ OneReply(x) /\ TrueReplies(x, y)
    /\ TrueAnswer(x, y) /\ HostWaits(c, x, y) /\ Swaps(x, y)

(* What a side has been asked: the peer's last request at most.            *)
NewestRequest(x, y) ==
    \A r \in Range(x.wire) :
        r \in Requests => /\ Len(r.bits) = ByteBits /\ r.seq + 1 = y.ep.next
                          /\ x.ep.deferred = None

WholeDeferred(x) == x.ep.deferred # None => Len(x.ep.deferred.bits) = ByteBits

OwnReply(x) ==
    x.ep.reply # None => x.ep.served = x.ep.reply.seq /\ Len(x.ep.reply.bits) = ByteBits

ServedOld(x, y) == x.ep.served # None => x.ep.served < y.ep.next

Paced(x, y) ==
    x.ep.served # None => \/ x.ep.served + 1 = y.ep.next
                          \/ x.ep.served + 2 = y.ep.next /\ ~Unasked(x)

Inbox(x, y) ==
    /\ Once(x.wire, Requests) /\ NewestRequest(x, y) /\ WholeDeferred(x)
    /\ OwnReply(x) /\ ServedOld(x, y)

(* How the request of x and what y was asked belong together.              *)
AskedNow(x, y) ==
    x.ep.pending # None =>
        \A r \in Range(y.wire) :
            r \in Requests => r = x.ep.pending /\ x.ep.answer = <<>> /\ Unreplied(x)

\* A request that was given up is one of a joiner that has yielded.
AskedBefore(c, x, y) ==
    x.ep.pending = None /\ ~Unasked(y) =>
        /\ c = Join /\ ~Drives(x.port) /\ y.ep.pending # None /\ y.ep.answer = <<>>
        /\ Before(y.wire, Requests, ReplyTo(y.ep.pending.seq))

IsPutOff(x, y) ==
    y.ep.deferred # None =>
        /\ y.ep.deferred = x.ep.pending /\ ~Drives(y.port)
        /\ x.ep.answer = <<>> /\ Unreplied(x)

ClockedByPeer(x, y) ==
    x.ep.pending # None /\ Has(y.log, x.ep.pending.seq) =>
        ~Drives(y.port) /\ y.ep.reply # None

CachedReply(x, y) ==
    x.ep.pending # None /\ y.ep.served = x.ep.pending.seq /\ y.ep.reply # None =>
        /\ y.ep.reply.kind = "response" <=> Has(y.log, x.ep.pending.seq)
        /\ \A z \in Range(y.log) :
              z.seq = x.ep.pending.seq => y.ep.reply.bits = z.gave

Untorn(x, y) ==
    \A z \in Range(y.log) :
        \/ z.seq \in x.done
        \/ x.ep.pending # None /\ x.ep.pending.seq = z.seq

Shared(c, x, y) ==
    /\ AskedNow(x, y) /\ AskedBefore(c, x, y) /\ IsPutOff(x, y)
    /\ ClockedByPeer(x, y) /\ CachedReply(x, y) /\ Untorn(x, y)

\* lossless: no packet has been lost so far.
Good(c, x, y, lossless) ==
    /\ x.up => Own(c, x, y) /\ Inbox(x, y) /\ (lossless => Paced(x, y))
    /\ x.up /\ y.up => Shared(c, x, y)

Typed(x) ==
    /\ x.ep \in Endpoint /\ x.port \in Port /\ Sound(x.port)
    /\ x.wire \in Seq(Packets) /\ x.log \in Seq(Entry)

LEMMA TypedFacts ==
    ASSUME NEW x, Typed(x)
    PROVE  /\ x.ep.next \in Nat
           /\ x.ep.pending # None => /\ x.ep.pending \in Requests
                                     /\ x.ep.pending.seq \in Nat
                                     /\ x.ep.pending.bits \in BitSeq
           /\ x.ep.answer \in BitSeq /\ x.ep.response \in BitSeq
           /\ x.ep.deferred # None => /\ x.ep.deferred \in Requests
                                      /\ x.ep.deferred.seq \in Nat
           /\ x.ep.served # None => x.ep.served \in Nat
           /\ x.ep.reply # None => x.ep.reply \in Replies /\ x.ep.reply.seq \in Nat
           /\ x.port.data \in Byte /\ x.port.bits \in 0..ByteBits
           /\ x.port.active \in BOOLEAN
           /\ \A p \in Range(x.wire) : p \in Packets /\ p.seq \in Nat
           /\ \A z \in Range(x.log) : z.seq \in Nat /\ z.gave \in BitSeq
<1>1. /\ x.ep.next \in Nat /\ x.ep.pending \in Requests \cup {None}
      /\ x.ep.answer \in BitSeq /\ x.ep.response \in BitSeq
      /\ x.ep.deferred \in Requests \cup {None} /\ x.ep.served \in Nat \cup {None}
      /\ x.ep.reply \in Replies \cup {None}
  BY DEF Typed, Endpoint
<1>2. /\ x.port.data \in Byte /\ x.port.bits \in 0..ByteBits
      /\ x.port.active \in BOOLEAN
  BY DEF Typed, Port
<1>3. \A p \in Range(x.wire) : p \in Packets
  BY DEF Typed, Range
<1>4. \A z \in Range(x.log) : z \in Entry
  BY DEF Typed, Range
<1>5. \A p \in Packets : p.seq \in Nat
  BY DEF Packets, Harmless, Replies, Others_, Requests, Resets, Acks
<1>6. \A p \in Requests : p.seq \in Nat /\ p.bits \in BitSeq
  BY DEF Requests
<1>7. \A p \in Replies : p.seq \in Nat
  BY DEF Replies
<1>8. \A z \in Entry : z.seq \in Nat /\ z.gave \in BitSeq
  BY DEF Entry
<1> QED
  BY <1>1, <1>2, <1>3, <1>4, <1>5, <1>6, <1>7, <1>8

-----------------------------------------------------------------------------
(* What a step of x does to the two queues: it takes packets from its own, *)
(* and adds one request or reply at most to the other.                     *)
Fewer(w, v) ==
    /\ Range(v) \subseteq Range(w)
    /\ Once(w, Requests) => Once(v, Requests)
    /\ \A s \in Nat : Once(w, ReplyTo(s)) => Once(v, ReplyTo(s))
    /\ \A s \in Nat : Before(w, Requests, ReplyTo(s)) => Before(v, Requests, ReplyTo(s))

SameCalls(w, v) ==
    /\ \A p \in Calls : p \in Range(v) <=> p \in Range(w)
    /\ Once(w, Requests) => Once(v, Requests)
    /\ \A s \in Nat : Once(w, ReplyTo(s)) => Once(v, ReplyTo(s))
    /\ \A s \in Nat : Before(w, Requests, ReplyTo(s)) => Before(v, Requests, ReplyTo(s))

MoreCalls(w, v, q) ==
    /\ q \in Calls
    /\ \A p \in Calls : p \in Range(v) <=> p \in Range(w) \/ p = q
    /\ Once(w, Requests) /\ (q \notin Requests \/ \A p \in Range(w) : p \notin Requests)
          => Once(v, Requests)
    /\ \A s \in Nat :
          Once(w, ReplyTo(s)) /\ (q \notin ReplyTo(s) \/ \A p \in Range(w) : p \notin ReplyTo(s))
             => Once(v, ReplyTo(s))
    /\ \A s \in Nat :
          Before(w, Requests, ReplyTo(s)) /\ q \notin Requests
             => Before(v, Requests, ReplyTo(s))

LEMMA CallSets ==
    /\ Requests \in SUBSET Calls
    /\ \A s \in Nat : ReplyTo(s) \in SUBSET Calls
    /\ \A s : ReplyTo(s) \subseteq Replies
    /\ Requests \cap Replies = {}
    /\ Requests \subseteq Calls /\ Replies \subseteq Calls
<1>1. Requests \subseteq Calls /\ Replies \subseteq Calls
  BY DEF Calls
<1>2. \A s : ReplyTo(s) \subseteq Replies
  BY DEF ReplyTo
<1>3. Requests \cap Replies = {}
  BY Kinds DEF Harmless
<1> QED
  BY <1>1, <1>2, <1>3

LEMMA FewerFacts ==
    ASSUME NEW v \in Seq(Packets), NEW w \in Seq(Packets), Within(v, w)
    PROVE  Fewer(w, v)
BY WithinFacts, Zenon DEF Fewer

LEMMA SameCallsFacts ==
    ASSUME NEW w \in Seq(Packets), NEW o \in Seq(Packets), Mute(o)
    PROVE  SameCalls(w, w \o o)
BY MuteJoined, CallSets, Zenon DEF SameCalls

LEMMA MoreCallsFacts ==
    ASSUME NEW w \in Seq(Packets), NEW o \in Seq(Packets), NEW q \in Calls, Says(o, q)
    PROVE  MoreCalls(w, w \o o, q)
<1> DEFINE v == w \o o
<1>1. /\ \A p \in Calls : p \in Range(v) <=> p \in Range(w) \/ p = q
      /\ \A S \in SUBSET Calls :
            Once(w, S) /\ (q \notin S \/ \A p \in Range(w) : p \notin S) => Once(v, S)
      /\ \A S, R \in SUBSET Calls :
            Before(w, S, R) /\ q \notin S => Before(v, S, R)
  BY SaysJoined
<1> HIDE DEF v
<1>2. MoreCalls(w, v, q)
  <2>1. Once(w, Requests) /\ (q \notin Requests \/ \A p \in Range(w) : p \notin Requests)
          => Once(v, Requests)
    BY <1>1, CallSets, Zenon
  <2>2. \A s \in Nat :
          Once(w, ReplyTo(s)) /\ (q \notin ReplyTo(s) \/ \A p \in Range(w) : p \notin ReplyTo(s))
             => Once(v, ReplyTo(s))
    BY <1>1, CallSets, Zenon
  <2>3. \A s \in Nat :
          Before(w, Requests, ReplyTo(s)) /\ q \notin Requests
             => Before(v, Requests, ReplyTo(s))
    BY <1>1, CallSets, Zenon
  <2> QED
    BY <1>1, <2>1, <2>2, <2>3, Zenon DEF MoreCalls
<1> QED
  BY <1>2 DEF v

-----------------------------------------------------------------------------
Turn(x, y, u, v) ==
    /\ x.up /\ u.up /\ v.up = y.up /\ v.port = y.port /\ v.ep = y.ep
    /\ v.log = y.log /\ v.done = y.done /\ Fewer(x.wire, u.wire)
    /\ Typed(x) /\ Typed(y) /\ Typed(u) /\ Typed(v)

Both(c, x, y, k) == Good(c, x, y, k) /\ Good(Peer(c), y, x, k)

(* A step that changes nothing of what an endpoint knows.                  *)
Idles(x, y, u, v, k) ==
    /\ Turn(x, y, u, v) /\ SameCore(x.ep, u.ep) /\ Shaped(u.port, u.ep)
    /\ u.log = x.log /\ u.done = x.done
    /\ x.ep.pending # None => u.port.data = x.port.data /\ u.port.bits = x.port.bits
    /\ y.up /\ Drives(u.port) => Drives(x.port) \/ y.ep.pending = None
    /\ k /\ Unasked(u) =>
          Unasked(x) \/ x.ep.served = None \/ x.ep.served + 1 = y.ep.next

LEMMA IdlesOwn ==
    ASSUME NEW c \in Consoles, NEW x, NEW y, NEW u, NEW v, NEW k \in BOOLEAN,
           Both(c, x, y, k), Idles(x, y, u, v, k)
    PROVE  Own(c, u, v) /\ Inbox(u, v) /\ (k => Paced(u, v))
<1>1. Own(c, x, y) /\ Inbox(x, y) /\ (k => Paced(x, y))
  BY DEF Both, Good, Idles, Turn
<1>2. /\ Fewer(x.wire, u.wire) /\ v.ep = y.ep /\ v.log = y.log
      /\ u.ep.next = x.ep.next /\ u.ep.pending = x.ep.pending
      /\ u.ep.answer = x.ep.answer /\ u.ep.deferred = x.ep.deferred
      /\ u.ep.served = x.ep.served /\ u.ep.reply = x.ep.reply
  BY DEF Idles, Turn, SameCore
<1>3. Own(c, u, v)
  <2>1. Shaped(u.port, u.ep)
    BY DEF Idles
  <2>2. OldReplies(u)
    BY <1>1, <1>2 DEF Own, OldReplies, Fewer
  <2>3. OneReply(u)
    BY <1>1, <1>2, TypedFacts DEF Own, OneReply, Fewer, Idles, Turn
  <2>4. TrueReplies(u, v)
    BY <1>1, <1>2 DEF Own, TrueReplies, Fewer
  <2>5. TrueAnswer(u, v)
    BY <1>1, <1>2 DEF Own, TrueAnswer
  <2>6. HostWaits(c, u, v)
    BY <1>1, <1>2 DEF Own, HostWaits, Unasked, Fewer
  <2>7. Swaps(u, v)
    BY <1>1, <1>2 DEF Own, Swaps, Fewer, PartWay, Idles
  <2> QED
    BY <2>1, <2>2, <2>3, <2>4, <2>5, <2>6, <2>7 DEF Own
<1>4. Inbox(u, v)
  BY <1>1, <1>2 DEF Inbox, NewestRequest, WholeDeferred, OwnReply, ServedOld, Fewer
<1>5. k => Paced(u, v)
  BY <1>1, <1>2 DEF Paced, Idles
<1> QED
  BY <1>3, <1>4, <1>5

(* The other side, whose queue has got no request and no reply.            *)
LEMMA QuietPeer ==
    ASSUME NEW c \in Consoles, NEW x, NEW y, NEW u, NEW v, NEW k \in BOOLEAN,
           Both(c, x, y, k), Turn(x, y, u, v), y.up, SameCalls(y.wire, v.wire),
           u.ep.next = x.ep.next, u.log = x.log
    PROVE  Own(Peer(c), v, u) /\ Inbox(v, u) /\ (k => Paced(v, u))
<1>1. Own(Peer(c), y, x) /\ Inbox(y, x) /\ (k => Paced(y, x))
  BY DEF Both, Good
<1>2. SameCalls(y.wire, v.wire) /\ v.ep = y.ep /\ v.port = y.port
  BY DEF Turn
<1>3. /\ \A p \in Requests : p \in Range(v.wire) <=> p \in Range(y.wire)
      /\ \A p \in Replies : p \in Range(v.wire) <=> p \in Range(y.wire)
      /\ \A p : \A s : p \in ReplyTo(s) => p \in Replies
  BY <1>2, CallSets DEF SameCalls
<1>4. Own(Peer(c), v, u)
  <2>1. Shaped(v.port, v.ep)
    BY <1>1, <1>2 DEF Own
  <2>2. OldReplies(v)
    BY <1>1, <1>2, <1>3 DEF Own, OldReplies
  <2>3. OneReply(v)
    BY <1>1, <1>2, TypedFacts DEF Own, OneReply, SameCalls, Turn
  <2>4. TrueReplies(v, u)
    BY <1>1, <1>2, <1>3 DEF Own, TrueReplies
  <2>5. TrueAnswer(v, u)
    BY <1>1, <1>2 DEF Own, TrueAnswer
  <2>6. HostWaits(Peer(c), v, u)
    BY <1>1, <1>2, <1>3 DEF Own, HostWaits, Unasked
  <2>7. Swaps(v, u)
    BY <1>1, <1>2, <1>3 DEF Own, Swaps
  <2> QED
    BY <2>1, <2>2, <2>3, <2>4, <2>5, <2>6, <2>7 DEF Own
<1>5. Inbox(v, u)
  BY <1>1, <1>2, <1>3
     DEF Inbox, NewestRequest, WholeDeferred, OwnReply, ServedOld, SameCalls
<1>6. k => Paced(v, u)
  BY <1>1, <1>2, <1>3 DEF Paced, Unasked
<1> QED
  BY <1>4, <1>5, <1>6

(* ... or one reply: to the request it waits for, or to one it has given   *)
(* up.                                                                     *)
LEMMA RepliedPeer ==
    ASSUME NEW c \in Consoles, NEW x, NEW y, NEW u, NEW v, NEW k \in BOOLEAN,
           Both(c, x, y, k), Turn(x, y, u, v), y.up,
           NEW p \in Replies, MoreCalls(y.wire, v.wire, p),
           p.seq < y.ep.next, Len(p.bits) = ByteBits, u.ep.next = x.ep.next,
           \/ y.ep.pending = None
           \/ /\ y.ep.pending # None /\ y.ep.pending.seq = p.seq
              /\ y.ep.answer = <<>> /\ Unreplied(y) /\ y.ep.deferred = None
              /\ (p.kind = "response") <=> Has(u.log, p.seq)
              /\ \A z \in Range(u.log) :
                    z.seq = p.seq => /\ z.holds = y.ep.pending.bits
                                     /\ Len(z.gave) = ByteBits /\ p.bits = z.gave
              /\ Peer(c) = Join /\ Has(u.log, p.seq) => Unasked(y)
    PROVE  Own(Peer(c), v, u) /\ Inbox(v, u) /\ (k => Paced(v, u))
<1>1. Own(Peer(c), y, x) /\ Inbox(y, x) /\ (k => Paced(y, x))
  BY DEF Both, Good
<1>2. v.ep = y.ep /\ v.port = y.port
  BY DEF Turn
<1>3. /\ \A r \in Requests : r \in Range(v.wire) <=> r \in Range(y.wire)
      /\ \A r \in Replies : r \in Range(v.wire) <=> r \in Range(y.wire) \/ r = p
      /\ \A r : \A s : r \in ReplyTo(s) => r \in Replies
      /\ p \notin Requests
  BY <1>2, CallSets DEF MoreCalls
<1>4. Own(Peer(c), v, u)
  <2>1. Shaped(v.port, v.ep)
    BY <1>1, <1>2 DEF Own
  <2>2. OldReplies(v)
    BY <1>1, <1>2, <1>3 DEF Own, OldReplies
  <2>3. OneReply(v)
    BY <1>1, <1>2, TypedFacts DEF Own, OneReply, MoreCalls, Turn, Unreplied
  <2>4. TrueReplies(v, u)
    BY <1>2, <1>3 DEF TrueReplies, Unreplied, ReplyTo
  <2>5. TrueAnswer(v, u)
    BY <1>2 DEF TrueAnswer
  <2>6. HostWaits(Peer(c), v, u)
    BY <1>2, <1>3 DEF HostWaits, Unasked
  <2>7. Swaps(v, u)
    BY <1>2, <1>3 DEF Swaps, Unreplied, ReplyTo
  <2> QED
    BY <2>1, <2>2, <2>3, <2>4, <2>5, <2>6, <2>7 DEF Own
<1>5. Inbox(v, u)
  BY <1>1, <1>2, <1>3
     DEF Inbox, NewestRequest, WholeDeferred, OwnReply, ServedOld, MoreCalls
<1>6. k => Paced(v, u)
  BY <1>1, <1>2, <1>3 DEF Paced, Unasked
<1> QED
  BY <1>4, <1>5, <1>6

(* ... or one request, when it had none.                                   *)
LEMMA AskedPeer ==
    ASSUME NEW c \in Consoles, NEW x, NEW y, NEW u, NEW v, NEW k \in BOOLEAN,
           Both(c, x, y, k), Turn(x, y, u, v), y.up,
           NEW r \in Requests, MoreCalls(y.wire, v.wire, r), Unasked(y),
           y.ep.deferred = None, Len(r.bits) = ByteBits, r.seq + 1 = u.ep.next,
           u.ep.next = x.ep.next \/ u.ep.next = x.ep.next + 1, u.log = x.log,
           ~(Peer(c) = Join /\ y.ep.pending # None /\ Has(x.log, y.ep.pending.seq))
    PROVE  Own(Peer(c), v, u) /\ Inbox(v, u) /\ (k => Paced(v, u))
<1>1. Own(Peer(c), y, x) /\ Inbox(y, x) /\ (k => Paced(y, x))
  BY DEF Both, Good
<1>2. v.ep = y.ep /\ v.port = y.port
  BY DEF Turn
<1>3. /\ \A q \in Requests : q \in Range(v.wire) <=> q \in Range(y.wire) \/ q = r
      /\ \A q \in Replies : q \in Range(v.wire) <=> q \in Range(y.wire)
      /\ \A q : \A s : q \in ReplyTo(s) => q \in Replies
      /\ \A s : r \notin ReplyTo(s)
  BY <1>2, CallSets DEF MoreCalls
<1>4. Own(Peer(c), v, u)
  <2>1. Shaped(v.port, v.ep)
    BY <1>1, <1>2 DEF Own
  <2>2. OldReplies(v)
    BY <1>1, <1>2, <1>3 DEF Own, OldReplies
  <2>3. OneReply(v)
    BY <1>1, <1>2, <1>3, TypedFacts DEF Own, OneReply, MoreCalls, Turn
  <2>4. TrueReplies(v, u)
    BY <1>1, <1>2, <1>3 DEF Own, TrueReplies
  <2>5. TrueAnswer(v, u)
    BY <1>1, <1>2 DEF Own, TrueAnswer
  <2>6. HostWaits(Peer(c), v, u)
    BY <1>2 DEF HostWaits
  <2>7. Swaps(v, u)
    BY <1>1, <1>2, <1>3 DEF Own, Swaps
  <2> QED
    BY <2>1, <2>2, <2>3, <2>4, <2>5, <2>6, <2>7 DEF Own
<1>5. x.ep.next \in Nat /\ u.ep.next \in Nat /\ (y.ep.served # None => y.ep.served \in Nat)
  BY TypedFacts DEF Turn
<1>6. Inbox(v, u)
  <2>1. NewestRequest(v, u)
    BY <1>2, <1>3 DEF NewestRequest, Unasked
  <2>2. Once(v.wire, Requests)
    BY <1>1 DEF Inbox, MoreCalls, Unasked
  <2>3. ServedOld(v, u)
    BY <1>1, <1>2, <1>5 DEF Inbox, ServedOld
  <2> QED
    BY <1>1, <1>2, <2>1, <2>2, <2>3 DEF Inbox, WholeDeferred, OwnReply
<1>7. k => Paced(v, u)
  <2>1. ~Unasked(v)
    BY <1>3 DEF Unasked
  <2> QED
    BY <1>1, <1>2, <1>5, <2>1 DEF Paced
<1> QED
  BY <1>4, <1>6, <1>7

LEMMA IdlesShared ==
    ASSUME NEW c \in Consoles, NEW x, NEW y, NEW u, NEW v, NEW k \in BOOLEAN,
           Both(c, x, y, k), Idles(x, y, u, v, k), y.up, SameCalls(y.wire, v.wire)
    PROVE  Shared(c, u, v) /\ Shared(Peer(c), v, u)
<1>1. Shared(c, x, y) /\ Shared(Peer(c), y, x)
  BY DEF Both, Good, Idles, Turn
<1>2. /\ Fewer(x.wire, u.wire) /\ v.ep = y.ep /\ v.log = y.log /\ v.port = y.port
      /\ v.done = y.done /\ u.log = x.log /\ u.done = x.done
      /\ u.ep.pending = x.ep.pending /\ u.ep.answer = x.ep.answer
      /\ u.ep.deferred = x.ep.deferred /\ u.ep.served = x.ep.served
      /\ u.ep.reply = x.ep.reply
      /\ Drives(u.port) => Drives(x.port) \/ y.ep.pending = None
      /\ x.ep.pending # None => x.ep.pending.seq \in Nat
      /\ y.ep.pending # None => y.ep.pending.seq \in Nat
  BY TypedFacts DEF Idles, Turn, SameCore
<1>3. /\ \A p \in Requests : p \in Range(v.wire) <=> p \in Range(y.wire)
      /\ \A p \in Replies : p \in Range(v.wire) <=> p \in Range(y.wire)
      /\ \A p : \A s : p \in ReplyTo(s) => p \in Replies
  BY CallSets DEF SameCalls
<1>4. Unasked(y) <=> Unasked(v)
  BY <1>3 DEF Unasked
<1>5. /\ Unasked(x) => Unasked(u)
      /\ x.ep.pending # None /\ Unreplied(x) => Unreplied(u)
      /\ y.ep.pending # None /\ Unreplied(y) => Unreplied(v)
  BY <1>2, <1>3 DEF Unasked, Unreplied, Fewer
<1>6. Shared(c, u, v)
  <2>1. AskedNow(u, v)
    BY <1>1, <1>2, <1>3, <1>5 DEF Shared, AskedNow
  <2>2. AskedBefore(c, u, v)
    BY <1>1, <1>2, <1>4 DEF Shared, AskedBefore, SameCalls
  <2>3. IsPutOff(u, v)
    BY <1>1, <1>2, <1>5 DEF Shared, IsPutOff
  <2>4. ClockedByPeer(u, v) /\ CachedReply(u, v) /\ Untorn(u, v)
    BY <1>1, <1>2 DEF Shared, ClockedByPeer, CachedReply, Untorn
  <2> QED
    BY <2>1, <2>2, <2>3, <2>4 DEF Shared
<1>7. Shared(Peer(c), v, u)
  <2>1. AskedNow(v, u)
    BY <1>1, <1>2, <1>5 DEF Shared, AskedNow, Fewer
  <2>2. AskedBefore(Peer(c), v, u)
    BY <1>1, <1>2, <1>5 DEF Shared, AskedBefore, Fewer
  <2>3. IsPutOff(v, u)
    BY <1>1, <1>2, <1>5 DEF Shared, IsPutOff
  <2>4. ClockedByPeer(v, u) /\ CachedReply(v, u) /\ Untorn(v, u)
    BY <1>1, <1>2 DEF Shared, ClockedByPeer, CachedReply, Untorn
  <2> QED
    BY <2>1, <2>2, <2>3, <2>4 DEF Shared
<1> QED
  BY <1>6, <1>7

\* A request served before, answered from the cache.
Repeated(x, y, u, v, k) ==
    /\ Idles(x, y, u, v, k) /\ u.port = x.port /\ Unasked(u) /\ x.ep.reply # None
    /\ \E q \in Requests : q \in Range(x.wire) /\ x.ep.served = q.seq
    /\ y.up => MoreCalls(y.wire, v.wire, x.ep.reply)

LEMMA RepeatedKeeps ==
    ASSUME NEW c \in Consoles, NEW x, NEW y, NEW u, NEW v, NEW k \in BOOLEAN,
           Both(c, x, y, k), Repeated(x, y, u, v, k)
    PROVE  Both(c, u, v, k)
<1>1. Own(c, u, v) /\ Inbox(u, v) /\ (k => Paced(u, v))
  BY IdlesOwn DEF Repeated
<1>2. CASE ~y.up
  BY <1>1, <1>2 DEF Both, Good, Repeated, Idles, Turn
<1>3. CASE y.up
  <2> DEFINE p == x.ep.reply
  <2>1. /\ Inbox(x, y) /\ Shared(c, x, y) /\ Shared(Peer(c), y, x)
        /\ Own(c, x, y) /\ Own(Peer(c), y, x)
    BY <1>3 DEF Both, Good, Repeated, Idles, Turn
  <2>2. PICK q \in Requests : q \in Range(x.wire) /\ x.ep.served = q.seq
    BY DEF Repeated
  <2>3. /\ Fewer(x.wire, u.wire) /\ v.ep = y.ep /\ v.log = y.log /\ v.port = y.port
        /\ v.done = y.done /\ u.log = x.log /\ u.done = x.done
        /\ u.ep.pending = x.ep.pending /\ u.ep.answer = x.ep.answer
        /\ u.ep.deferred = x.ep.deferred /\ u.ep.served = x.ep.served
        /\ u.ep.reply = x.ep.reply /\ u.ep.next = x.ep.next /\ u.port = x.port
        /\ Turn(x, y, u, v) /\ Unasked(u) /\ MoreCalls(y.wire, v.wire, p)
    BY <1>3 DEF Repeated, Idles, Turn, SameCore
  <2>4. /\ p \in Replies /\ p.seq = q.seq /\ Len(p.bits) = ByteBits
        /\ p.seq < y.ep.next /\ x.ep.deferred = None
        /\ x.ep.pending # None => x.ep.pending.seq \in Nat
        /\ y.ep.pending # None => y.ep.pending.seq \in Nat
    <3>1. p \in Replies /\ p.seq = q.seq /\ Len(p.bits) = ByteBits /\ x.ep.deferred = None
      BY <2>1, <2>2, TypedFacts DEF Inbox, OwnReply, NewestRequest, Repeated, Idles, Turn
    <3>2. p.seq < y.ep.next
      <4>1. q.seq + 1 = y.ep.next /\ q.seq \in Nat
        BY <2>1, <2>2 DEF Inbox, NewestRequest, Requests
      <4> QED
        BY <3>1, <4>1
    <3> QED
      BY <2>3, <3>1, <3>2, TypedFacts DEF Turn
  <2>5. y.ep.pending # None =>
          /\ q = y.ep.pending /\ y.ep.answer = <<>> /\ Unreplied(y) /\ y.ep.deferred = None
          /\ (p.kind = "response") <=> Has(x.log, p.seq)
          /\ \A z \in Range(x.log) :
                z.seq = p.seq => /\ z.holds = y.ep.pending.bits
                                 /\ Len(z.gave) = ByteBits /\ p.bits = z.gave
    <3> SUFFICES ASSUME y.ep.pending # None
                 PROVE  /\ q = y.ep.pending /\ y.ep.answer = <<>> /\ Unreplied(y)
                        /\ y.ep.deferred = None
                        /\ (p.kind = "response") <=> Has(x.log, p.seq)
                        /\ \A z \in Range(x.log) :
                              z.seq = p.seq => /\ z.holds = y.ep.pending.bits
                                               /\ Len(z.gave) = ByteBits /\ p.bits = z.gave
      OBVIOUS
    <3>1. q = y.ep.pending /\ y.ep.answer = <<>> /\ Unreplied(y)
      BY <2>1, <2>2 DEF Shared, AskedNow
    <3>2. y.ep.deferred = None
      BY <2>1 DEF Shared, IsPutOff, Own, Shaped
    <3>3. (p.kind = "response") <=> Has(x.log, p.seq)
      BY <2>1, <2>2, <2>4, <3>1, Zenon DEF Shared, CachedReply, Repeated
    <3>4. \A z \in Range(x.log) : z.seq = p.seq => p.bits = z.gave
      BY <2>1, <2>2, <2>4, <3>1, Zenon DEF Shared, CachedReply, Repeated
    <3>5. \A z \in Range(x.log) :
             z.seq = p.seq => z.holds = y.ep.pending.bits /\ Len(z.gave) = ByteBits
      BY <2>1, <2>4, <3>1, Zenon DEF Own, Swaps
    <3> QED
      BY <3>1, <3>2, <3>3, <3>4, <3>5
  <2>6. Peer(c) = Join /\ y.ep.pending # None /\ Has(x.log, p.seq) => Unasked(y)
    <3>1. HostWaits(Peer(c), y, x)
      BY <2>1 DEF Own
    <3>2. y.ep.pending # None => p.seq = y.ep.pending.seq
      BY <2>4, <2>5
    <3> HIDE DEF p
    <3> QED
      BY <3>1, <3>2, Zenon DEF HostWaits
  <2> HIDE DEF p
  <2>7. Own(Peer(c), v, u) /\ Inbox(v, u) /\ (k => Paced(v, u))
    <3>1. \/ y.ep.pending = None
          \/ /\ y.ep.pending # None /\ y.ep.pending.seq = p.seq
             /\ y.ep.answer = <<>> /\ Unreplied(y) /\ y.ep.deferred = None
             /\ (p.kind = "response") <=> Has(u.log, p.seq)
             /\ \A z \in Range(u.log) :
                   z.seq = p.seq => /\ z.holds = y.ep.pending.bits
                                    /\ Len(z.gave) = ByteBits /\ p.bits = z.gave
             /\ Peer(c) = Join /\ Has(u.log, p.seq) => Unasked(y)
      BY <2>3, <2>4, <2>5, <2>6, Zenon
    <3> QED
      BY <1>3, <2>3, <2>4, <3>1, RepliedPeer
  <2>8. /\ \A r \in Requests : r \in Range(v.wire) <=> r \in Range(y.wire)
        /\ p \notin Requests
    BY <2>3, <2>4, CallSets DEF MoreCalls
  <2>9. /\ Unasked(y) <=> Unasked(v)
        /\ x.ep.pending # None /\ Unreplied(x) => Unreplied(u)
    BY <2>3, <2>8 DEF Unasked, Unreplied, Fewer
  <2>10. Shared(c, u, v)
    <3>1. AskedNow(u, v)
      BY <2>1, <2>3, <2>8, <2>9 DEF Shared, AskedNow
    <3>2. AskedBefore(c, u, v)
      BY <2>1, <2>3, <2>4, <2>8, <2>9 DEF Shared, AskedBefore, MoreCalls
    <3>3. IsPutOff(u, v)
      BY <2>1, <2>3, <2>9 DEF Shared, IsPutOff
    <3>4. ClockedByPeer(u, v) /\ CachedReply(u, v) /\ Untorn(u, v)
      BY <2>1, <2>3 DEF Shared, ClockedByPeer, CachedReply, Untorn
    <3> QED
      BY <3>1, <3>2, <3>3, <3>4 DEF Shared
  <2>11. Shared(Peer(c), v, u)
    <3>1. AskedNow(v, u) /\ AskedBefore(Peer(c), v, u)
      BY <2>3 DEF AskedNow, AskedBefore, Unasked
    <3>2. IsPutOff(v, u)
      BY <2>3, <2>4 DEF IsPutOff
    <3>3. ClockedByPeer(v, u) /\ CachedReply(v, u) /\ Untorn(v, u)
      BY <2>1, <2>3 DEF Shared, ClockedByPeer, CachedReply, Untorn
    <3> QED
      BY <3>1, <3>2, <3>3 DEF Shared
  <2>12. Peer(Peer(c)) = c
    BY SideFacts
  <2> QED
    BY <1>1, <2>7, <2>10, <2>11, <2>12 DEF Both, Good
<1> QED
  BY <1>2, <1>3

\* A request sent again, when neither it nor a reply to it is on its way.
Resent(x, y, u, v, k) ==
    /\ Idles(x, y, u, v, k) /\ u.port = x.port
    /\ x.ep.pending # None /\ x.ep.answer = <<>> /\ Unreplied(x)
    /\ y.ep.deferred = None
    /\ \A q \in Range(y.wire) : q \in Requests => q.seq # x.ep.pending.seq
    /\ y.up => MoreCalls(y.wire, v.wire, x.ep.pending)

LEMMA ResentKeeps ==
    ASSUME NEW c \in Consoles, NEW x, NEW y, NEW u, NEW v, NEW k \in BOOLEAN,
           Both(c, x, y, k), Resent(x, y, u, v, k)
    PROVE  Both(c, u, v, k)
<1>1. Own(c, u, v) /\ Inbox(u, v) /\ (k => Paced(u, v))
  BY IdlesOwn DEF Resent
<1>2. CASE ~y.up
  BY <1>1, <1>2 DEF Both, Good, Resent, Idles, Turn
<1>3. CASE y.up
  <2> DEFINE r == x.ep.pending
  <2>1. /\ Inbox(x, y) /\ Shared(c, x, y) /\ Shared(Peer(c), y, x)
        /\ Own(c, x, y) /\ Own(Peer(c), y, x)
    BY <1>3 DEF Both, Good, Resent, Idles, Turn
  <2>2. /\ Fewer(x.wire, u.wire) /\ v.ep = y.ep /\ v.log = y.log /\ v.port = y.port
        /\ v.done = y.done /\ u.log = x.log /\ u.done = x.done
        /\ u.ep.pending = x.ep.pending /\ u.ep.answer = x.ep.answer
        /\ u.ep.deferred = x.ep.deferred /\ u.ep.served = x.ep.served
        /\ u.ep.reply = x.ep.reply /\ u.ep.next = x.ep.next /\ u.port = x.port
        /\ Turn(x, y, u, v) /\ MoreCalls(y.wire, v.wire, r)
    BY <1>3 DEF Resent, Idles, Turn, SameCore
  <2>3. /\ r # None /\ r \in Requests /\ r.seq \in Nat /\ x.ep.answer = <<>>
        /\ Unreplied(x) /\ y.ep.deferred = None
        /\ y.ep.pending # None => y.ep.pending.seq \in Nat
    BY <2>2, TypedFacts DEF Resent, Turn
  <2>4. Unasked(y)
    BY <2>1, <2>3 DEF Resent, Shared, AskedNow, Unasked
  <2>5. Drives(x.port) /\ Len(r.bits) = ByteBits /\ r.seq + 1 = x.ep.next
    BY <2>1, <2>3 DEF Own, Shaped
  <2>6. ~(Peer(c) = Join /\ y.ep.pending # None /\ Has(x.log, y.ep.pending.seq))
    BY <2>1, <2>5 DEF Shared, ClockedByPeer
  <2>7. Own(Peer(c), v, u) /\ Inbox(v, u) /\ (k => Paced(v, u))
    <3>1. r.seq + 1 = u.ep.next
      BY <2>2, <2>5
    <3> HIDE DEF r
    <3> QED
      BY <1>3, <2>2, <2>3, <2>4, <2>5, <2>6, <3>1, AskedPeer
  <2>8. /\ \A q \in Requests : q \in Range(v.wire) => q = r
        /\ \A q \in Replies : q \in Range(v.wire) <=> q \in Range(y.wire)
        /\ \A p : \A s : p \in ReplyTo(s) => p \in Replies
    BY <2>2, <2>3, <2>4, CallSets DEF MoreCalls, Unasked
  <2>9. /\ Unreplied(u) /\ (Unasked(x) => Unasked(u))
        /\ Unreplied(y) => Unreplied(v)
    BY <2>2, <2>3, <2>8 DEF Unreplied, Unasked, Fewer
  <2>10. Shared(c, u, v)
    <3>1. AskedNow(u, v)
      BY <2>2, <2>3, <2>8, <2>9 DEF AskedNow
    <3>2. AskedBefore(c, u, v)
      BY <2>2, <2>3 DEF AskedBefore
    <3>3. IsPutOff(u, v)
      BY <2>2, <2>3 DEF IsPutOff
    <3>4. ClockedByPeer(u, v) /\ CachedReply(u, v) /\ Untorn(u, v)
      BY <2>1, <2>2 DEF Shared, ClockedByPeer, CachedReply, Untorn
    <3> QED
      BY <3>1, <3>2, <3>3, <3>4 DEF Shared
  <2>11. Shared(Peer(c), v, u)
    <3>1. AskedNow(v, u)
      BY <2>1, <2>2, <2>9 DEF Shared, AskedNow, Fewer
    <3>2. AskedBefore(Peer(c), v, u)
      BY <2>1, <2>2, <2>3, <2>9 DEF Shared, AskedBefore, Fewer
    <3>3. IsPutOff(v, u)
      BY <2>1, <2>2, <2>9 DEF Shared, IsPutOff
    <3>4. ClockedByPeer(v, u) /\ CachedReply(v, u) /\ Untorn(v, u)
      BY <2>1, <2>2 DEF Shared, ClockedByPeer, CachedReply, Untorn
    <3> QED
      BY <3>1, <3>2, <3>3, <3>4 DEF Shared
  <2>12. Peer(Peer(c)) = c
    BY SideFacts
  <2> QED
    BY <1>1, <2>7, <2>10, <2>11, <2>12 DEF Both, Good
<1> QED
  BY <1>2, <1>3

LEMMA IdlesKeep ==
    ASSUME NEW c \in Consoles, NEW x, NEW y, NEW u, NEW v, NEW k \in BOOLEAN,
           Both(c, x, y, k), Idles(x, y, u, v, k), y.up => SameCalls(y.wire, v.wire)
    PROVE  Both(c, u, v, k)
<1>1. Own(c, u, v) /\ Inbox(u, v) /\ (k => Paced(u, v))
  BY IdlesOwn
<1>2. CASE ~y.up
  BY <1>1, <1>2 DEF Both, Good, Idles, Turn
<1>3. CASE y.up
  <2>1. Turn(x, y, u, v) /\ u.ep.next = x.ep.next /\ u.log = x.log
    BY DEF Idles, SameCore
  <2>2. Own(Peer(c), v, u) /\ Inbox(v, u) /\ (k => Paced(v, u))
    BY <1>3, <2>1, QuietPeer
  <2>3. Shared(c, u, v) /\ Shared(Peer(c), v, u)
    BY <1>3, IdlesShared
  <2>4. Peer(Peer(c)) = c
    BY SideFacts
  <2> QED
    BY <1>1, <2>2, <2>3, <2>4 DEF Both, Good
<1> QED
  BY <1>2, <1>3

LEMMA ByteLength ==
    ASSUME NEW d \in Byte
    PROVE  d \in BitSeq /\ Len(d) = ByteBits
<1>1. ByteBits \in Nat /\ DOMAIN d = 1..ByteBits
  BY PortAssumption DEF Byte
<1>2. d \in BitSeq
  BY <1>1 DEF Byte, BitSeq
<1>3. Len(d) = ByteBits
  BY <1>1, <1>2 DEF BitSeq
<1> QED
  BY <1>2, <1>3

(* A driving port asks for the peer's bits.                                *)
AsksFor(x, y, u, v, r) ==
    /\ Turn(x, y, u, v) /\ u.log = x.log /\ u.done = x.done /\ u.port = x.port
    /\ Drives(x.port) /\ x.ep.pending = None /\ x.ep.answer = <<>>
    /\ r \in Requests /\ r # None /\ r.seq = x.ep.next /\ r.bits = x.port.data
    /\ u.ep.next = x.ep.next + 1 /\ u.ep.pending = r /\ u.ep.answer = <<>>
    /\ u.ep.response = <<>> /\ u.ep.deferred = x.ep.deferred
    /\ u.ep.served = x.ep.served /\ u.ep.reply = x.ep.reply
    /\ \A z \in Range(y.log) : z.seq < x.ep.next
    /\ Unasked(u) => Unasked(x)
    /\ y.up => MoreCalls(y.wire, v.wire, r)

LEMMA AsksForKeeps ==
    ASSUME NEW c \in Consoles, NEW x, NEW y, NEW u, NEW v, NEW k \in BOOLEAN,
           NEW r, Both(c, x, y, k), AsksFor(x, y, u, v, r)
    PROVE  Both(c, u, v, k)
<1>1. Own(c, x, y) /\ Inbox(x, y) /\ (k => Paced(x, y))
  BY DEF Both, Good, AsksFor, Turn
<1>2. /\ Fewer(x.wire, u.wire) /\ v.ep = y.ep /\ v.log = y.log /\ v.port = y.port
      /\ v.done = y.done /\ u.log = x.log /\ u.done = x.done /\ u.port = x.port
      /\ Drives(x.port) /\ x.ep.pending = None /\ x.ep.answer = <<>>
      /\ r \in Requests /\ r # None /\ r.seq = x.ep.next /\ r.bits = x.port.data
      /\ u.ep.next = x.ep.next + 1 /\ u.ep.pending = r /\ u.ep.answer = <<>>
      /\ u.ep.response = <<>> /\ u.ep.deferred = x.ep.deferred
      /\ u.ep.served = x.ep.served /\ u.ep.reply = x.ep.reply
      /\ \A z \in Range(y.log) : z.seq < x.ep.next
      /\ Turn(x, y, u, v) /\ x.ep.next \in Nat
      /\ Len(r.bits) = ByteBits /\ v.up = y.up /\ x.up /\ u.up
  BY TypedFacts, ByteLength DEF AsksFor, Turn
<1>3. ~Has(y.log, r.seq)
  BY <1>2 DEF Has
<1>4. Unreplied(u)
  <2>1. \A p \in Range(x.wire) : p \in Replies => p.seq < x.ep.next /\ p.seq \in Nat
    BY <1>1, CallSets, TypedFacts DEF Own, OldReplies, Turn, AsksFor
  <2>2. \A p \in Range(u.wire) : p \in Range(x.wire)
    BY <1>2 DEF Fewer
  <2> QED
    BY <1>2, <2>1, <2>2 DEF Unreplied, ReplyTo
<1>5. Own(c, u, v)
  <2>1. Shaped(u.port, u.ep)
    BY <1>1, <1>2 DEF Own, Shaped
  <2>2. OldReplies(u)
    <3>1. \A p \in Range(u.wire) : p \in Range(x.wire) /\ p.seq \in Nat
      BY <1>2, TypedFacts DEF Fewer, Turn
    <3> QED
      BY <1>1, <1>2, <3>1 DEF Own, OldReplies
  <2>3. OneReply(u)
    <3>1. \A i \in DOMAIN u.wire : u.wire[i] \notin ReplyTo(u.ep.pending.seq)
      BY <1>4 DEF Unreplied, Range
    <3> QED
      BY <3>1, Zenon DEF OneReply, Once
  <2>4. TrueReplies(u, v)
    BY <1>4 DEF TrueReplies, Unreplied
  <2>5. TrueAnswer(u, v)
    BY <1>2 DEF TrueAnswer
  <2>6. HostWaits(c, u, v)
    BY <1>2, <1>3 DEF HostWaits
  <2>7. Swaps(u, v)
    BY <1>2, <1>3 DEF Swaps, Has
  <2> QED
    BY <2>1, <2>2, <2>3, <2>4, <2>5, <2>6, <2>7 DEF Own
<1>6. Inbox(u, v) /\ (k => Paced(u, v))
  <2>1. Inbox(u, v)
    BY <1>1, <1>2 DEF Inbox, NewestRequest, WholeDeferred, OwnReply, ServedOld, Fewer
  <2>2. k => Paced(u, v)
    BY <1>1, <1>2 DEF Paced, AsksFor
  <2> QED
    BY <2>1, <2>2
<1>7. CASE ~y.up
  BY <1>2, <1>5, <1>6, <1>7 DEF Both, Good
<1>8. CASE y.up
  <2>1. /\ Shared(c, x, y) /\ Shared(Peer(c), y, x) /\ Own(Peer(c), y, x) /\ Inbox(y, x)
        /\ MoreCalls(y.wire, v.wire, r)
    BY <1>2, <1>8 DEF Both, Good, AsksFor
  <2>2. Unasked(y)
    BY <1>2, <2>1 DEF Shared, AskedBefore
  <2>3. y.ep.deferred = None
    BY <1>2, <2>1 DEF Shared, IsPutOff
  <2>4. ~(y.ep.pending # None /\ Has(x.log, y.ep.pending.seq))
    BY <1>2, <2>1 DEF Shared, ClockedByPeer
  <2>5. Own(Peer(c), v, u) /\ Inbox(v, u) /\ (k => Paced(v, u))
    <3>1. r.seq + 1 = u.ep.next
      BY <1>2
    <3> QED
      BY <1>2, <1>8, <2>1, <2>2, <2>3, <2>4, <3>1, AskedPeer
  <2>6. /\ \A q \in Requests : q \in Range(v.wire) => q = r
        /\ \A q \in Replies : q \in Range(v.wire) <=> q \in Range(y.wire)
        /\ \A p : \A s : p \in ReplyTo(s) => p \in Replies
    BY <1>2, <2>1, <2>2, CallSets DEF MoreCalls, Unasked
  <2>7. Unreplied(y) => Unreplied(v)
    BY <1>2, <2>6 DEF Unreplied
  <2>8. Shared(c, u, v)
    <3>1. AskedNow(u, v)
      BY <1>2, <1>4, <2>6 DEF AskedNow
    <3>2. AskedBefore(c, u, v)
      BY <1>2 DEF AskedBefore
    <3>3. IsPutOff(u, v)
      BY <1>2, <2>3 DEF IsPutOff
    <3>4. ClockedByPeer(u, v)
      BY <1>2, <1>3 DEF ClockedByPeer
    <3>5. CachedReply(u, v)
      <4>1. y.ep.served # None => y.ep.served < x.ep.next /\ y.ep.served \in Nat
        BY <2>1, TypedFacts DEF Inbox, ServedOld, Turn, AsksFor
      <4>2. r.seq # None
        BY <1>2, EndpointAssumption
      <4> QED
        BY <1>2, <4>1, <4>2 DEF CachedReply
    <3>6. Untorn(u, v)
      BY <1>2, <2>1 DEF Shared, Untorn
    <3> QED
      BY <3>1, <3>2, <3>3, <3>4, <3>5, <3>6 DEF Shared
  <2>9. Shared(Peer(c), v, u)
    <3>1. AskedNow(v, u)
      BY <1>2, <2>1, <2>7 DEF Shared, AskedNow, Fewer
    <3>2. AskedBefore(Peer(c), v, u)
      <4>1. y.ep.pending = None => Unasked(x)
        BY <1>2, <2>1 DEF Shared, AskedBefore
      <4>2. Unasked(x) => Unasked(u)
        BY <1>2 DEF Unasked, Fewer
      <4> QED
        BY <1>2, <4>1, <4>2 DEF AskedBefore
    <3>3. IsPutOff(v, u)
      BY <1>2, <2>1, <2>7 DEF Shared, IsPutOff
    <3>4. ClockedByPeer(v, u) /\ CachedReply(v, u) /\ Untorn(v, u)
      BY <1>2, <2>1 DEF Shared, ClockedByPeer, CachedReply, Untorn
    <3> QED
      BY <3>1, <3>2, <3>3, <3>4 DEF Shared
  <2>10. Peer(Peer(c)) = c
    BY SideFacts
  <2> QED
    BY <1>5, <1>6, <2>5, <2>8, <2>9, <2>10 DEF Both, Good
<1> QED
  BY <1>7, <1>8

LEMMA PartWayNext ==
    ASSUME NEW p, p.data \in Byte, NEW b \in Nat, p.bits = b,
           NEW answer \in BitSeq, answer # <<>>, NEW sent, NEW gave,
           PartWay(p, answer, sent, gave),
           NEW q, q.data = ShiftedData(p.data, Head(answer)), q.bits = b + 1
    PROVE  PartWay(q, Tail(answer), sent, gave)
<1>1. ByteBits \in Nat \ {0}
  BY PortAssumption
<1>2. /\ Len(answer) \in Nat /\ Len(answer) > 0 /\ Head(answer) = answer[1]
      /\ Len(Tail(answer)) = Len(answer) - 1
      /\ \A i \in 1..(Len(answer) - 1) : Tail(answer)[i] = answer[i + 1]
  BY DEF BitSeq
<1>3. \A i \in 1..ByteBits : q.data[i] = BitAt(sent, gave, i + (b + 1))
  <2> SUFFICES ASSUME NEW i \in 1..ByteBits
               PROVE  q.data[i] = BitAt(sent, gave, i + (b + 1))
    OBVIOUS
  <2>1. CASE i = ByteBits
    <3>1. q.data[i] = answer[1]
      BY <1>2, <2>1 DEF ShiftedData
    <3>2. answer[1] = gave[1 + b]
      <4>1. 1 \in 1..Len(answer)
        BY <1>2
      <4> QED
        BY <4>1 DEF PartWay
    <3>3. ~(i + (b + 1) <= ByteBits) /\ (i + (b + 1)) - ByteBits = 1 + b
      BY <1>1, <2>1
    <3> QED
      BY <3>1, <3>2, <3>3 DEF BitAt
  <2>2. CASE i # ByteBits
    <3>1. i + 1 \in 1..ByteBits /\ (i + 1) + b = i + (b + 1)
      BY <1>1, <2>2
    <3>2. q.data[i] = p.data[i + 1]
      BY <2>2 DEF ShiftedData
    <3>3. p.data[i + 1] = BitAt(sent, gave, (i + 1) + b)
      BY <3>1 DEF PartWay
    <3> QED
      BY <3>1, <3>2, <3>3
  <2> QED
    BY <2>1, <2>2
<1>4. \A i \in 1..Len(Tail(answer)) : Tail(answer)[i] = gave[i + (b + 1)]
  <2> SUFFICES ASSUME NEW i \in 1..Len(Tail(answer))
               PROVE  Tail(answer)[i] = gave[i + (b + 1)]
    OBVIOUS
  <2>1. i \in 1..(Len(answer) - 1)
    BY <1>2
  <2>2. i + 1 \in 1..Len(answer) /\ (i + 1) + b = i + (b + 1)
    BY <1>2, <2>1
  <2>3. answer[i + 1] = gave[(i + 1) + b]
    BY <2>2 DEF PartWay
  <2> QED
    BY <1>2, <2>1, <2>2, <2>3
<1> QED
  BY <1>3, <1>4 DEF PartWay

LEMMA PartWayDone ==
    ASSUME NEW p, p.data \in Byte, p.bits = ByteBits, NEW sent, NEW answer,
           NEW gave \in BitSeq, Len(gave) = ByteBits, PartWay(p, answer, sent, gave)
    PROVE  p.data = gave
<1>1. ByteBits \in Nat \ {0}
  BY PortAssumption
<1>2. \A i \in 1..ByteBits : p.data[i] = gave[i]
  <2> SUFFICES ASSUME NEW i \in 1..ByteBits PROVE p.data[i] = gave[i]
    OBVIOUS
  <2>1. ~(i + ByteBits <= ByteBits) /\ (i + ByteBits) - ByteBits = i
    BY <1>1
  <2> QED
    BY <2>1 DEF PartWay, BitAt
<1>3. DOMAIN gave = 1..ByteBits
  BY DEF BitSeq
<1>4. gave = [i \in 1..ByteBits |-> gave[i]]
  BY <1>3 DEF BitSeq
<1>5. p.data = [i \in 1..ByteBits |-> p.data[i]]
  BY DEF Byte
<1> QED
  BY <1>2, <1>4, <1>5

(* An edge that shifts: the byte goes on, or the last bit ends the request.*)
ShiftsBit(x, y, u, v) ==
    /\ Turn(x, y, u, v) /\ u.log = x.log
    /\ x.ep.pending # None /\ x.ep.answer # <<>>
    /\ u.port.data = ShiftedData(x.port.data, Head(x.ep.answer))
    /\ u.port.bits = x.port.bits + 1
    /\ u.ep.next = x.ep.next /\ u.ep.response = <<>>
    /\ u.ep.deferred = x.ep.deferred /\ u.ep.served = x.ep.served
    /\ u.ep.reply = x.ep.reply
    /\ \/ /\ Len(x.ep.answer) > 1 /\ Drives(u.port) /\ u.done = x.done
          /\ u.ep.answer = Tail(x.ep.answer) /\ u.ep.pending = x.ep.pending
       \/ /\ ~u.port.active /\ u.port.bits = ByteBits
          /\ u.done = x.done \cup {x.ep.pending.seq}
          /\ u.ep.answer = <<>> /\ u.ep.pending = None
    /\ Unasked(u) => Unasked(x)
    /\ y.up => SameCalls(y.wire, v.wire)

LEMMA ShiftsBitKeeps ==
    ASSUME NEW c \in Consoles, NEW x, NEW y, NEW u, NEW v, NEW k \in BOOLEAN,
           Both(c, x, y, k), ShiftsBit(x, y, u, v)
    PROVE  Both(c, u, v, k)
<1>1. Own(c, x, y) /\ Inbox(x, y) /\ (k => Paced(x, y))
  BY DEF Both, Good, ShiftsBit, Turn
<1>2. /\ Fewer(x.wire, u.wire) /\ v.ep = y.ep /\ v.log = y.log /\ v.port = y.port
      /\ v.done = y.done /\ u.log = x.log
      /\ u.ep.next = x.ep.next /\ u.ep.deferred = x.ep.deferred
      /\ u.ep.served = x.ep.served /\ u.ep.reply = x.ep.reply
      /\ x.ep.pending # None /\ x.ep.answer # <<>> /\ x.ep.pending.seq \in Nat
      /\ y.ep.pending # None => y.ep.pending.seq \in Nat
      /\ Turn(x, y, u, v) /\ v.up = y.up /\ x.up /\ u.up
  BY TypedFacts DEF ShiftsBit, Turn
<1>3. Drives(x.port) /\ Has(y.log, x.ep.pending.seq) /\ Unreplied(x)
  BY <1>1, <1>2 DEF Own, Shaped, TrueAnswer, TrueReplies, Unreplied
<1>4. Unreplied(u) \/ u.ep.pending = None
  BY <1>2, <1>3 DEF Unreplied, Fewer, ShiftsBit
<1>5. Own(c, u, v)
  <2>1. Shaped(u.port, u.ep)
    <3>1. /\ Len(x.ep.answer) \in Nat /\ x.port.bits \in Nat /\ ByteBits \in Nat
          /\ Len(x.ep.answer) > 1 => /\ Len(Tail(x.ep.answer)) = Len(x.ep.answer) - 1
                                     /\ Len(Tail(x.ep.answer)) \in Nat
                                     /\ Tail(x.ep.answer) # <<>>
      <4>1. x.ep.answer \in BitSeq /\ x.port.bits \in 0..ByteBits
        BY <1>2, TypedFacts DEF Turn
      <4>2. \A a \in BitSeq :
               /\ Len(a) \in Nat
               /\ Len(a) > 1 => /\ Len(Tail(a)) = Len(a) - 1
                                /\ Len(Tail(a)) \in Nat /\ Tail(a) # <<>>
        BY DEF BitSeq
      <4>3. ByteBits \in Nat
        BY PortAssumption
      <4> QED
        BY <4>1, <4>2, <4>3
    <3>2. x.port.bits + Len(x.ep.answer) = ByteBits
      BY <1>1, <1>2 DEF Own, Shaped
    <3>3. CASE Len(x.ep.answer) > 1 /\ u.ep.answer = Tail(x.ep.answer)
               /\ u.ep.pending = x.ep.pending /\ Drives(u.port)
      <4>1. u.ep.answer # <<>> /\ u.port.bits + Len(u.ep.answer) = ByteBits
        <5>2. /\ Len(u.ep.answer) = Len(x.ep.answer) - 1 /\ Len(u.ep.answer) \in Nat
              /\ u.port.bits = x.port.bits + 1
          <6>1. u.port.bits = x.port.bits + 1
            BY DEF ShiftsBit
          <6> QED
            BY <3>1, <3>3, <6>1
        <5>3. (x.port.bits + 1) + Len(u.ep.answer) = ByteBits
          <6> DEFINE b == x.port.bits
                     l == Len(x.ep.answer)
                     t == Len(u.ep.answer)
          <6>1. b \in Nat /\ l \in Nat /\ t \in Nat /\ ByteBits \in Nat
            BY <3>1, <5>2
          <6>2. b + l = ByteBits /\ t = l - 1
            BY <3>2, <5>2
          <6> HIDE DEF b, l, t
          <6>3. (b + 1) + t = ByteBits
            BY <6>1, <6>2
          <6> QED
            BY <6>3 DEF b, t
        <5> QED
          BY <3>1, <3>3, <5>2, <5>3
      <4> QED
        BY <1>1, <1>2, <3>3, <4>1 DEF Own, Shaped, ShiftsBit
    <3>4. CASE ~u.port.active /\ u.ep.answer = <<>> /\ u.ep.pending = None
      BY <3>4 DEF Shaped, ShiftsBit
    <3> QED
      BY <3>3, <3>4 DEF ShiftsBit
  <2>2. OldReplies(u)
    BY <1>1, <1>2 DEF Own, OldReplies, Fewer
  <2>3. OneReply(u)
    BY <1>1, <1>2 DEF Own, OneReply, Fewer, ShiftsBit
  <2>4. TrueReplies(u, v)
    BY <1>4 DEF TrueReplies, Unreplied
  <2>5. TrueAnswer(u, v)
    BY <1>2, <1>3 DEF TrueAnswer, ShiftsBit
  <2>6. HostWaits(c, u, v)
    BY <1>1, <1>2 DEF Own, HostWaits, Unasked, Fewer, ShiftsBit
  <2>7. Swaps(u, v)
    <3> SUFFICES ASSUME u.ep.pending # None, NEW z \in Range(y.log),
                        z.seq = u.ep.pending.seq
                 PROVE  /\ z.holds = u.ep.pending.bits /\ Len(z.gave) = ByteBits
                        /\ u.ep.answer # <<>> =>
                              PartWay(u.port, u.ep.answer, u.ep.pending.bits, z.gave)
      BY <1>2, <1>4 DEF Swaps, Unreplied
    <3>1. u.ep.pending = x.ep.pending /\ u.ep.answer = Tail(x.ep.answer)
      BY DEF ShiftsBit
    <3>2. /\ z.holds = x.ep.pending.bits /\ Len(z.gave) = ByteBits
          /\ PartWay(x.port, x.ep.answer, x.ep.pending.bits, z.gave)
      BY <1>1, <1>2, <3>1 DEF Own, Swaps
    <3>3. /\ x.port.data \in Byte /\ x.port.bits \in Nat /\ x.ep.answer \in BitSeq
      BY TypedFacts, PortAssumption DEF ShiftsBit, Turn
    <3>4. /\ u.port.data = ShiftedData(x.port.data, Head(x.ep.answer))
          /\ u.port.bits = x.port.bits + 1
      BY DEF ShiftsBit
    <3>5. PartWay(u.port, Tail(x.ep.answer), x.ep.pending.bits, z.gave)
      BY <1>2, <3>2, <3>3, <3>4, PartWayNext
    <3> QED
      BY <3>1, <3>2, <3>5
  <2> QED
    BY <2>1, <2>2, <2>3, <2>4, <2>5, <2>6, <2>7 DEF Own
<1>6. Inbox(u, v) /\ (k => Paced(u, v))
  <2>1. Inbox(u, v)
    BY <1>1, <1>2 DEF Inbox, NewestRequest, WholeDeferred, OwnReply, ServedOld, Fewer
  <2>2. k => Paced(u, v)
    BY <1>1, <1>2 DEF Paced, ShiftsBit
  <2> QED
    BY <2>1, <2>2
<1>7. CASE ~y.up
  BY <1>2, <1>5, <1>6, <1>7 DEF Both, Good
<1>8. CASE y.up
  <2>1. /\ Shared(c, x, y) /\ Shared(Peer(c), y, x) /\ SameCalls(y.wire, v.wire)
    BY <1>2, <1>8 DEF Both, Good, ShiftsBit
  <2>2. Own(Peer(c), v, u) /\ Inbox(v, u) /\ (k => Paced(v, u))
    BY <1>2, <1>8, <2>1, QuietPeer
  <2>3. Unasked(y) /\ y.ep.deferred = None
    BY <1>2, <2>1 DEF Shared, AskedNow, IsPutOff, Unasked
  <2>4. /\ \A p \in Requests : p \in Range(v.wire) <=> p \in Range(y.wire)
        /\ \A p \in Replies : p \in Range(v.wire) <=> p \in Range(y.wire)
        /\ \A p : \A s : p \in ReplyTo(s) => p \in Replies
    BY <2>1, CallSets DEF SameCalls
  <2>5. Unasked(v) /\ (Unreplied(y) => Unreplied(v))
    BY <1>2, <2>3, <2>4 DEF Unasked, Unreplied
  <2>6. Shared(c, u, v)
    <3>1. AskedNow(u, v) /\ AskedBefore(c, u, v)
      BY <2>5 DEF AskedNow, AskedBefore, Unasked
    <3>2. IsPutOff(u, v)
      BY <1>2, <2>3 DEF IsPutOff
    <3>3. ClockedByPeer(u, v) /\ CachedReply(u, v)
      BY <1>2, <2>1 DEF Shared, ClockedByPeer, CachedReply, ShiftsBit
    <3>4. Untorn(u, v)
      BY <1>2, <2>1 DEF Shared, Untorn, ShiftsBit
    <3> QED
      BY <3>1, <3>2, <3>3, <3>4 DEF Shared
  <2>7. Shared(Peer(c), v, u)
    <3>1. AskedNow(v, u)
      BY <1>2, <2>1, <2>5 DEF Shared, AskedNow, Fewer
    <3>2. AskedBefore(Peer(c), v, u)
      <4>1. y.ep.pending = None => Unasked(x)
        BY <1>2, <2>1 DEF Shared, AskedBefore
      <4>2. Unasked(x) => Unasked(u)
        BY <1>2 DEF Unasked, Fewer
      <4> QED
        BY <1>2, <4>1, <4>2 DEF AskedBefore
    <3>3. IsPutOff(v, u)
      BY <1>2, <1>3, <2>1 DEF Shared, IsPutOff
    <3>4. ClockedByPeer(v, u)
      BY <1>2, <1>3, <2>1 DEF Shared, ClockedByPeer
    <3>5. CachedReply(v, u) /\ Untorn(v, u)
      BY <1>2, <2>1 DEF Shared, CachedReply, Untorn
    <3> QED
      BY <3>1, <3>2, <3>3, <3>4, <3>5 DEF Shared
  <2>8. Peer(Peer(c)) = c
    BY SideFacts
  <2> QED
    BY <1>2, <1>5, <1>6, <2>2, <2>6, <2>7, <2>8 DEF Both, Good
<1> QED
  BY <1>7, <1>8

(* A reply to the request under way is taken from the queue.               *)
IsHead(p, w, v) ==
    /\ p \in Range(w) /\ p \in Packets /\ Range(v) \subseteq Range(w)
    /\ \A q \in Range(w) : q = p \/ q \in Range(v)
    /\ Once(w, Requests) /\ p \in Requests => \A q \in Range(v) : q \notin Requests
    /\ \A s \in Nat : Once(w, ReplyTo(s)) /\ p \in ReplyTo(s)
                         => \A q \in Range(v) : q \notin ReplyTo(s)
    /\ \A s \in Nat : Before(w, Requests, ReplyTo(s)) /\ p \in ReplyTo(s)
                         => \A q \in Range(w) : q \notin Requests

LEMMA HeadIsHead ==
    ASSUME NEW w \in Seq(Packets), w # <<>>
    PROVE  IsHead(Head(w), w, Tail(w))
<1>1. Range(Tail(w)) \subseteq Range(w)
  BY TailWithin, WithinFacts
<1> QED
  BY <1>1, HeadFacts, Zenon DEF IsHead

TakesReply(x, y, u, v, p) ==
    /\ Turn(x, y, u, v) /\ u.log = x.log /\ u.done = x.done
    /\ IsHead(p, x.wire, u.wire) /\ x.ep.pending # None
    /\ p \in ReplyTo(x.ep.pending.seq)
    /\ u.ep.next = x.ep.next /\ u.ep.response = <<>>
    /\ u.ep.deferred = x.ep.deferred /\ u.ep.served = x.ep.served
    /\ u.ep.reply = x.ep.reply
    /\ y.up => SameCalls(y.wire, v.wire)

IsRefused(x, y, u, v, p) ==
    /\ TakesReply(x, y, u, v, p) /\ p.kind # "response"
    /\ u.ep.pending = None /\ u.ep.answer = <<>>
    /\ u.port.bits = x.port.bits /\ (u.port = x.port \/ Follows(u.port))

IsAnswered(x, y, u, v, p) ==
    /\ TakesReply(x, y, u, v, p) /\ p.kind = "response" /\ u.port = x.port
    /\ u.ep.pending = x.ep.pending /\ u.ep.answer = p.bits

Lacks(w, s) == \A q \in Range(w) : q \notin ReplyTo(s)

\* What a reply that is taken says about both sides.
Taken(x, y, u, p) ==
    /\ x.ep.answer = <<>> /\ x.ep.deferred = None /\ Drives(x.port)
    /\ (p.kind = "response") <=> Has(y.log, x.ep.pending.seq)
    /\ p \in Replies /\ p.seq = x.ep.pending.seq /\ Len(p.bits) = ByteBits
    /\ Lacks(u.wire, x.ep.pending.seq)
    /\ Unasked(u) <=> Unasked(x)
    /\ y.up => /\ Unasked(y) /\ y.ep.deferred = None
               /\ y.ep.pending = None => Unasked(x)

LEMMA ReplyTaken ==
    ASSUME NEW c \in Consoles, NEW x, NEW y, NEW u, NEW v, NEW k \in BOOLEAN,
           NEW p, Both(c, x, y, k), TakesReply(x, y, u, v, p)
    PROVE  /\ Own(c, x, y) /\ Inbox(x, y) /\ (k => Paced(x, y))
           /\ Taken(x, y, u, p)
<1>1. /\ Own(c, x, y) /\ Inbox(x, y) /\ (k => Paced(x, y))
      /\ y.up => Shared(c, x, y) /\ Shared(Peer(c), y, x)
  BY DEF Both, Good, TakesReply, Turn
<1>2. /\ x.ep.pending # None /\ p \in ReplyTo(x.ep.pending.seq) /\ p \in Range(x.wire)
      /\ IsHead(p, x.wire, u.wire) /\ x.ep.pending.seq \in Nat
  BY TypedFacts DEF TakesReply, IsHead, Turn
<1>3. p \in Replies /\ p.seq = x.ep.pending.seq /\ p \notin Requests
  BY <1>2, CallSets DEF ReplyTo
<1>4. Len(p.bits) = ByteBits
  BY <1>1, <1>2, <1>3 DEF Own, OldReplies
<1>5. /\ x.ep.answer = <<>> /\ x.ep.deferred = None /\ Drives(x.port)
      /\ (p.kind = "response") <=> Has(y.log, x.ep.pending.seq)
  BY <1>1, <1>2 DEF Own, TrueReplies, Shaped
<1>6. Lacks(u.wire, x.ep.pending.seq)
  BY <1>1, <1>2 DEF Own, OneReply, IsHead, Lacks
<1>7. Unasked(u) <=> Unasked(x)
  BY <1>2, <1>3 DEF Unasked, IsHead
<1>8. ASSUME y.up PROVE /\ Unasked(y) /\ y.ep.deferred = None
                        /\ y.ep.pending = None => Unasked(x)
  <2>1. Unasked(y)
    BY <1>1, <1>2, <1>8 DEF Shared, AskedNow, Unreplied, Unasked
  <2>2. y.ep.deferred = None
    BY <1>1, <1>2, <1>8 DEF Shared, IsPutOff, Unreplied
  <2>3. y.ep.pending = None => Unasked(x)
    BY <1>1, <1>2, <1>8 DEF Shared, AskedBefore, Unasked, IsHead
  <2> QED
    BY <2>1, <2>2, <2>3
<1>9. Taken(x, y, u, p)
  BY <1>3, <1>4, <1>5, <1>6, <1>7, <1>8 DEF Taken
<1> QED
  BY <1>1, <1>9

LEMMA ReplyTakenShared ==
    ASSUME NEW c \in Consoles, NEW x, NEW y, NEW u, NEW v, NEW k \in BOOLEAN,
           NEW p, Both(c, x, y, k), TakesReply(x, y, u, v, p), y.up,
           Drives(u.port) => Drives(x.port),
           u.ep.pending = None => ~Has(y.log, x.ep.pending.seq),
           u.ep.pending \in {None, x.ep.pending}
    PROVE  Shared(c, u, v) /\ Shared(Peer(c), v, u)
<1>1. Shared(c, x, y) /\ Shared(Peer(c), y, x)
  BY DEF Both, Good, TakesReply, Turn
<1>2. /\ v.ep = y.ep /\ v.log = y.log /\ v.port = y.port
      /\ v.done = y.done /\ u.log = x.log /\ u.done = x.done
      /\ u.ep.deferred = x.ep.deferred /\ u.ep.served = x.ep.served
      /\ u.ep.reply = x.ep.reply /\ x.ep.pending # None
      /\ Fewer(x.wire, u.wire) /\ SameCalls(y.wire, v.wire)
  BY DEF TakesReply, Turn
<1>3. /\ x.ep.deferred = None /\ (Unasked(u) <=> Unasked(x))
      /\ Unasked(y) /\ y.ep.deferred = None
      /\ y.ep.pending = None => Unasked(x)
  <2>1. Taken(x, y, u, p)
    BY ReplyTaken
  <2> QED
    BY <2>1 DEF Taken
<1>4. /\ \A q \in Requests : q \in Range(v.wire) <=> q \in Range(y.wire)
      /\ \A q \in Replies : q \in Range(v.wire) <=> q \in Range(y.wire)
      /\ \A q : \A s : q \in ReplyTo(s) => q \in Replies
  BY <1>2, CallSets DEF SameCalls
<1>5. Unasked(v) /\ (Unreplied(y) => Unreplied(v))
  BY <1>2, <1>3, <1>4 DEF Unasked, Unreplied
<1>6. Shared(c, u, v)
  <2>1. AskedNow(u, v) /\ AskedBefore(c, u, v)
    BY <1>5 DEF AskedNow, AskedBefore, Unasked
  <2>2. IsPutOff(u, v)
    BY <1>2, <1>3 DEF IsPutOff
  <2>3. ClockedByPeer(u, v) /\ CachedReply(u, v)
    BY <1>1, <1>2 DEF Shared, ClockedByPeer, CachedReply
  <2>4. Untorn(u, v)
    BY <1>1, <1>2 DEF Shared, Untorn, Has
  <2> QED
    BY <2>1, <2>2, <2>3, <2>4 DEF Shared
<1>7. Shared(Peer(c), v, u)
  <2>1. AskedNow(v, u)
    BY <1>1, <1>2, <1>5 DEF Shared, AskedNow, Fewer
  <2>2. AskedBefore(Peer(c), v, u)
    BY <1>2, <1>3 DEF AskedBefore
  <2>3. IsPutOff(v, u)
    BY <1>2, <1>3 DEF IsPutOff
  <2>4. ClockedByPeer(v, u)
    BY <1>1, <1>2 DEF Shared, ClockedByPeer
  <2>5. CachedReply(v, u) /\ Untorn(v, u)
    BY <1>1, <1>2 DEF Shared, CachedReply, Untorn
  <2> QED
    BY <2>1, <2>2, <2>3, <2>4, <2>5 DEF Shared
<1> QED
  BY <1>6, <1>7

LEMMA IsRefusedKeeps ==
    ASSUME NEW c \in Consoles, NEW x, NEW y, NEW u, NEW v, NEW k \in BOOLEAN,
           NEW p, Both(c, x, y, k), IsRefused(x, y, u, v, p)
    PROVE  Both(c, u, v, k)
<1>1. TakesReply(x, y, u, v, p)
  BY DEF IsRefused
<1>2. /\ Own(c, x, y) /\ Inbox(x, y) /\ (k => Paced(x, y))
      /\ x.ep.answer = <<>> /\ Drives(x.port) /\ ~Has(y.log, x.ep.pending.seq)
      /\ (Unasked(u) <=> Unasked(x))
  <2>1. p.kind # "response"
    BY DEF IsRefused
  <2>2. /\ Own(c, x, y) /\ Inbox(x, y) /\ (k => Paced(x, y))
        /\ Taken(x, y, u, p)
    BY <1>1, ReplyTaken
  <2> QED
    BY <2>1, <2>2 DEF Taken
<1>3. /\ Fewer(x.wire, u.wire) /\ v.ep = y.ep /\ v.log = y.log
      /\ u.ep.next = x.ep.next /\ u.ep.pending = None /\ u.ep.answer = <<>>
      /\ u.ep.response = <<>> /\ u.ep.deferred = x.ep.deferred
      /\ u.ep.served = x.ep.served /\ u.ep.reply = x.ep.reply
      /\ u.port.bits = x.port.bits /\ (u.port = x.port \/ Follows(u.port))
      /\ Turn(x, y, u, v) /\ u.log = x.log /\ v.up = y.up /\ x.up /\ u.up
      /\ x.ep.pending # None
  BY DEF IsRefused, TakesReply, Turn
<1>4. Own(c, u, v)
  <2>1. Shaped(u.port, u.ep)
    BY <1>2, <1>3 DEF Own, Shaped, Drives
  <2>2. OldReplies(u)
    BY <1>2, <1>3 DEF Own, OldReplies, Fewer
  <2> QED
    BY <1>3, <2>1, <2>2
       DEF Own, OneReply, TrueReplies, TrueAnswer, HostWaits, Swaps
<1>5. Inbox(u, v) /\ (k => Paced(u, v))
  <2>1. Inbox(u, v)
    BY <1>2, <1>3 DEF Inbox, NewestRequest, WholeDeferred, OwnReply, ServedOld, Fewer
  <2>2. k => Paced(u, v)
    BY <1>2, <1>3 DEF Paced
  <2> QED
    BY <2>1, <2>2
<1>6. CASE ~y.up
  BY <1>3, <1>4, <1>5, <1>6 DEF Both, Good
<1>7. CASE y.up
  <2>1. SameCalls(y.wire, v.wire)
    BY <1>1, <1>7 DEF TakesReply
  <2>2. Own(Peer(c), v, u) /\ Inbox(v, u) /\ (k => Paced(v, u))
    BY <1>3, <1>7, <2>1, QuietPeer
  <2>3. Drives(u.port) => Drives(x.port)
    BY <1>2
  <2>4. Shared(c, u, v) /\ Shared(Peer(c), v, u)
    BY <1>1, <1>2, <1>3, <1>7, <2>3, ReplyTakenShared
  <2>5. Peer(Peer(c)) = c
    BY SideFacts
  <2> QED
    BY <1>3, <1>4, <1>5, <2>2, <2>4, <2>5 DEF Both, Good
<1> QED
  BY <1>6, <1>7

LEMMA IsAnsweredKeeps ==
    ASSUME NEW c \in Consoles, NEW x, NEW y, NEW u, NEW v, NEW k \in BOOLEAN,
           NEW p, Both(c, x, y, k), IsAnswered(x, y, u, v, p)
    PROVE  Both(c, u, v, k)
<1>1. TakesReply(x, y, u, v, p)
  BY DEF IsAnswered
<1>2. /\ Own(c, x, y) /\ Inbox(x, y) /\ (k => Paced(x, y))
      /\ x.ep.answer = <<>> /\ Drives(x.port) /\ Has(y.log, x.ep.pending.seq)
      /\ Lacks(u.wire, x.ep.pending.seq) /\ Len(p.bits) = ByteBits
      /\ (Unasked(u) <=> Unasked(x))
  <2>1. p.kind = "response"
    BY DEF IsAnswered
  <2>2. /\ Own(c, x, y) /\ Inbox(x, y) /\ (k => Paced(x, y))
        /\ Taken(x, y, u, p)
    BY <1>1, ReplyTaken
  <2> QED
    BY <2>1, <2>2 DEF Taken
<1>3. /\ Fewer(x.wire, u.wire) /\ v.ep = y.ep /\ v.log = y.log
      /\ u.ep.next = x.ep.next /\ u.ep.pending = x.ep.pending /\ u.ep.answer = p.bits
      /\ u.ep.response = <<>> /\ u.ep.deferred = x.ep.deferred
      /\ u.ep.served = x.ep.served /\ u.ep.reply = x.ep.reply /\ u.port = x.port
      /\ Turn(x, y, u, v) /\ u.log = x.log /\ v.up = y.up /\ x.up /\ u.up
      /\ x.ep.pending # None
  BY DEF IsAnswered, TakesReply, Turn
<1>4. Unreplied(u) /\ p \in Range(x.wire) /\ p \in ReplyTo(x.ep.pending.seq)
  BY <1>1, <1>2, <1>3 DEF Unreplied, TakesReply, IsHead, Lacks
<1>5. Own(c, u, v)
  <2>1. x.port.bits = 0 /\ x.ep.pending.bits = x.port.data
    BY <1>2, <1>3 DEF Own, Shaped, Drives
  <2>2. ByteBits \in Nat \ {0}
    BY PortAssumption
  <2>3. Shaped(u.port, u.ep)
    <3>1. u.port.bits + Len(u.ep.answer) = ByteBits /\ u.ep.answer # <<>>
      <4>1. Len(<<>>) = 0
        OBVIOUS
      <4> QED
        BY <1>2, <1>3, <2>1, <2>2, <4>1
    <3> QED
      BY <1>2, <1>3, <3>1 DEF Own, Shaped
  <2>4. OldReplies(u)
    BY <1>2, <1>3 DEF Own, OldReplies, Fewer
  <2>5. OneReply(u)
    <3>1. \A i \in DOMAIN u.wire : u.wire[i] \notin ReplyTo(u.ep.pending.seq)
      BY <1>4 DEF Unreplied, Range
    <3> QED
      BY <3>1, Zenon DEF OneReply, Once
  <2>6. TrueReplies(u, v)
    BY <1>4 DEF TrueReplies, Unreplied
  <2>7. TrueAnswer(u, v)
    BY <1>2, <1>3 DEF TrueAnswer
  <2>8. HostWaits(c, u, v)
    BY <1>2, <1>3 DEF Own, HostWaits
  <2>9. Swaps(u, v)
    <3> SUFFICES ASSUME NEW z \in Range(y.log), z.seq = u.ep.pending.seq
                 PROVE  /\ z.holds = u.ep.pending.bits /\ Len(z.gave) = ByteBits
                        /\ PartWay(u.port, u.ep.answer, u.ep.pending.bits, z.gave)
      BY <1>3, <1>4 DEF Swaps, Unreplied
    <3>1. z.holds = x.ep.pending.bits /\ Len(z.gave) = ByteBits /\ p.bits = z.gave
      BY <1>2, <1>3, <1>4 DEF Own, Swaps
    <3>2. PartWay(u.port, u.ep.answer, u.ep.pending.bits, z.gave)
      <4>1. /\ u.port.bits = 0 /\ u.ep.answer = z.gave
            /\ u.port.data = u.ep.pending.bits /\ Len(u.ep.answer) = ByteBits
        BY <1>2, <1>3, <2>1, <3>1
      <4>2. \A i \in 1..ByteBits : i + 0 = i /\ i + 0 <= ByteBits
        BY <2>2
      <4> QED
        BY <4>1, <4>2 DEF PartWay, BitAt
    <3> QED
      BY <1>3, <3>1, <3>2
  <2> QED
    BY <2>3, <2>4, <2>5, <2>6, <2>7, <2>8, <2>9 DEF Own
<1>6. Inbox(u, v) /\ (k => Paced(u, v))
  <2>1. Inbox(u, v)
    BY <1>2, <1>3 DEF Inbox, NewestRequest, WholeDeferred, OwnReply, ServedOld, Fewer
  <2>2. k => Paced(u, v)
    BY <1>2, <1>3 DEF Paced
  <2> QED
    BY <2>1, <2>2
<1>7. CASE ~y.up
  BY <1>3, <1>5, <1>6, <1>7 DEF Both, Good
<1>8. CASE y.up
  <2>1. SameCalls(y.wire, v.wire)
    BY <1>1, <1>8 DEF TakesReply
  <2>2. Own(Peer(c), v, u) /\ Inbox(v, u) /\ (k => Paced(v, u))
    BY <1>3, <1>8, <2>1, QuietPeer
  <2>3. Shared(c, u, v) /\ Shared(Peer(c), v, u)
    BY <1>1, <1>3, <1>8, ReplyTakenShared
  <2>4. Peer(Peer(c)) = c
    BY SideFacts
  <2> QED
    BY <1>3, <1>5, <1>6, <2>2, <2>3, <2>4 DEF Both, Good
<1> QED
  BY <1>7, <1>8

-----------------------------------------------------------------------------
(* A request that is served: from the head of the queue, or one that was   *)
(* put off.                                                                *)
Serving(x, y, u, v, q, k) ==
    /\ Turn(x, y, u, v) /\ u.done = x.done /\ u.ep.next = x.ep.next
    /\ u.ep.response = <<>> /\ u.ep.answer = x.ep.answer
    /\ q \in Requests /\ u.ep.served = q.seq
    /\ \A z \in Range(x.log) : z.seq < q.seq
    /\ \/ IsHead(q, x.wire, u.wire)
       \/ /\ x.ep.deferred # None /\ q = x.ep.deferred /\ x.ep.served = q.seq
          /\ ~Drives(x.port)

\* What such a request is to the two sides.
Due(c, x, y, u, q) ==
    /\ q.seq \in Nat /\ Len(q.bits) = ByteBits /\ q.seq < y.ep.next /\ Unasked(u)
    /\ ~Has(x.log, q.seq)
    /\ Drives(x.port) => ~Unasked(x) /\ x.ep.deferred = None
    /\ y.up => \/ /\ y.ep.pending # None /\ q = y.ep.pending /\ y.ep.answer = <<>>
                  /\ Unreplied(y) /\ y.ep.deferred = None
               \/ y.ep.pending = None /\ c = Host /\ Drives(x.port)

LEMMA ServingIsDue ==
    ASSUME NEW c \in Consoles, NEW x, NEW y, NEW u, NEW v, NEW k \in BOOLEAN,
           NEW q, Both(c, x, y, k), Serving(x, y, u, v, q, k)
    PROVE  Due(c, x, y, u, q) /\ (k => q.seq + 1 = y.ep.next)
<1>1. /\ Own(c, x, y) /\ Inbox(x, y) /\ (k => Paced(x, y))
      /\ y.up => /\ Shared(c, x, y) /\ Shared(Peer(c), y, x) /\ Own(Peer(c), y, x)
  BY DEF Both, Good, Serving, Turn
<1>2. /\ q \in Requests /\ q.seq \in Nat /\ y.ep.next \in Nat
      /\ Fewer(x.wire, u.wire) /\ Turn(x, y, u, v)
      /\ \A z \in Range(x.log) : z.seq < q.seq /\ z.seq \in Nat
  BY TypedFacts DEF Serving, Requests, Turn
<1>3. ~Has(x.log, q.seq)
  BY <1>2 DEF Has
<1>4. y.up => (y.ep.pending # None => Drives(y.port))
  BY <1>1 DEF Own, Shaped
<1>5. CASE IsHead(q, x.wire, u.wire)
  <2>1. q \in Range(x.wire) /\ ~Unasked(x)
    BY <1>2, <1>5 DEF IsHead, Unasked
  <2>2. Len(q.bits) = ByteBits /\ q.seq + 1 = y.ep.next /\ x.ep.deferred = None
    BY <1>1, <1>2, <2>1 DEF Inbox, NewestRequest
  <2>3. Unasked(u)
    BY <1>1, <1>2, <1>5 DEF Inbox, IsHead, Unasked
  <2>4. q.seq < y.ep.next
    BY <1>2, <2>2
  <2>5. ASSUME y.up
        PROVE  \/ /\ y.ep.pending # None /\ q = y.ep.pending /\ y.ep.answer = <<>>
                  /\ Unreplied(y) /\ y.ep.deferred = None
               \/ y.ep.pending = None /\ c = Host /\ Drives(x.port)
    <3>1. CASE y.ep.pending # None
      <4>1. q = y.ep.pending /\ y.ep.answer = <<>> /\ Unreplied(y)
        BY <1>1, <1>2, <2>1, <2>5, <3>1 DEF Shared, AskedNow
      <4>2. y.ep.deferred = None
        BY <1>1, <1>4, <2>5, <3>1 DEF Shared, IsPutOff
      <4> QED
        BY <3>1, <4>1, <4>2
    <3>2. CASE y.ep.pending = None
      <4>1. Peer(c) = Join /\ x.ep.pending # None
        <5>1. AskedBefore(Peer(c), y, x)
          BY <1>1, <2>5 DEF Shared
        <5> QED
          BY <2>1, <3>2, <5>1 DEF AskedBefore
      <4>2. c = Host
        BY <4>1, EndpointAssumption DEF Peer
      <4>3. Drives(x.port)
        BY <1>1, <4>1 DEF Own, Shaped
      <4> QED
        BY <3>2, <4>2, <4>3
    <3> QED
      BY <3>1, <3>2
  <2> QED
    BY <1>2, <1>3, <2>1, <2>2, <2>3, <2>4, <2>5 DEF Due
<1>6. CASE /\ x.ep.deferred # None /\ q = x.ep.deferred /\ x.ep.served = q.seq
           /\ ~Drives(x.port)
  <2>1. Unasked(x) /\ Len(q.bits) = ByteBits
    BY <1>1, <1>6 DEF Inbox, NewestRequest, WholeDeferred, Unasked
  <2>2. Unasked(u)
    BY <1>2, <2>1 DEF Unasked, Fewer
  <2>3. q.seq # None
    BY <1>2, EndpointAssumption
  <2>4. q.seq < y.ep.next /\ (k => q.seq + 1 = y.ep.next)
    BY <1>1, <1>6, <2>1, <2>3 DEF Inbox, ServedOld, Paced
  <2>5. ASSUME y.up
        PROVE  /\ y.ep.pending # None /\ q = y.ep.pending /\ y.ep.answer = <<>>
               /\ Unreplied(y) /\ y.ep.deferred = None
    <3>1. q = y.ep.pending /\ q # None /\ y.ep.answer = <<>> /\ Unreplied(y)
      BY <1>1, <1>6, <2>5 DEF Shared, IsPutOff
    <3>2. y.ep.deferred = None
      BY <1>1, <1>4, <2>5, <3>1 DEF Shared, IsPutOff
    <3> QED
      BY <3>1, <3>2
  <2> QED
    BY <1>2, <1>3, <1>6, <2>1, <2>2, <2>4, <2>5 DEF Due
<1> QED
  BY <1>5, <1>6 DEF Serving

\* It is put off: nobody is armed.
IsDeferred(x, y, u, v, q, k) ==
    /\ Serving(x, y, u, v, q, k) /\ ~x.port.active /\ u.port = x.port
    /\ u.ep.pending = x.ep.pending /\ u.ep.deferred = q /\ u.ep.reply = None
    /\ u.log = x.log
    /\ y.up => SameCalls(y.wire, v.wire)

LEMMA IsDeferredKeeps ==
    ASSUME NEW c \in Consoles, NEW x, NEW y, NEW u, NEW v, NEW k \in BOOLEAN,
           NEW q, Both(c, x, y, k), IsDeferred(x, y, u, v, q, k)
    PROVE  Both(c, u, v, k)
<1>1. Own(c, x, y) /\ Inbox(x, y)
  BY DEF Both, Good, IsDeferred, Serving, Turn
<1>2. /\ Serving(x, y, u, v, q, k) /\ Turn(x, y, u, v)
      /\ Fewer(x.wire, u.wire) /\ v.ep = y.ep /\ v.log = y.log /\ v.port = y.port
      /\ v.done = y.done /\ u.log = x.log /\ u.done = x.done /\ u.port = x.port
      /\ ~x.port.active /\ u.ep.next = x.ep.next /\ u.ep.pending = x.ep.pending
      /\ u.ep.answer = x.ep.answer /\ u.ep.response = <<>> /\ u.ep.deferred = q
      /\ u.ep.served = q.seq /\ u.ep.reply = None /\ v.up = y.up /\ x.up /\ u.up
  BY DEF IsDeferred, Serving, Turn
<1>3. Due(c, x, y, u, q) /\ (k => q.seq + 1 = y.ep.next)
  BY <1>2, ServingIsDue
<1>4. ~Drives(x.port) /\ x.ep.pending = None
  BY <1>1, <1>2 DEF Own, Shaped, Drives
<1>5. Own(c, u, v)
  <2>1. Shaped(u.port, u.ep)
    BY <1>1, <1>2, <1>4 DEF Own, Shaped
  <2>2. OldReplies(u)
    BY <1>1, <1>2 DEF Own, OldReplies, Fewer
  <2> QED
    BY <1>2, <1>4, <2>1, <2>2
       DEF Own, OneReply, TrueReplies, TrueAnswer, HostWaits, Swaps
<1>6. Inbox(u, v) /\ (k => Paced(u, v))
  <2>1. NewestRequest(u, v)
    BY <1>3 DEF Due, NewestRequest, Unasked
  <2>2. WholeDeferred(u) /\ OwnReply(u) /\ ServedOld(u, v)
    BY <1>2, <1>3 DEF Due, WholeDeferred, OwnReply, ServedOld
  <2>3. Once(u.wire, Requests)
    BY <1>1, <1>2 DEF Inbox, Fewer
  <2>4. k => Paced(u, v)
    BY <1>2, <1>3 DEF Paced
  <2> QED
    BY <2>1, <2>2, <2>3, <2>4 DEF Inbox
<1>7. CASE ~y.up
  BY <1>2, <1>5, <1>6, <1>7 DEF Both, Good
<1>8. CASE y.up
  <2>1. /\ Shared(c, x, y) /\ Shared(Peer(c), y, x) /\ SameCalls(y.wire, v.wire)
    BY <1>2, <1>8 DEF Both, Good, IsDeferred
  <2>2. Own(Peer(c), v, u) /\ Inbox(v, u) /\ (k => Paced(v, u))
    BY <1>2, <1>8, <2>1, QuietPeer
  <2>3. /\ y.ep.pending # None /\ q = y.ep.pending /\ y.ep.answer = <<>>
        /\ Unreplied(y) /\ y.ep.deferred = None /\ Unasked(u) /\ ~Has(x.log, q.seq)
    BY <1>3, <1>4, <1>8 DEF Due
  <2>4. /\ \A p \in Requests : p \in Range(v.wire) <=> p \in Range(y.wire)
        /\ \A p \in Replies : p \in Range(v.wire) <=> p \in Range(y.wire)
        /\ \A p : \A s : p \in ReplyTo(s) => p \in Replies
        /\ y.ep.pending # None => y.ep.pending.seq \in Nat
    BY <1>2, <2>1, CallSets, TypedFacts DEF SameCalls, Turn
  <2>5. (Unasked(y) <=> Unasked(v)) /\ Unreplied(v)
    BY <1>2, <2>3, <2>4 DEF Unasked, Unreplied
  <2>6. Shared(c, u, v)
    <3>1. AskedNow(u, v)
      BY <1>2, <1>4 DEF AskedNow
    <3>2. AskedBefore(c, u, v)
      BY <1>2, <1>4, <2>1, <2>4, <2>5 DEF Shared, AskedBefore, SameCalls
    <3>3. IsPutOff(u, v)
      BY <1>2, <2>3 DEF IsPutOff
    <3>4. ClockedByPeer(u, v) /\ CachedReply(u, v)
      BY <1>2, <1>4 DEF ClockedByPeer, CachedReply
    <3>5. Untorn(u, v)
      BY <1>2, <1>4, <2>1 DEF Shared, Untorn
    <3> QED
      BY <3>1, <3>2, <3>3, <3>4, <3>5 DEF Shared
  <2>7. Shared(Peer(c), v, u)
    <3>1. AskedNow(v, u)
      BY <2>3 DEF AskedNow, Unasked
    <3>2. AskedBefore(Peer(c), v, u)
      BY <2>3 DEF AskedBefore
    <3>3. IsPutOff(v, u)
      BY <1>2, <1>4, <2>3, <2>5 DEF IsPutOff
    <3>4. ClockedByPeer(v, u) /\ CachedReply(v, u)
      BY <1>2, <2>3 DEF ClockedByPeer, CachedReply
    <3>5. Untorn(v, u)
      BY <1>2, <2>1 DEF Shared, Untorn
    <3> QED
      BY <3>1, <3>2, <3>3, <3>4, <3>5 DEF Shared
  <2>8. Peer(Peer(c)) = c
    BY SideFacts
  <2> QED
    BY <1>2, <1>5, <1>6, <2>2, <2>6, <2>7, <2>8 DEF Both, Good
<1> QED
  BY <1>7, <1>8

\* It is declined: the host drives, or nobody was armed for too long.
IsDeclined(x, y, u, v, q, k) ==
    /\ Serving(x, y, u, v, q, k) /\ u.port = x.port /\ u.ep.pending = x.ep.pending
    /\ u.ep.deferred = None /\ u.log = x.log
    /\ u.ep.reply \in Replies /\ u.ep.reply.seq = q.seq /\ u.ep.reply.bits = q.bits
    /\ u.ep.reply.kind # "response"
    /\ y.up => MoreCalls(y.wire, v.wire, u.ep.reply)

LEMMA IsDeclinedKeeps ==
    ASSUME NEW c \in Consoles, NEW x, NEW y, NEW u, NEW v, NEW k \in BOOLEAN,
           NEW q, Both(c, x, y, k), IsDeclined(x, y, u, v, q, k)
    PROVE  Both(c, u, v, k)
<1> DEFINE p == u.ep.reply
<1>1. Own(c, x, y) /\ Inbox(x, y)
  BY DEF Both, Good, IsDeclined, Serving, Turn
<1>2. /\ Serving(x, y, u, v, q, k) /\ Turn(x, y, u, v)
      /\ Fewer(x.wire, u.wire) /\ v.ep = y.ep /\ v.log = y.log /\ v.port = y.port
      /\ v.done = y.done /\ u.log = x.log /\ u.done = x.done /\ u.port = x.port
      /\ u.ep.next = x.ep.next /\ u.ep.pending = x.ep.pending
      /\ u.ep.answer = x.ep.answer /\ u.ep.response = <<>> /\ u.ep.deferred = None
      /\ u.ep.served = q.seq /\ v.up = y.up /\ x.up /\ u.up
      /\ p \in Replies /\ p.seq = q.seq /\ p.bits = q.bits /\ p.kind # "response"
  BY DEF IsDeclined, Serving, Turn
<1>3. Due(c, x, y, u, q) /\ (k => q.seq + 1 = y.ep.next)
  BY <1>2, ServingIsDue
<1>4. /\ x.ep.pending # None => x.ep.pending.seq \in Nat
      /\ y.ep.pending # None => y.ep.pending.seq \in Nat
      /\ Unasked(u) /\ Len(p.bits) = ByteBits /\ p.seq < y.ep.next
  BY <1>2, <1>3, TypedFacts DEF Turn, Due
<1>5. Own(c, u, v)
  <2>1. Shaped(u.port, u.ep)
    BY <1>1, <1>2 DEF Own, Shaped
  <2>2. OldReplies(u)
    BY <1>1, <1>2 DEF Own, OldReplies, Fewer
  <2>3. OneReply(u)
    BY <1>1, <1>2, <1>4 DEF Own, OneReply, Fewer
  <2>4. TrueReplies(u, v)
    BY <1>1, <1>2 DEF Own, TrueReplies, Fewer
  <2>5. TrueAnswer(u, v)
    BY <1>1, <1>2 DEF Own, TrueAnswer
  <2>6. HostWaits(c, u, v)
    BY <1>4 DEF HostWaits
  <2>7. Swaps(u, v)
    BY <1>1, <1>2 DEF Own, Swaps, Fewer
  <2> QED
    BY <2>1, <2>2, <2>3, <2>4, <2>5, <2>6, <2>7 DEF Own
<1>6. Inbox(u, v) /\ (k => Paced(u, v))
  <2>1. NewestRequest(u, v)
    BY <1>4 DEF NewestRequest, Unasked
  <2>2. WholeDeferred(u) /\ OwnReply(u) /\ ServedOld(u, v)
    BY <1>2, <1>4 DEF WholeDeferred, OwnReply, ServedOld
  <2>3. Once(u.wire, Requests)
    BY <1>1, <1>2 DEF Inbox, Fewer
  <2>4. k => Paced(u, v)
    BY <1>2, <1>3 DEF Paced
  <2> QED
    BY <2>1, <2>2, <2>3, <2>4 DEF Inbox
<1>7. CASE ~y.up
  BY <1>2, <1>5, <1>6, <1>7 DEF Both, Good
<1>8. CASE y.up
  <2>1. /\ Shared(c, x, y) /\ Shared(Peer(c), y, x) /\ MoreCalls(y.wire, v.wire, p)
    BY <1>2, <1>8 DEF Both, Good, IsDeclined
  <2>2. /\ ~Has(x.log, q.seq)
        /\ \/ /\ y.ep.pending # None /\ q = y.ep.pending /\ y.ep.answer = <<>>
              /\ Unreplied(y) /\ y.ep.deferred = None
           \/ y.ep.pending = None
    BY <1>3, <1>8 DEF Due
  <2> HIDE DEF p
  <2>3. Own(Peer(c), v, u) /\ Inbox(v, u) /\ (k => Paced(v, u))
    <3>1. ~Has(u.log, p.seq) /\ \A z \in Range(u.log) : z.seq # p.seq
      BY <1>2, <2>2 DEF Has
    <3>2. \/ y.ep.pending = None
          \/ /\ y.ep.pending # None /\ y.ep.pending.seq = p.seq
             /\ y.ep.answer = <<>> /\ Unreplied(y) /\ y.ep.deferred = None
             /\ (p.kind = "response") <=> Has(u.log, p.seq)
             /\ \A z \in Range(u.log) :
                   z.seq = p.seq => /\ z.holds = y.ep.pending.bits
                                    /\ Len(z.gave) = ByteBits /\ p.bits = z.gave
             /\ Peer(c) = Join /\ Has(u.log, p.seq) => Unasked(y)
      BY <1>2, <2>2, <3>1
    <3> QED
      BY <1>2, <1>4, <1>8, <2>1, <3>2, RepliedPeer
  <2>4. /\ \A r \in Requests : r \in Range(v.wire) <=> r \in Range(y.wire)
        /\ p \notin Requests
    BY <1>2, <2>1, CallSets DEF MoreCalls
  <2>5. /\ Unasked(y) <=> Unasked(v)
        /\ x.ep.pending # None /\ Unreplied(x) => Unreplied(u)
    BY <1>2, <2>4 DEF Unasked, Unreplied, Fewer
  <2>6. Shared(c, u, v)
    <3>1. AskedNow(u, v)
      BY <1>2, <2>1, <2>4, <2>5 DEF Shared, AskedNow
    <3>2. AskedBefore(c, u, v)
      BY <1>2, <1>4, <2>1, <2>4, <2>5 DEF Shared, AskedBefore, MoreCalls
    <3>3. IsPutOff(u, v)
      BY <1>2, <2>1, <2>5 DEF Shared, IsPutOff
    <3>4. ClockedByPeer(u, v) /\ CachedReply(u, v) /\ Untorn(u, v)
      BY <1>2, <2>1 DEF Shared, ClockedByPeer, CachedReply, Untorn
    <3> QED
      BY <3>1, <3>2, <3>3, <3>4 DEF Shared
  <2>7. Shared(Peer(c), v, u)
    <3>1. AskedNow(v, u) /\ AskedBefore(Peer(c), v, u)
      BY <1>4 DEF AskedNow, AskedBefore, Unasked
    <3>2. IsPutOff(v, u)
      BY <1>2 DEF IsPutOff
    <3>3. y.ep.pending # None => y.ep.pending.seq = q.seq /\ ~Has(u.log, q.seq)
      BY <1>2, <2>2
    <3>4. ClockedByPeer(v, u)
      BY <1>2, <3>3 DEF ClockedByPeer
    <3>5. CachedReply(v, u)
      BY <1>2, <3>3 DEF CachedReply, Has, p
    <3>6. Untorn(v, u)
      BY <1>2, <2>1 DEF Shared, Untorn
    <3> QED
      BY <3>1, <3>2, <3>4, <3>5, <3>6 DEF Shared
  <2>8. Peer(Peer(c)) = c
    BY SideFacts
  <2> QED
    BY <1>2, <1>5, <1>6, <2>3, <2>6, <2>7, <2>8 DEF Both, Good
<1> QED
  BY <1>7, <1>8

\* It is clocked into the guest's port; a driving joiner yields for that.
IsGiven(c, x, y, u, v, q, k) ==
    /\ Serving(x, y, u, v, q, k) /\ (Drives(x.port) => c = Join)
    /\ u.ep.pending = None /\ ~u.port.active
    /\ u.port.data = q.bits
    /\ u.ep.deferred = None
    /\ u.ep.reply \in Replies /\ u.ep.reply # None /\ u.ep.reply.seq = q.seq
    /\ u.ep.reply.kind = "response" /\ Len(u.ep.reply.bits) = ByteBits
    /\ \A z : z \in Range(u.log) <=>
                 z \in Range(x.log) \/ z = [seq |-> q.seq, gave |-> u.ep.reply.bits,
                                            holds |-> q.bits]
    /\ y.up => MoreCalls(y.wire, v.wire, u.ep.reply)

LEMMA IsGivenKeeps ==
    ASSUME NEW c \in Consoles, NEW x, NEW y, NEW u, NEW v, NEW k \in BOOLEAN,
           NEW q, Both(c, x, y, k), IsGiven(c, x, y, u, v, q, k)
    PROVE  Both(c, u, v, k)
<1> DEFINE p == u.ep.reply
           new == [seq |-> q.seq, gave |-> p.bits, holds |-> q.bits]
<1>1. Own(c, x, y) /\ Inbox(x, y)
  BY DEF Both, Good, IsGiven, Serving, Turn
<1>2. /\ Serving(x, y, u, v, q, k) /\ Turn(x, y, u, v) /\ (Drives(x.port) => c = Join)
      /\ Fewer(x.wire, u.wire) /\ v.ep = y.ep /\ v.log = y.log /\ v.port = y.port
      /\ v.done = y.done /\ u.done = x.done /\ ~u.port.active
      /\ u.ep.next = x.ep.next /\ u.ep.pending = None
      /\ u.ep.answer = x.ep.answer /\ u.ep.response = <<>> /\ u.ep.deferred = None
      /\ u.ep.served = q.seq /\ v.up = y.up /\ x.up /\ u.up
  BY DEF IsGiven, Serving, Turn
<1>3. /\ p \in Replies /\ p # None /\ p.seq = q.seq /\ p.kind = "response"
      /\ Len(p.bits) = ByteBits
      /\ new \in Range(u.log) /\ new.seq = q.seq /\ new.gave = p.bits
      /\ new.holds = q.bits
      /\ \A z \in Range(u.log) : z \in Range(x.log) \/ z = new
  BY DEF IsGiven
<1> HIDE DEF new
<1>4. Due(c, x, y, u, q) /\ (k => q.seq + 1 = y.ep.next)
  BY <1>2, ServingIsDue
<1>5. /\ y.ep.pending # None => y.ep.pending.seq \in Nat
      /\ Unasked(u) /\ p.seq < y.ep.next /\ ~Has(x.log, q.seq) /\ q.seq \in Nat
  BY <1>2, <1>3, <1>4, TypedFacts DEF Turn, Due
<1>6. /\ Has(u.log, q.seq)
      /\ \A z \in Range(u.log) : z.seq = q.seq => z = new
  BY <1>3, <1>5 DEF Has
\* The request that is given up, if there is one, was not clocked yet.
<1>7. /\ x.ep.pending # None => Drives(x.port) /\ ~Has(y.log, x.ep.pending.seq)
      /\ x.ep.answer = <<>>
  <2>1. x.ep.pending # None => Drives(x.port)
    BY <1>1 DEF Own, Shaped
  <2>2. Drives(x.port) => ~Unasked(x) /\ c = Join
    BY <1>2, <1>4 DEF Due
  <2>3. x.ep.pending # None => ~Has(y.log, x.ep.pending.seq)
    <3>1. HostWaits(c, x, y)
      BY <1>1 DEF Own
    <3> QED
      BY <2>1, <2>2, <3>1 DEF HostWaits
  <2>4. x.ep.answer = <<>>
    <3>1. x.ep.answer # <<>> => x.ep.pending # None
      BY <1>1 DEF Own, Shaped
    <3>2. TrueAnswer(x, y)
      BY <1>1 DEF Own
    <3> QED
      BY <2>3, <3>1, <3>2 DEF TrueAnswer
  <2> QED
    BY <2>1, <2>3, <2>4
<1>8. Own(c, u, v)
  <2>1. Shaped(u.port, u.ep)
    BY <1>2, <1>7 DEF Shaped
  <2>2. OldReplies(u)
    BY <1>1, <1>2 DEF Own, OldReplies, Fewer
  <2> QED
    BY <1>2, <2>1, <2>2
       DEF Own, OneReply, TrueReplies, TrueAnswer, HostWaits, Swaps
<1>9. Inbox(u, v) /\ (k => Paced(u, v))
  <2>1. NewestRequest(u, v)
    BY <1>5 DEF NewestRequest, Unasked
  <2>2. WholeDeferred(u) /\ OwnReply(u) /\ ServedOld(u, v)
    BY <1>2, <1>3, <1>5 DEF WholeDeferred, OwnReply, ServedOld
  <2>3. Once(u.wire, Requests)
    BY <1>1, <1>2 DEF Inbox, Fewer
  <2>4. k => Paced(u, v)
    BY <1>2, <1>4 DEF Paced
  <2> QED
    BY <2>1, <2>2, <2>3, <2>4 DEF Inbox
<1>10. CASE ~y.up
  BY <1>2, <1>8, <1>9, <1>10 DEF Both, Good
<1>11. CASE y.up
  <2>1. /\ Shared(c, x, y) /\ Shared(Peer(c), y, x) /\ MoreCalls(y.wire, v.wire, p)
        /\ Own(Peer(c), y, x)
    BY <1>2, <1>11 DEF Both, Good, IsGiven
  <2>2. /\ y.ep.pending # None /\ q = y.ep.pending /\ y.ep.answer = <<>>
        /\ Unreplied(y) /\ y.ep.deferred = None
    BY <1>2, <1>4, <1>11, EndpointAssumption DEF Due
  <2>3. ~Unasked(y) => c = Join
    <3>1. CASE x.ep.pending # None
      BY <1>2, <1>7, <3>1
    <3>2. CASE x.ep.pending = None
      <4>1. AskedBefore(c, x, y)
        BY <2>1 DEF Shared
      <4> QED
        BY <3>2, <4>1 DEF AskedBefore
    <3> QED
      BY <3>1, <3>2
  <2> HIDE DEF p
  <2>4. Own(Peer(c), v, u) /\ Inbox(v, u) /\ (k => Paced(v, u))
    <3>1. Peer(c) = Join => Unasked(y)
      <4>1. Peer(c) = Join => c # Join
        BY EndpointAssumption DEF Peer
      <4> QED
        BY <2>3, <4>1
    <3>2. \A z \in Range(u.log) :
             z.seq = p.seq => /\ z.holds = y.ep.pending.bits
                              /\ Len(z.gave) = ByteBits /\ p.bits = z.gave
      BY <1>3, <1>6, <2>2
    <3>3. (p.kind = "response") <=> Has(u.log, p.seq)
      BY <1>3, <1>6
    <3>4. \/ y.ep.pending = None
          \/ /\ y.ep.pending # None /\ y.ep.pending.seq = p.seq
             /\ y.ep.answer = <<>> /\ Unreplied(y) /\ y.ep.deferred = None
             /\ (p.kind = "response") <=> Has(u.log, p.seq)
             /\ \A z \in Range(u.log) :
                   z.seq = p.seq => /\ z.holds = y.ep.pending.bits
                                    /\ Len(z.gave) = ByteBits /\ p.bits = z.gave
             /\ Peer(c) = Join /\ Has(u.log, p.seq) => Unasked(y)
      <4>1. y.ep.pending.seq = p.seq
        BY <1>3, <2>2
      <4> QED
        BY <2>2, <3>1, <3>2, <3>3, <4>1, Zenon
    <3> QED
      BY <1>2, <1>3, <1>5, <1>11, <2>1, <3>4, RepliedPeer
  <2>5. /\ \A r \in Requests : r \in Range(v.wire) <=> r \in Range(y.wire)
        /\ p \notin Requests
    BY <1>3, <2>1, CallSets DEF MoreCalls
  <2>6. Unasked(y) <=> Unasked(v)
    BY <2>5 DEF Unasked
  <2>7. Shared(c, u, v)
    <3>1. AskedNow(u, v)
      BY <1>2 DEF AskedNow
    <3>2. AskedBefore(c, u, v)
      <4>1. Before(y.wire, Requests, ReplyTo(q.seq))
        <5>1. \A i \in DOMAIN y.wire : y.wire[i] \notin ReplyTo(q.seq)
          BY <2>2 DEF Unreplied, Range
        <5> QED
          BY <5>1, Zenon DEF Before
      <4>2. Before(v.wire, Requests, ReplyTo(q.seq))
        BY <1>5, <2>1, <2>5, <4>1 DEF MoreCalls
      <4>3. ~Drives(u.port)
        BY <1>2 DEF Drives
      <4> QED
        BY <1>2, <2>2, <2>3, <2>6, <4>2, <4>3 DEF AskedBefore
    <3>3. IsPutOff(u, v)
      BY <1>2, <2>2 DEF IsPutOff
    <3>4. ClockedByPeer(u, v) /\ CachedReply(u, v)
      BY <1>2 DEF ClockedByPeer, CachedReply
    <3>5. Untorn(u, v)
      BY <1>2, <1>7, <2>1 DEF Shared, Untorn, Has
    <3> QED
      BY <3>1, <3>2, <3>3, <3>4, <3>5 DEF Shared
  <2>8. Shared(Peer(c), v, u)
    <3>1. AskedNow(v, u) /\ AskedBefore(Peer(c), v, u)
      BY <1>5 DEF AskedNow, AskedBefore, Unasked
    <3>2. IsPutOff(v, u)
      BY <1>2 DEF IsPutOff
    <3>3. ClockedByPeer(v, u)
      BY <1>2, <1>3 DEF ClockedByPeer, Drives, p
    <3>4. CachedReply(v, u)
      <4>1. /\ (p.kind = "response") <=> Has(u.log, q.seq)
            /\ \A z \in Range(u.log) : z.seq = q.seq => p.bits = z.gave
        BY <1>3, <1>6
      <4> QED
        BY <1>2, <2>2, <4>1 DEF CachedReply, p
    <3>5. Untorn(v, u)
      <4>1. Untorn(y, x)
        BY <2>1 DEF Shared
      <4> QED
        BY <1>2, <1>3, <2>2, <4>1 DEF Untorn
    <3> QED
      BY <3>1, <3>2, <3>3, <3>4, <3>5 DEF Shared
  <2>9. Peer(Peer(c)) = c
    BY SideFacts
  <2> QED
    BY <1>2, <1>8, <1>9, <2>4, <2>7, <2>8, <2>9 DEF Both, Good
<1> QED
  BY <1>10, <1>11

-----------------------------------------------------------------------------
(* A side that forgets all of a quiet link.                                *)
Forgets(x, y, u, v) ==
    /\ Turn(x, y, u, v) /\ u.log = x.log /\ u.done = x.done
    /\ u.ep.next = x.ep.next /\ u.ep.pending = None /\ u.ep.answer = <<>>
    /\ u.ep.response = <<>> /\ u.ep.deferred = None /\ u.ep.served = None
    /\ u.ep.reply = None /\ (u.port.active => u.port.bits = 0)
    /\ x.ep.pending = None /\ y.ep.pending = None /\ Unasked(x) /\ Unasked(y)
    /\ y.up => SameCalls(y.wire, v.wire)

LEMMA ForgetsKeeps ==
    ASSUME NEW c \in Consoles, NEW x, NEW y, NEW u, NEW v, NEW k \in BOOLEAN,
           Both(c, x, y, k), Forgets(x, y, u, v)
    PROVE  Both(c, u, v, k)
<1>1. Own(c, x, y) /\ Inbox(x, y)
  BY DEF Both, Good, Forgets, Turn
<1>2. /\ Turn(x, y, u, v) /\ Fewer(x.wire, u.wire) /\ v.ep = y.ep /\ v.log = y.log
      /\ v.port = y.port /\ v.done = y.done /\ u.log = x.log /\ u.done = x.done
      /\ u.ep.next = x.ep.next /\ u.ep.pending = None /\ u.ep.answer = <<>>
      /\ u.ep.response = <<>> /\ u.ep.deferred = None /\ u.ep.served = None
      /\ u.ep.reply = None /\ (u.port.active => u.port.bits = 0)
      /\ x.ep.pending = None /\ y.ep.pending = None /\ v.up = y.up /\ x.up /\ u.up
  BY DEF Forgets, Turn
<1>3. Unasked(u)
  BY <1>2 DEF Forgets, Unasked, Fewer
<1>4. Own(c, u, v)
  <2>1. Shaped(u.port, u.ep)
    BY <1>2 DEF Shaped
  <2>2. OldReplies(u)
    BY <1>1, <1>2 DEF Own, OldReplies, Fewer
  <2> QED
    BY <1>2, <2>1, <2>2
       DEF Own, OneReply, TrueReplies, TrueAnswer, HostWaits, Swaps
<1>5. Inbox(u, v) /\ (k => Paced(u, v))
  <2>1. NewestRequest(u, v)
    BY <1>3 DEF NewestRequest, Unasked
  <2>2. Once(u.wire, Requests)
    BY <1>1, <1>2 DEF Inbox, Fewer
  <2> QED
    BY <1>2, <2>1, <2>2 DEF Inbox, WholeDeferred, OwnReply, ServedOld, Paced
<1>6. CASE ~y.up
  BY <1>2, <1>4, <1>5, <1>6 DEF Both, Good
<1>7. CASE y.up
  <2>1. /\ Shared(c, x, y) /\ Shared(Peer(c), y, x) /\ SameCalls(y.wire, v.wire)
        /\ Unasked(y)
    BY <1>2, <1>7 DEF Both, Good, Forgets
  <2>2. Own(Peer(c), v, u) /\ Inbox(v, u) /\ (k => Paced(v, u))
    BY <1>2, <1>7, <2>1, QuietPeer
  <2>3. Unasked(v)
    BY <2>1, CallSets DEF Unasked, SameCalls
  <2>4. y.ep.deferred = None
    BY <1>2, <2>1 DEF Shared, IsPutOff
  <2>5. Shared(c, u, v)
    <3>1. AskedNow(u, v) /\ AskedBefore(c, u, v)
      BY <2>3 DEF AskedNow, AskedBefore, Unasked
    <3>2. IsPutOff(u, v) /\ ClockedByPeer(u, v) /\ CachedReply(u, v)
      BY <1>2, <2>4 DEF IsPutOff, ClockedByPeer, CachedReply
    <3>3. Untorn(u, v)
      BY <1>2, <2>1 DEF Shared, Untorn
    <3> QED
      BY <3>1, <3>2, <3>3 DEF Shared
  <2>6. Shared(Peer(c), v, u)
    <3>1. AskedNow(v, u) /\ AskedBefore(Peer(c), v, u)
      BY <1>3 DEF AskedNow, AskedBefore, Unasked
    <3>2. IsPutOff(v, u) /\ ClockedByPeer(v, u) /\ CachedReply(v, u)
      BY <1>2 DEF IsPutOff, ClockedByPeer, CachedReply
    <3>3. Untorn(v, u)
      BY <1>2, <2>1 DEF Shared, Untorn
    <3> QED
      BY <3>1, <3>2, <3>3 DEF Shared
  <2>7. Peer(Peer(c)) = c
    BY SideFacts
  <2> QED
    BY <1>2, <1>4, <1>5, <2>2, <2>5, <2>6, <2>7 DEF Both, Good
<1> QED
  BY <1>6, <1>7

(* A side that is down, or has just gone down.                             *)
IsDown(x, y, u, v) ==
    /\ ~u.up /\ u.log = x.log /\ u.ep.next = x.ep.next
    /\ v.up = y.up /\ v.port = y.port /\ v.ep = y.ep
    /\ Typed(x) /\ Typed(y) /\ Typed(u) /\ Typed(v)
    /\ y.up => SameCalls(y.wire, v.wire)

LEMMA IsDownKeeps ==
    ASSUME NEW c \in Consoles, NEW x, NEW y, NEW u, NEW v, NEW k \in BOOLEAN,
           Both(c, x, y, k), IsDown(x, y, u, v)
    PROVE  Both(c, u, v, k)
<1>1. /\ ~u.up /\ u.log = x.log /\ u.ep.next = x.ep.next
      /\ v.up = y.up /\ v.port = y.port /\ v.ep = y.ep
  BY DEF IsDown
<1>2. CASE ~y.up
  BY <1>1, <1>2 DEF Both, Good
<1>3. CASE y.up
  <2>1. /\ Own(Peer(c), y, x) /\ Inbox(y, x) /\ (k => Paced(y, x))
        /\ SameCalls(y.wire, v.wire)
    BY <1>3 DEF Both, Good, IsDown
  <2>2. /\ \A p \in Requests : p \in Range(v.wire) <=> p \in Range(y.wire)
        /\ \A p \in Replies : p \in Range(v.wire) <=> p \in Range(y.wire)
        /\ \A p : \A s : p \in ReplyTo(s) => p \in Replies
        /\ y.ep.pending # None => y.ep.pending.seq \in Nat
    BY <2>1, CallSets, TypedFacts DEF SameCalls, IsDown
  <2>3. Own(Peer(c), v, u)
    <3>1. Shaped(v.port, v.ep)
      BY <1>1, <2>1 DEF Own
    <3>2. OldReplies(v)
      BY <1>1, <2>1, <2>2 DEF Own, OldReplies
    <3>3. OneReply(v)
      BY <1>1, <2>1, <2>2 DEF Own, OneReply, SameCalls
    <3>4. TrueReplies(v, u)
      BY <1>1, <2>1, <2>2 DEF Own, TrueReplies
    <3>5. TrueAnswer(v, u)
      BY <1>1, <2>1 DEF Own, TrueAnswer
    <3>6. HostWaits(Peer(c), v, u)
      BY <1>1, <2>1, <2>2 DEF Own, HostWaits, Unasked
    <3>7. Swaps(v, u)
      BY <1>1, <2>1, <2>2 DEF Own, Swaps
    <3> QED
      BY <3>1, <3>2, <3>3, <3>4, <3>5, <3>6, <3>7 DEF Own
  <2>4. Inbox(v, u)
    BY <1>1, <2>1, <2>2
       DEF Inbox, NewestRequest, WholeDeferred, OwnReply, ServedOld, SameCalls
  <2>5. k => Paced(v, u)
    BY <1>1, <2>1, <2>2 DEF Paced, Unasked
  <2> QED
    BY <1>1, <2>3, <2>4, <2>5 DEF Both, Good
<1> QED
  BY <1>2, <1>3

(* The channel loses a packet: what depends on the pace is given up.       *)
LEMMA GoodAnyway ==
    ASSUME NEW c \in Consoles, NEW x, NEW y, NEW k \in BOOLEAN, Both(c, x, y, k)
    PROVE  Both(c, x, y, FALSE)
BY DEF Both, Good

LEMMA LosesKeep ==
    ASSUME NEW c \in Consoles, NEW x, NEW y, NEW u, NEW v, NEW k \in BOOLEAN,
           Both(c, x, y, k), Turn(x, y, u, v), u.ep = x.ep, u.port = x.port,
           u.log = x.log, u.done = x.done, v.wire = y.wire
    PROVE  Both(c, u, v, FALSE)
<1>1. Both(c, x, y, FALSE)
  BY GoodAnyway
<1>2. Own(c, x, y)
  BY DEF Both, Good, Turn
<1>3. Idles(x, y, u, v, FALSE)
  BY <1>2 DEF Idles, SameCore, Own
<1>4. SameCalls(y.wire, v.wire)
  BY DEF SameCalls
<1> QED
  BY <1>1, <1>3, <1>4, IdlesKeep

-----------------------------------------------------------------------------
(* The same of the variables. The link is sound when both of its sides are *)
(* and only a timeout, or a lost packet, has ever ended it. This is the    *)
(* inductive invariant of the three theorems at the end.                   *)
Known(lossless) ==
    {None, "timeout"} \cup (IF lossless THEN {} ELSE {"out of order"})

LinkTypes ==
    /\ done \in [Consoles -> SUBSET Nat] /\ fault \in [Consoles -> Faults]
    /\ losses \in Nat

LinkSound ==
    /\ DeliveryInv /\ LinkTypes
    /\ \A c \in Consoles : Both(c, Side(c), Side(Peer(c)), losses = 0)
    /\ \A c \in Consoles : fault[c] \in Known(losses = 0)

\* What a step of side c preserves of it.
StaysSound(c) ==
    /\ Both(c, Side(c)', Side(Peer(c))', losses' = 0)
    /\ fault' \in [Consoles -> Faults] /\ fault'[Peer(c)] = fault[Peer(c)]
    /\ fault'[c] \in Known(losses' = 0)
    /\ losses' \in Nat /\ (losses' = 0 => losses = 0)

LEMMA SoundStep ==
    ASSUME NEW c \in Consoles, LinkSound, DeliveryInv', StaysSound(c),
           done' \in [Consoles -> SUBSET Nat]
    PROVE  LinkSound'
<1>1. /\ Peer(c) \in Consoles /\ Peer(Peer(c)) = c
      /\ \A x \in Consoles : x = c \/ x = Peer(c)
  BY SideFacts
<1>2. Both(Peer(c), Side(Peer(c))', Side(c)', losses' = 0)
  BY <1>1 DEF StaysSound, Both
<1>3. \A d \in Consoles : Both(d, Side(d)', Side(Peer(d))', losses' = 0)
  BY <1>1, <1>2 DEF StaysSound
<1>4. \A d \in Consoles : fault'[d] \in Known(losses' = 0)
  BY <1>1 DEF StaysSound, LinkSound, Known
<1> QED
  BY <1>3, <1>4 DEF StaysSound, LinkSound, LinkTypes

-----------------------------------------------------------------------------
(* What Publish makes of a node, as a turn of one side.                    *)
Becomes(c, n, w) ==
    /\ Turn(Side(c), Side(Peer(c)), Side(c)', Side(Peer(c))')
    /\ Side(c).port = port[c] /\ Side(c).ep = ep[c] /\ Side(c).wire = wire[c]
    /\ Side(c).log = log[c] /\ Side(c).done = done[c]
    /\ Side(c)'.port = n.port /\ Side(c)'.ep = n.ep /\ Side(c)'.wire = w
    /\ Side(c)'.log = log'[c] /\ Side(c)'.done = done'[c]
    /\ port'[c] = n.port /\ ep'[c] = n.ep /\ fault'[c] = None /\ up'[c]
    /\ Side(Peer(c)).wire = wire[Peer(c)] /\ Side(Peer(c)).up = up[Peer(c)]
    /\ Side(Peer(c)).ep = ep[Peer(c)] /\ Side(Peer(c)).log = log[Peer(c)]
    /\ Side(Peer(c)).port = port[Peer(c)]
    /\ Mute(n.out) /\ up[Peer(c)] => SameCalls(wire[Peer(c)], Side(Peer(c))'.wire)
    /\ \A q \in Calls :
          Says(n.out, q) /\ up[Peer(c)] =>
             MoreCalls(wire[Peer(c)], Side(Peer(c))'.wire, q)
    /\ losses' = losses
    /\ fault' \in [Consoles -> Faults] /\ fault'[Peer(c)] = fault[Peer(c)]

LEMMA TypedSide ==
    ASSUME NEW c \in Consoles, DeliveryTypes
    PROVE  Typed(Side(c))
BY DEF DeliveryTypes, Typed, Side

LEMMA PublishBecomes ==
    ASSUME NEW c \in Consoles, LinkSound, DeliveryInv', NEW n, Well(n), n.fault = None,
           NEW w \in Seq(Packets), Within(w, wire[c]), Publish(c, n, w),
           log'[Peer(c)] = log[Peer(c)], done'[Peer(c)] = done[Peer(c)]
    PROVE  Becomes(c, n, w)
<1> DEFINE d == Peer(c)
<1>1. d \in Consoles /\ d # c /\ DeliveryTypes /\ DeliveryTypes' /\ LinkTypes
  BY SideFacts DEF DeliveryInv, LinkSound
<1> HIDE DEF d
<1>2. n.port \in Port /\ n.ep \in Endpoint /\ n.out \in Seq(Packets)
  BY DEF Well, Nodes
<1>3. /\ up[c] /\ port' = [port EXCEPT ![c] = n.port] /\ ep' = [ep EXCEPT ![c] = n.ep]
      /\ wire' = [wire EXCEPT ![c] = w, ![d] = IF up[d] THEN @ \o n.out ELSE @]
      /\ up' = [up EXCEPT ![c] = TRUE] /\ fault' = [fault EXCEPT ![c] = None]
      /\ losses' = losses
  BY DEF Publish, d
<1>4. /\ up'[c] /\ up'[d] = up[d] /\ port'[c] = n.port /\ port'[d] = port[d]
      /\ ep'[c] = n.ep /\ ep'[d] = ep[d] /\ fault'[c] = None /\ fault'[d] = fault[d]
      /\ fault' \in [Consoles -> Faults]
      /\ wire'[c] = w /\ wire'[d] = IF up[d] THEN wire[d] \o n.out ELSE wire[d]
  BY <1>1, <1>3 DEF DeliveryTypes, LinkTypes, Faults
<1>5. wire[c] \in Seq(Packets) /\ wire[d] \in Seq(Packets)
  BY <1>1 DEF DeliveryTypes
<1>6. Fewer(wire[c], w)
  BY <1>5, FewerFacts
<1>7. /\ Typed(Side(c)) /\ Typed(Side(d)) /\ Typed(Side(c))' /\ Typed(Side(d))'
  <2>1. Typed(Side(c)) /\ Typed(Side(d))
    BY <1>1, TypedSide
  <2>2. Typed(Side(c)')
    BY <1>1 DEF DeliveryTypes, Typed, Side
  <2>3. Typed(Side(d)')
    BY <1>1 DEF DeliveryTypes, Typed, Side
  <2> QED
    BY <2>1, <2>2, <2>3
<1>8. /\ Mute(n.out) /\ up[d] => SameCalls(wire[d], wire'[d])
      /\ \A q \in Calls : Says(n.out, q) /\ up[d] => MoreCalls(wire[d], wire'[d], q)
  BY <1>2, <1>4, <1>5, SameCallsFacts, MoreCallsFacts
<1>9. Turn(Side(c), Side(d), Side(c)', Side(d)')
  BY <1>1, <1>3, <1>4, <1>6, <1>7 DEF Turn, Side, d
<1> QED
  BY <1>3, <1>4, <1>8, <1>9 DEF Becomes, Side, d

LEMMA TypedPrimed ==
    ASSUME NEW c \in Consoles, DeliveryInv'
    PROVE  Typed(Side(c)')
<1>1. DeliveryTypes'
  BY DEF DeliveryInv
<1> QED
  BY <1>1 DEF DeliveryTypes, Typed, Side

\* What is sound of the link at hand.
LEMMA SoundSides ==
    ASSUME NEW c \in Consoles, LinkSound
    PROVE  /\ Both(c, Side(c), Side(Peer(c)), losses = 0) /\ DeliveryInv
           /\ Peer(c) \in Consoles /\ Peer(c) # c /\ Peer(Peer(c)) = c
           /\ fault[Peer(c)] \in Known(losses = 0) /\ losses \in Nat
           /\ Typed(Side(c)) /\ Typed(Side(Peer(c)))
<1>1. Peer(c) \in Consoles /\ Peer(c) # c /\ Peer(Peer(c)) = c /\ DeliveryTypes
  BY SideFacts DEF LinkSound, DeliveryInv
<1> QED
  BY <1>1, TypedSide DEF LinkSound, LinkTypes

LEMMA NothingSaid == <<>> \in Seq(Packets) /\ Mute(<<>>)
<1>1. <<>> \in Seq(Packets)
  OBVIOUS
<1>2. DOMAIN <<>> = {}
  OBVIOUS
<1> QED
  BY <1>1, <1>2 DEF Mute

LEMMA FaultDown ==
    ASSUME NEW c \in Consoles, LinkSound, DeliveryInv', NEW w, NEW n,
           NEW f \in {"timeout", "out of order"}, f \in Known(losses = 0),
           n.fault = f, n.ep = ep[c], n.out = <<>>, n.port = port[c],
           Publish(c, n, w), Records(c), done' = done
    PROVE  StaysSound(c)
<1> DEFINE d == Peer(c)
           g == Abandon(ep[c])
           e == [g EXCEPT !.completed = None]
           p == Reset(port[c])
<1>1. /\ d \in Consoles /\ d # c /\ DeliveryTypes /\ LinkTypes
      /\ Both(c, Side(c), Side(d), losses = 0)
      /\ Typed(Side(c)) /\ Typed(Side(d)) /\ Typed(Side(c)') /\ Typed(Side(d)')
  BY SoundSides, TypedPrimed DEF DeliveryInv, LinkSound
<1>3. f # None /\ f \in Faults
  BY NoneAssumption DEF Faults
<1> HIDE DEF d
<1>4. /\ ep' = [ep EXCEPT ![c] = e] /\ up' = [up EXCEPT ![c] = FALSE]
      /\ fault' = [fault EXCEPT ![c] = f] /\ losses' = losses
      /\ port' = [port EXCEPT ![c] = p]
      /\ wire' = [wire EXCEPT ![c] = w, ![d] = IF up[d] THEN @ \o <<>> ELSE @]
  BY <1>3 DEF Publish, d
<1>5. e.next = ep[c].next
  <2>1. ep[c] \in Endpoint
    BY <1>1 DEF DeliveryTypes
  <2>2. g \in Endpoint /\ g.next = ep[c].next
    BY <2>1, AbandonBlank
  <2> HIDE DEF g
  <2> QED
    BY <2>2, OtherFields DEF SameCore
<1> HIDE DEF e, p
<1>6. /\ ~up'[c] /\ up'[d] = up[d] /\ port'[d] = port[d] /\ ep'[c] = e /\ ep'[d] = ep[d]
      /\ fault'[c] = f /\ fault'[d] = fault[d] /\ fault' \in [Consoles -> Faults]
      /\ wire'[d] = IF up[d] THEN wire[d] \o <<>> ELSE wire[d]
  BY <1>1, <1>3, <1>4 DEF DeliveryTypes, LinkTypes
<1>7. log' = log
  BY <1>6 DEF Records
<1>8. up[d] => SameCalls(wire[d], wire'[d])
  <2>1. wire[d] \in Seq(Packets)
    BY <1>1 DEF DeliveryTypes
  <2> QED
    BY <1>6, <2>1, NothingSaid, SameCallsFacts
<1>9. IsDown(Side(c), Side(d), Side(c)', Side(d)')
  BY <1>1, <1>5, <1>6, <1>7, <1>8 DEF IsDown, Side
<1>10. Both(c, Side(c)', Side(d)', losses = 0)
  BY <1>1, <1>9, IsDownKeeps, SideFacts DEF d
<1> QED
  BY <1>1, <1>4, <1>6, <1>10 DEF StaysSound, LinkTypes, d

LEMMA ClosedSound ==
    ASSUME NEW c \in Consoles, LinkSound, DeliveryInv', PollClosed(c), Records(c),
           done' = done
    PROVE  StaysSound(c)
<1> DEFINE d == Peer(c)
           g == Abandon(ep[c])
           e == [g EXCEPT !.completed = None]
<1>1. /\ d \in Consoles /\ d # c /\ DeliveryTypes /\ LinkTypes
      /\ Both(c, Side(c), Side(d), losses = 0)
      /\ Typed(Side(c)) /\ Typed(Side(d)) /\ Typed(Side(c)') /\ Typed(Side(d)')
      /\ fault[c] \in Known(losses = 0)
  BY SoundSides, TypedPrimed DEF DeliveryInv, LinkSound
<1> HIDE DEF d
<1>2. /\ ~up[d] /\ ep' = [ep EXCEPT ![c] = e] /\ up' = [up EXCEPT ![c] = FALSE]
      /\ fault' = fault /\ losses' = losses
      /\ port' = [port EXCEPT ![c] = Reset(@)] /\ wire' = [wire EXCEPT ![c] = <<>>]
  BY DEF PollClosed, d
<1>3. e.next = ep[c].next
  <2>1. ep[c] \in Endpoint
    BY <1>1 DEF DeliveryTypes
  <2>2. g \in Endpoint /\ g.next = ep[c].next
    BY <2>1, AbandonBlank
  <2> HIDE DEF g
  <2> QED
    BY <2>2, OtherFields DEF SameCore
<1> HIDE DEF e
<1>4. /\ ~up'[c] /\ up'[d] = up[d] /\ port'[d] = port[d] /\ ep'[c] = e /\ ep'[d] = ep[d]
      /\ wire'[d] = wire[d]
  BY <1>1, <1>2 DEF DeliveryTypes, LinkTypes
<1>5. log' = log
  BY <1>4 DEF Records
<1>6. IsDown(Side(c), Side(d), Side(c)', Side(d)')
  BY <1>1, <1>2, <1>3, <1>4, <1>5 DEF IsDown, Side
<1>7. Both(c, Side(c)', Side(d)', losses = 0)
  BY <1>1, <1>6, IsDownKeeps, SideFacts DEF d
<1> QED
  BY <1>1, <1>2, <1>7 DEF StaysSound, LinkTypes, d

\* Publish preserves what the sides' new states satisfy.
LEMMA BecomesSound ==
    ASSUME NEW c \in Consoles, LinkSound, NEW n, NEW w, Becomes(c, n, w),
           Both(c, Side(c)', Side(Peer(c))', losses = 0)
    PROVE  StaysSound(c)
BY DEF StaysSound, Becomes, Known, LinkSound, LinkTypes

LEMMA IdleStays ==
    ASSUME NEW c \in Consoles, LinkSound, DeliveryInv', NEW n, Clear(n),
           NEW w \in Seq(Packets), Within(w, wire[c]), Publish(c, n, w),
           log' = log, done' = done, SameCore(ep[c], n.ep), Shaped(n.port, n.ep),
           ep[c].pending # None =>
              n.port.data = port[c].data /\ n.port.bits = port[c].bits,
           up[Peer(c)] /\ Drives(n.port) =>
              Drives(port[c]) \/ ep[Peer(c)].pending = None,
           losses = 0 /\ (\A p \in Range(w) : p \notin Requests) =>
              \/ \A p \in Range(wire[c]) : p \notin Requests
              \/ ep[c].served = None \/ ep[c].served + 1 = ep[Peer(c)].next
    PROVE  StaysSound(c)
<1> DEFINE x == Side(c)
           y == Side(Peer(c))
           u == Side(c)'
           v == Side(Peer(c))'
           k == losses = 0
<1>1. Well(n) /\ n.fault = None /\ Mute(n.out)
  BY DEF Clear
<1>2. Becomes(c, n, w)
  BY <1>1, PublishBecomes
<1>3. Both(c, x, y, k)
  BY SoundSides
<1>4. Idles(x, y, u, v, k)
  BY <1>2 DEF Becomes, Idles, Unasked
<1>5. y.up => SameCalls(y.wire, v.wire)
  BY <1>1, <1>2 DEF Becomes
<1> HIDE DEF x, y, u, v, k
<1>6. k \in BOOLEAN
  BY DEF k
<1>7. Both(c, u, v, k)
  BY <1>3, <1>4, <1>5, <1>6, IdlesKeep
<1> QED
  BY <1>2, <1>7, BecomesSound DEF u, v, k

LEMMA ShapedSide ==
    ASSUME NEW c \in Consoles, LinkSound, up[c]
    PROVE  /\ Shaped(port[c], ep[c]) /\ WholeDeferred(Side(c))
           /\ Own(c, Side(c), Side(Peer(c))) /\ Inbox(Side(c), Side(Peer(c)))
           /\ (losses = 0 => Paced(Side(c), Side(Peer(c))))
           /\ (up[Peer(c)] => Shared(c, Side(c), Side(Peer(c))))
           /\ (up[Peer(c)] => Shared(Peer(c), Side(Peer(c)), Side(c)))
<1> DEFINE x == Side(c)
           y == Side(Peer(c))
<1>1. Both(c, x, y, losses = 0)
  BY SoundSides
<1>2. x.port = port[c] /\ x.ep = ep[c] /\ x.up /\ y.up = up[Peer(c)]
  BY DEF Side
<1> HIDE DEF x, y
<1>3. /\ Own(c, x, y) /\ Inbox(x, y) /\ (losses = 0 => Paced(x, y))
      /\ (y.up => Shared(c, x, y) /\ Shared(Peer(c), y, x))
  BY <1>1, <1>2 DEF Both, Good
<1>4. Shaped(x.port, x.ep) /\ WholeDeferred(x)
  BY <1>3 DEF Own, Inbox
<1> QED
  BY <1>2, <1>3, <1>4 DEF x, y

LEMMA ClearNode ==
    ASSUME NEW c \in Consoles, LinkSound
    PROVE  /\ Clear(Node(c)) /\ Node(c).port = port[c] /\ Node(c).ep = ep[c]
           /\ Node(c).out = <<>> /\ wire[c] \in Seq(Packets)
           /\ Within(wire[c], wire[c])
<1>1. DeliveryInv
  BY DEF LinkSound
<1> QED
  BY <1>1, FreshNode, NothingSaid, SelfWithin DEF Clear

LEMMA WriteSBStays ==
    ASSUME NEW c \in Consoles, LinkSound, DeliveryInv', WriteSB(c), log' = log,
           done' = done
    PROVE  StaysSound(c)
<1> DEFINE n == Node(c)
           captured == ep[c].pending # None
<1>1. PICK byte \in GuestBytes[c] :
         Act(c, [Node(c) EXCEPT !.port = WriteData(@, byte, TRUE, captured)])
  BY DEF WriteSB
<1> DEFINE p == WriteData(n.port, byte, TRUE, captured)
           m == [n EXCEPT !.port = p]
<1>2. /\ Clear(n) /\ n.port = port[c] /\ n.ep = ep[c] /\ wire[c] \in Seq(Packets)
      /\ Within(wire[c], wire[c])
  BY ClearNode
<1>3. n.port \in Port /\ Sound(n.port) /\ n.ep \in Endpoint
  BY <1>2 DEF Clear, Well, Nodes
<1>4. Act(c, m)
  BY <1>1
<1>5. byte \in Byte /\ captured \in BOOLEAN
  BY EndpointAssumption DEF Consoles
<1> HIDE DEF captured
<1>6. p \in Port /\ Sound(p)
  BY <1>3, <1>5, WriteDataSound DEF Sound
<1>7. /\ \/ p = n.port
         \/ ~(n.port.active /\ (n.port.bits # 0 \/ captured))
      /\ p.bits = n.port.bits /\ p.active = n.port.active
      /\ p.internal = n.port.internal
  BY <1>3, <1>5 DEF WriteData, Port
<1> HIDE DEF p, n
<1>8. Clear(m) /\ m.ep = n.ep /\ m.port = p
  BY <1>2, <1>6, WithPort
<1> HIDE DEF m
<1>9. Shaped(port[c], ep[c])
  <2>1. up[c]
    BY <1>4 DEF Act, Publish
  <2> QED
    BY <2>1, ShapedSide
<1>10. ep[c].pending # None => p = port[c]
  BY <1>2, <1>7, <1>9 DEF Shaped, Drives, captured
<1>11. Shaped(p, ep[c])
  BY <1>2, <1>7, <1>9, <1>10 DEF Shaped, Drives
<1>12. Drives(p) = Drives(port[c])
  BY <1>2, <1>7 DEF Drives
<1>13. SameCore(ep[c], m.ep)
  BY <1>2, <1>8 DEF SameCore
<1>14. Publish(c, m, wire[c])
  BY <1>4 DEF Act
<1> QED
  BY <1>2, <1>8, <1>10, <1>11, <1>12, <1>13, <1>14, IdleStays

LEMMA WriteSCStays ==
    ASSUME NEW c \in Consoles, LinkSound, DeliveryInv', WriteSC(c), log' = log,
           done' = done, Steady, Patient
    PROVE  StaysSound(c)
<1> DEFINE n == Node(c)
<1>1. PICK sc \in Commands : Act(c, RewriteControl(c, n, sc))
  BY DEF WriteSC
<1> DEFINE m == RewriteControl(c, n, sc)
<1>2. /\ Clear(n) /\ n.port = port[c] /\ n.ep = ep[c] /\ wire[c] \in Seq(Packets)
      /\ Within(wire[c], wire[c]) /\ sc \in Control
  BY ClearNode, EndpointAssumption
<1> HIDE DEF n
<1>3. Clear(m) /\ m.ep = ep[c] /\ Rewritten(port[c], m.port)
  BY <1>2, RewritePlain
<1> HIDE DEF m
<1>4. Publish(c, m, wire[c]) /\ up[c]
  BY <1>1 DEF Act, Publish, m
<1>5. Shaped(port[c], ep[c])
  BY <1>4, ShapedSide
<1>6. port'[c] = m.port /\ ep'[c] = m.ep
  <2>1. Becomes(c, m, wire[c])
    BY <1>2, <1>3, <1>4, PublishBecomes DEF Clear
  <2> QED
    BY <2>1 DEF Becomes
<1>7. ep[c].pending # None => Drives(port[c]) /\ Drives(m.port)
  BY <1>3, <1>5, <1>6 DEF Shaped, Steady, Rewritten
<1>8. ep[c].pending # None => m.port.data = port[c].data /\ m.port.bits = port[c].bits
  BY <1>3, <1>7 DEF Rewritten
<1>9. Shaped(m.port, ep[c])
  BY <1>3, <1>5, <1>7, <1>8 DEF Shaped, Rewritten
<1>10. Drives(m.port) => Drives(port[c]) \/ ep[Peer(c)].pending = None
  BY <1>6 DEF Patient
<1>11. SameCore(ep[c], m.ep)
  BY <1>3 DEF SameCore
<1> QED
  BY <1>2, <1>3, <1>4, <1>8, <1>9, <1>10, <1>11, IdleStays

-----------------------------------------------------------------------------
(* An edge waits, asks for the peer's byte or shifts one bit.              *)
LEMMA EdgeStays ==
    ASSUME NEW c \in Consoles, LinkSound, DeliveryInv', Drive(c)
    PROVE  StaysSound(c)
<1> DEFINE n == Node(c)
           m == ClockEdge(c, n)
           x == Side(c)
           y == Side(Peer(c))
           u == Side(c)'
           v == Side(Peer(c))'
           k == losses = 0
<1>1. /\ Clear(n) /\ n.port = port[c] /\ n.ep = ep[c] /\ wire[c] \in Seq(Packets)
      /\ Within(wire[c], wire[c])
  BY ClearNode
<1>2. Drives(port[c]) /\ Publish(c, m, wire[c]) /\ up[c] /\ log' = log
  BY DEF Drive, Edge, Act, Publish
<1>3. Shaped(port[c], ep[c])
  BY <1>2, ShapedSide
<1> HIDE DEF n
<1>4. \/ Unmoved(n, m)
      \/ \E r \in Requests : Inquires(n, m, r)
      \/ Shifts(n, m)
  BY <1>1, <1>2, <1>3, EdgeOutcomes
<1> HIDE DEF m
<1>5. Well(m) /\ m.fault = None
  BY <1>4 DEF Unmoved, Inquires, Shifts, Clear
<1>6. done'[Peer(c)] = done[Peer(c)]
  BY SideFacts DEF Drive, LinkSound, LinkTypes
<1>7. Becomes(c, m, wire[c])
  BY <1>1, <1>2, <1>5, <1>6, PublishBecomes
<1>8. Both(c, x, y, k) /\ DeliveryInv /\ Peer(c) \in Consoles /\ Peer(Peer(c)) = c
  BY SoundSides
<1>9. /\ Turn(x, y, u, v) /\ x.port = port[c] /\ x.ep = ep[c] /\ x.wire = wire[c]
      /\ x.log = log[c] /\ x.done = done[c] /\ u.port = m.port /\ u.ep = m.ep
      /\ u.wire = wire[c] /\ u.log = log[c] /\ u.done = done'[c]
      /\ y.log = log[Peer(c)] /\ port'[c] = m.port
      /\ Mute(m.out) /\ y.up => SameCalls(y.wire, v.wire)
      /\ \A q \in Calls : Says(m.out, q) /\ y.up => MoreCalls(y.wire, v.wire, q)
  BY <1>2, <1>7 DEF Becomes
<1>10. CASE Unmoved(n, m)
  <2>1. Clear(m) /\ SameCore(ep[c], m.ep) /\ m.port = port[c]
    BY <1>1, <1>10 DEF Unmoved
  <2>2. done' = done
    BY <1>2, <1>9, <2>1 DEF Drive, CompletesByte, Drives
  <2>3. Shaped(m.port, m.ep)
    BY <1>3, <2>1 DEF Shaped, SameCore
  <2> QED
    BY <1>1, <1>2, <2>1, <2>2, <2>3, IdleStays
<1>11. ASSUME NEW r \in Requests, Inquires(n, m, r) PROVE StaysSound(c)
  <2>1. done' = done
    BY <1>1, <1>2, <1>9, <1>11 DEF Drive, CompletesByte, Drives, Inquires
  <2>2. \A z \in Range(y.log) : z.seq < x.ep.next
    <3>1. \A s \in Past(Peer(c)) : s < ep[c].next
      BY <1>8 DEF DeliveryInv, Numbered
    <3> QED
      BY <1>9, <3>1 DEF Past, Range
  <2>3. r # None /\ r \in Calls
    BY NoneAssumption DEF Requests, BitSeq, Calls
  <2>4. AsksFor(x, y, u, v, r)
    <3>1. /\ u.log = x.log /\ u.done = x.done /\ u.port = x.port /\ Unasked(u) = Unasked(x)
      BY <1>1, <1>9, <1>11, <2>1 DEF Inquires, Unasked
    <3>2. y.up => MoreCalls(y.wire, v.wire, r)
      BY <1>9, <1>11, <2>3 DEF Inquires
    <3>3. n.ep.response = <<>>
      BY <1>1, <1>3 DEF Shaped
    <3> HIDE DEF x, y, u, v
    <3> QED
      BY <1>1, <1>2, <1>9, <1>11, <2>2, <2>3, <3>1, <3>2, <3>3 DEF AsksFor, Inquires
  <2> HIDE DEF x, y, u, v, k
  <2>5. k \in BOOLEAN
    BY DEF k
  <2>6. Both(c, u, v, k)
    BY <1>8, <2>4, <2>5, AsksForKeeps
  <2> QED
    BY <1>7, <2>6, BecomesSound DEF u, v, k
<1>12. CASE Shifts(n, m)
  <2>1. ShiftsBit(x, y, u, v)
    <3>1. y.up => SameCalls(y.wire, v.wire)
      BY <1>9, <1>12 DEF Shifts, Clear
    <3>2. /\ Drives(m.port) => u.done = x.done
          /\ ~m.port.active /\ m.port.bits = ByteBits =>
                u.done = x.done \cup {x.ep.pending.seq}
      BY <1>1, <1>2, <1>9, <1>12 DEF Drive, CompletesByte, Shifts, Drives, LinkSound, LinkTypes
    <3>3. Unasked(u) = Unasked(x)
      BY <1>9 DEF Unasked
    <3> HIDE DEF x, y, u, v
    <3> QED
      BY <1>1, <1>9, <1>12, <3>1, <3>2, <3>3 DEF ShiftsBit, Shifts
  <2> HIDE DEF x, y, u, v, k
  <2>5. k \in BOOLEAN
    BY DEF k
  <2>6. Both(c, u, v, k)
    BY <1>8, <2>1, <2>5, ShiftsBitKeeps
  <2> QED
    BY <1>7, <2>6, BecomesSound DEF u, v, k
<1> QED
  BY <1>4, <1>10, <1>11, <1>12

-----------------------------------------------------------------------------
(* A reset, of the side's own or one it has received, forgets the transfer.*)
LEMMA ForgetStays ==
    ASSUME NEW c \in Consoles, LinkSound, DeliveryInv', NEW n, Clear(n),
           NEW w \in Seq(Packets), Within(w, wire[c]), Publish(c, n, w),
           log' = log, done' = done, Blank(n.ep), n.ep.next = ep[c].next,
           n.port.active => n.port.bits = 0,
           \A d \in Consoles : ep[d].pending = None /\ Unasked(Side(d))
    PROVE  StaysSound(c)
<1> DEFINE x == Side(c)
           y == Side(Peer(c))
           u == Side(c)'
           v == Side(Peer(c))'
           k == losses = 0
<1>1. Well(n) /\ n.fault = None /\ Mute(n.out)
  BY DEF Clear
<1>2. Becomes(c, n, w)
  BY <1>1, PublishBecomes
<1>3. Both(c, x, y, k) /\ Peer(c) \in Consoles
  BY SoundSides
<1>4. Forgets(x, y, u, v)
  <2>1. ep[c].pending = None /\ ep[Peer(c)].pending = None /\ Unasked(x) /\ Unasked(y)
    BY <1>3
  <2>2. y.ep = ep[Peer(c)] /\ (y.up => SameCalls(y.wire, v.wire))
    BY <1>1, <1>2 DEF Becomes
  <2> HIDE DEF y, v, x, u
  <2> QED
    BY <1>2, <2>1, <2>2 DEF Becomes, Forgets, Blank, x, u, y, v
<1> HIDE DEF x, y, u, v, k
<1>6. k \in BOOLEAN
  BY DEF k
<1>7. Both(c, u, v, k)
  BY <1>3, <1>4, <1>6, ForgetsKeeps
<1> QED
  BY <1>2, <1>7, BecomesSound DEF u, v, k

LEMMA ResetLinkStays ==
    ASSUME NEW c \in Consoles, LinkSound, DeliveryInv', ResetLink(c), log' = log,
           done' = done, QuietResets
    PROVE  StaysSound(c)
<1> DEFINE n == IF Drives(port[c]) THEN ReleaseClock(Node(c)) ELSE Node(c)
           k == n.ep.control
           a == Abandon(n.ep)
           b == [a EXCEPT !.completed = None]
           r == [b EXCEPT !.reset = k]
           t == [r EXCEPT !.reset_retries = 0]
           e == [t EXCEPT !.control = k + 1]
           p == Reset(n.port)
           marker == Packet("reset", k, <<>>)
           o == [n EXCEPT !.port = p]
           f == [o EXCEPT !.ep = e]
           m == Send(f, marker)
<1>1. /\ Clear(Node(c)) /\ Node(c).port = port[c] /\ Node(c).ep = ep[c]
      /\ wire[c] \in Seq(Packets) /\ Within(wire[c], wire[c])
  BY ClearNode
<1>2. Clear(n) /\ n.ep = ep[c] /\ n.port = port[c]
  <2>1. CASE Drives(port[c])
    BY <1>1, <2>1, ReleaseRunning DEF Drives
  <2>2. CASE ~Drives(port[c])
    BY <1>1, <2>2
  <2> QED
    BY <2>1, <2>2
<1>3. Act(c, m)
  <2>1. k = a.control /\ k = b.control /\ k = r.control /\ k = t.control
    <3>1. n.ep \in Endpoint
      BY <1>2 DEF Clear, Well, Nodes
    <3> HIDE DEF n
    <3>2. a \in Endpoint /\ a.control = k
      BY <3>1, AbandonType
    <3> HIDE DEF a, k
    <3> QED
      BY <3>2 DEF Endpoint
  <2>2. e = [Abandon(n.ep) EXCEPT !.completed = None, !.reset = n.ep.control,
                                  !.reset_retries = 0, !.control = @ + 1]
    BY <2>1
  <2>3. [n EXCEPT !.port = Reset(@), !.ep = e] = f
    OBVIOUS
  <2> HIDE DEF e
  <2> QED
    BY <2>2, <2>3 DEF ResetLink
<1> HIDE DEF n
<1>4. /\ n.ep \in Endpoint /\ n.port \in Port /\ Sound(n.port) /\ k \in Nat
      /\ n.ep.control = ep[c].control
  BY <1>2 DEF Clear, Well, Nodes, Endpoint
<1> HIDE DEF k
<1>5. e \in Endpoint /\ e.next = ep[c].next /\ Blank(e) /\ e.control = k + 1
  <2>1. a \in Endpoint /\ a.next = ep[c].next /\ Blank(a)
    BY <1>2, <1>4, AbandonBlank
  <2> HIDE DEF a
  <2>2. b \in Endpoint /\ SameCore(a, b)
    BY <2>1, CompletedField, OtherFields
  <2> HIDE DEF b
  <2>3. r \in Endpoint /\ SameCore(b, r)
    BY <1>4, <2>2, ResetField, OtherFields
  <2> HIDE DEF r
  <2>4. t \in Endpoint /\ SameCore(r, t)
    BY <2>3, ResetRetriesField, OtherFields
  <2> HIDE DEF t
  <2>5. e \in Endpoint /\ SameCore(t, e) /\ e.control = k + 1
    <3>1. k + 1 \in Nat
      BY <1>4
    <3>2. e \in Endpoint
      BY <2>4, <3>1, SMTT(30) DEF Endpoint
    <3>3. /\ e.next = t.next /\ e.pending = t.pending /\ e.deferred = t.deferred
          /\ e.served = t.served /\ e.control = k + 1
      BY <2>4, SMTT(30) DEF Endpoint
    <3>4. e.answer = t.answer
      BY <2>4, SMTT(30) DEF Endpoint
    <3>5. e.response = t.response
      BY <2>4, SMTT(30) DEF Endpoint
    <3>6. e.reply = t.reply
      BY <2>4, SMTT(30) DEF Endpoint
    <3> QED
      BY <3>2, <3>3, <3>4, <3>5, <3>6 DEF SameCore
  <2> HIDE DEF e
  <2> QED
    BY <2>1, <2>2, <2>3, <2>4, <2>5 DEF SameCore, Blank
<1> HIDE DEF e
<1>6. Sound(p) /\ ~p.active
  BY <1>4, ResetSound DEF Sound, Reset
<1>7. marker \in Packets \ Calls
  BY <1>4, PlainPackets
<1> HIDE DEF p, marker
<1>8. Clear(o) /\ o.port = p
  BY <1>2, <1>6, WithPort
<1> HIDE DEF o
<1>9. Clear(f) /\ f.ep = e /\ f.port = p
  BY <1>5, <1>8, WithEndpoint
<1> HIDE DEF f
<1>10. Clear(m) /\ m.ep = e /\ m.port = p
  BY <1>7, <1>9, SendClear
<1> HIDE DEF m
<1>11. Publish(c, m, wire[c]) /\ up[c]
  BY <1>3 DEF Act, Publish
<1>12. ep'[c].control # ep[c].control
  <2>1. Becomes(c, m, wire[c])
    BY <1>1, <1>10, <1>11, PublishBecomes DEF Clear
  <2>2. ep'[c] = e /\ k = ep[c].control
    BY <1>2, <1>10, <2>1 DEF Becomes, k
  <2> QED
    BY <1>4, <1>5, <2>2
<1>13. \A d \in Consoles : ep[d].pending = None /\ Unasked(Side(d))
  <2> SUFFICES ASSUME NEW d \in Consoles
               PROVE  ep[d].pending = None /\ \A q \in Range(wire[d]) : q \notin Requests
    BY DEF Unasked, Side
  <2>1. ep[d].pending = None /\ \A i \in DOMAIN wire[d] : wire[d][i].kind # "request"
    BY <1>12 DEF QuietResets
  <2> QED
    BY <2>1 DEF Range, Requests
<1> QED
  BY <1>1, <1>5, <1>6, <1>10, <1>11, <1>13, ForgetStays

-----------------------------------------------------------------------------
(* A request that is served: put off, declined or clocked. It is the head  *)
(* of the queue or what the side has put off, and newer than its history.  *)
Serves(c, n, w, a, q) ==
    /\ n.fault = None /\ Well(n) /\ w \in Seq(Packets) /\ Within(w, wire[c])
    /\ Publish(c, n, w)
    /\ a.port = port[c] /\ a.ep.next = ep[c].next /\ a.ep.pending = ep[c].pending
    /\ a.ep.answer = ep[c].answer /\ a.ep.response = ep[c].response
    /\ a.ep.served = q.seq /\ q \in Requests
    /\ \A s \in Past(c) : s < q.seq
    /\ \/ IsHead(q, wire[c], w) /\ ep[c].deferred = None
       \/ /\ ep[c].deferred # None /\ q = ep[c].deferred /\ ep[c].served = q.seq
          /\ ~Drives(port[c])

LEMMA ServesServing ==
    ASSUME NEW c \in Consoles, LinkSound, DeliveryInv', NEW n, NEW w, NEW a, NEW q,
           Serves(c, n, w, a, q), log'[Peer(c)] = log[Peer(c)], done' = done,
           n.ep.next = a.ep.next, n.ep.answer = a.ep.answer,
           n.ep.response = a.ep.response, n.ep.served = a.ep.served, NEW k
    PROVE  /\ Serving(Side(c), Side(Peer(c)), Side(c)', Side(Peer(c))', q, k)
           /\ Becomes(c, n, w) /\ Shaped(port[c], ep[c])
<1>1. Becomes(c, n, w)
  BY PublishBecomes DEF Serves
<1>2. up[c]
  BY DEF Serves, Publish
<1>3. Shaped(port[c], ep[c]) /\ ep[c].response = <<>>
  BY <1>2, ShapedSide DEF Shaped
<1>4. \A z \in Range(log[c]) : z.seq < q.seq
  BY DEF Serves, Past, Range
<1> DEFINE x == Side(c)
           y == Side(Peer(c))
           u == Side(c)'
           v == Side(Peer(c))'
<1>5. /\ Turn(x, y, u, v) /\ x.port = port[c] /\ x.ep = ep[c] /\ x.wire = wire[c]
      /\ x.log = log[c] /\ x.done = done[c] /\ u.ep = n.ep /\ u.wire = w
      /\ u.done = done'[c]
  BY <1>1 DEF Becomes
<1> HIDE DEF x, y, u, v
<1>6. Serving(x, y, u, v, q, k)
  BY <1>3, <1>4, <1>5 DEF Serving, Serves
<1> QED
  BY <1>1, <1>3, <1>6 DEF x, y, u, v

LEMMA PutOffStays ==
    ASSUME NEW c \in Consoles, LinkSound, DeliveryInv', NEW n, NEW w, NEW a, NEW q,
           Serves(c, n, w, a, q), log' = log, done' = done, PutsOff(a, n, q),
           a.ep.reply = None
    PROVE  StaysSound(c)
<1> DEFINE x == Side(c)
           y == Side(Peer(c))
           u == Side(c)'
           v == Side(Peer(c))'
           k == losses = 0
<1>1. Serving(x, y, u, v, q, k) /\ Becomes(c, n, w)
  BY ServesServing DEF PutsOff
<1>2. Both(c, x, y, k)
  BY SoundSides
<1>3. /\ x.port = port[c] /\ x.ep = ep[c] /\ x.log = log[c]
      /\ u.port = n.port /\ u.ep = n.ep /\ u.log = log'[c]
      /\ (Mute(n.out) /\ y.up => SameCalls(y.wire, v.wire))
  BY <1>1 DEF Becomes
<1> HIDE DEF x, y, u, v, k
<1>4. IsDeferred(x, y, u, v, q, k)
  BY <1>1, <1>3 DEF IsDeferred, PutsOff, Serves, Clear
<1>5. k \in BOOLEAN
  BY DEF k
<1>6. Both(c, u, v, k)
  BY <1>2, <1>4, <1>5, IsDeferredKeeps
<1> QED
  BY <1>1, <1>6, BecomesSound DEF u, v, k

LEMMA DeclinedStays ==
    ASSUME NEW c \in Consoles, LinkSound, DeliveryInv', NEW n, NEW w, NEW a, NEW q,
           Serves(c, n, w, a, q), log' = log, done' = done, Declines(a, n, q),
           a.ep.deferred = None
    PROVE  StaysSound(c)
<1> DEFINE x == Side(c)
           y == Side(Peer(c))
           u == Side(c)'
           v == Side(Peer(c))'
           k == losses = 0
<1>1. Serving(x, y, u, v, q, k) /\ Becomes(c, n, w)
  BY ServesServing DEF Declines, Answering
<1>2. Both(c, x, y, k)
  BY SoundSides
<1>3. /\ x.port = port[c] /\ x.ep = ep[c] /\ x.log = log[c]
      /\ u.port = n.port /\ u.ep = n.ep /\ u.log = log'[c]
      /\ \A p \in Calls : Says(n.out, p) /\ y.up => MoreCalls(y.wire, v.wire, p)
  BY <1>1 DEF Becomes
<1> HIDE DEF x, y, u, v, k
<1>4. IsDeclined(x, y, u, v, q, k)
  <2>1. n.ep.reply \in Replies /\ n.ep.reply \in Calls /\ Says(n.out, n.ep.reply)
    BY DEF Declines, Answering, Calls
  <2>2. y.up => MoreCalls(y.wire, v.wire, u.ep.reply)
    BY <1>3, <2>1
  <2> QED
    BY <1>1, <1>3, <2>1, <2>2 DEF IsDeclined, Declines, Answering, Serves
<1>5. k \in BOOLEAN
  BY DEF k
<1>6. Both(c, u, v, k)
  BY <1>2, <1>4, <1>5, IsDeclinedKeeps
<1> QED
  BY <1>1, <1>6, BecomesSound DEF u, v, k

LEMMA RangeOfAppend ==
    ASSUME NEW S, NEW s \in Seq(S), NEW e \in S
    PROVE  \A z : z \in Range(Append(s, e)) <=> z \in Range(s) \/ z = e
<1> DEFINE t == Append(s, e)
<1>1. /\ Len(s) \in Nat /\ DOMAIN s = 1..Len(s) /\ DOMAIN t = 1..(Len(s) + 1)
      /\ t[Len(s) + 1] = e /\ \A i \in 1..Len(s) : t[i] = s[i]
  OBVIOUS
<1> HIDE DEF t
<1>2. ASSUME NEW i \in DOMAIN t PROVE t[i] \in Range(s) \/ t[i] = e
  <2>1. i \in 1..Len(s) \/ i = Len(s) + 1
    BY <1>1
  <2> QED
    BY <1>1, <2>1 DEF Range
<1>3. ASSUME NEW i \in DOMAIN s PROVE s[i] \in Range(t)
  BY <1>1, <1>3 DEF Range
<1>4. e \in Range(t)
  BY <1>1 DEF Range
<1>5. \A z : z \in Range(t) <=> z \in Range(s) \/ z = e
  BY <1>2, <1>3, <1>4, Zenon DEF Range
<1> QED
  BY <1>5 DEF t

LEMMA GivenStays ==
    ASSUME NEW c \in Consoles, LinkSound, DeliveryInv', NEW n, NEW w, NEW a, NEW q,
           Serves(c, n, w, a, q), Records(c), done' = done, Gives(a, n, q),
           a.ep.deferred = None, Drives(port[c]) => c = Join
    PROVE  StaysSound(c)
<1> DEFINE x == Side(c)
           y == Side(Peer(c))
           u == Side(c)'
           v == Side(Peer(c))'
           k == losses = 0
           p == n.ep.reply
           z == [seq |-> q.seq, gave |-> p.bits, holds |-> q.bits]
<1>1. log'[Peer(c)] = log[Peer(c)]
  BY SideFacts DEF Records, LinkSound, DeliveryInv, DeliveryTypes
<1>2. Serving(x, y, u, v, q, k) /\ Becomes(c, n, w) /\ Shaped(port[c], ep[c])
  BY <1>1, ServesServing DEF Gives, Answering
<1>3. Both(c, x, y, k)
  BY SoundSides
<1>4. /\ p \in Replies /\ p \in Calls /\ p # None /\ p.seq = q.seq /\ p.kind = "response"
      /\ p.bits \in BitSeq /\ Len(p.bits) = ByteBits /\ Says(n.out, p)
  BY NoneAssumption DEF Gives, Answering, Replies, BitSeq, Calls
<1>5. n.ep.pending = None
  BY <1>2 DEF Gives, Serves, Shaped
<1>6. /\ x.port = port[c] /\ x.ep = ep[c] /\ x.log = log[c]
      /\ u.port = n.port /\ u.ep = n.ep /\ u.log = log'[c]
      /\ \A r \in Calls : Says(n.out, r) /\ y.up => MoreCalls(y.wire, v.wire, r)
      /\ port'[c] = n.port /\ ep'[c] = n.ep /\ up'[c]
  BY <1>2 DEF Becomes
<1>7. \A e : e \in Range(u.log) <=> e \in Range(x.log) \/ e = z
  <2>1. port'[c].bits # port[c].bits /\ port'[c].data = q.bits
    BY <1>6, EndpointAssumption, PortAssumption DEF Gives, Serves
  <2>2. log \in [Consoles -> Seq(Entry)] /\ log[c] \in Seq(Entry)
    BY DEF LinkSound, DeliveryInv, DeliveryTypes
  <2>3. log'[c] = Append(log[c], z)
    BY <1>4, <1>6, <2>1, <2>2 DEF Records
  <2>4. z \in Entry
    <3>1. n.port.data \in Byte /\ q.seq \in Nat
      BY DEF Serves, Well, Nodes, Port, Requests
    <3>2. n.port.data = q.bits
      BY DEF Gives
    <3> QED
      BY <1>4, <3>1, <3>2 DEF Entry
  <2> QED
    BY <1>6, <2>2, <2>3, <2>4, RangeOfAppend
<1> HIDE DEF x, y, u, v, k, z
<1>8. IsGiven(c, x, y, u, v, q, k)
  <2>1. y.up => MoreCalls(y.wire, v.wire, u.ep.reply)
    BY <1>4, <1>6
  <2>2. \A e : e \in Range(u.log) <=>
               e \in Range(x.log) \/ e = [seq |-> q.seq, gave |-> u.ep.reply.bits,
                                          holds |-> q.bits]
    BY <1>6, <1>7 DEF z
  <2>3. ~u.port.active /\ u.port.data = q.bits /\ u.ep.deferred = None
    BY <1>6 DEF Gives
  <2> HIDE DEF p
  <2> QED
    BY <1>2, <1>4, <1>5, <1>6, <2>1, <2>2, <2>3 DEF IsGiven, p
<1>9. k \in BOOLEAN
  BY DEF k
<1>10. Both(c, u, v, k)
  BY <1>3, <1>8, <1>9, IsGivenKeeps
<1> QED
  BY <1>2, <1>10, BecomesSound DEF u, v, k

\* The end of a poll that has left the transfer as it was.
LEMMA UnmovedStays ==
    ASSUME NEW c \in Consoles, LinkSound, DeliveryInv', NEW m, Unmoved(Node(c), m),
           NEW w \in Seq(Packets), Within(w, wire[c]),
           Publish(c, ServeDeferred(c, m), w), Records(c), done' = done,
           losses = 0 /\ (\A p \in Range(w) : p \notin Requests) =>
              \/ \A p \in Range(wire[c]) : p \notin Requests
              \/ ep[c].served = None \/ ep[c].served + 1 = ep[Peer(c)].next
    PROVE  StaysSound(c)
<1> DEFINE o == ServeDeferred(c, m)
<1>1. /\ Clear(m) /\ SameCore(ep[c], m.ep) /\ m.port = port[c]
  BY ClearNode DEF Unmoved
<1>2. up[c]
  BY DEF Publish
<1>3. Shaped(port[c], ep[c]) /\ (ep[c].deferred # None => Len(ep[c].deferred.bits) = ByteBits)
  <2>1. Shaped(port[c], ep[c]) /\ WholeDeferred(Side(c))
    BY <1>2, ShapedSide
  <2> QED
    BY <2>1 DEF WholeDeferred, Side
<1>4. o = m \/ Resumes(m, o)
  <2>1. m.ep.response = <<>> /\ (m.ep.deferred # None => Len(m.ep.deferred.bits) = ByteBits)
    BY <1>1, <1>3 DEF Shaped, SameCore
  <2>2. Follows(m.port) => m.port.bits = 0
    BY <1>1, <1>3 DEF Shaped, Follows, Drives
  <2> QED
    BY <1>1, <2>1, <2>2, DeferredOutcomes
<1>5. Publish(c, o, w)
  OBVIOUS
<1> HIDE DEF o
<1>6. CASE o = m
  <2>1. log'[Peer(c)] = log[Peer(c)]
    BY SideFacts DEF Records, LinkSound, DeliveryInv, DeliveryTypes
  <2>2. Becomes(c, m, w)
    BY <1>1, <1>5, <1>6, <2>1, PublishBecomes DEF Clear
  <2>3. log' = log
    BY <1>1, <2>2 DEF Becomes, Records
  <2>4. Shaped(m.port, m.ep)
    BY <1>1, <1>3 DEF Shaped, SameCore
  <2> QED
    BY <1>1, <1>5, <1>6, <2>3, <2>4, IdleStays
<1>7. CASE Resumes(m, o)
  <2> DEFINE q == ep[c].deferred
  <2>1. q # None /\ Follows(port[c]) /\ m.ep.deferred = q
    BY <1>1, <1>7 DEF Resumes, SameCore
  <2>2. PICK a : /\ Clear(a) /\ a.port = m.port /\ a.ep.deferred = None
                 /\ a.ep.next = m.ep.next /\ a.ep.pending = m.ep.pending
                 /\ a.ep.answer = m.ep.answer /\ a.ep.response = m.ep.response
                 /\ a.ep.served = m.ep.served
                 /\ Gives(a, o, q)
    BY <1>7, <2>1 DEF Resumes
  <2>3. Tidy(ep[c], Past(c)) /\ ep[c] \in Endpoint
    BY <1>2 DEF LinkSound, DeliveryInv, Remembered, DeliveryTypes
  <2>4. ep[c].served = q.seq /\ \A s \in Past(c) : s < q.seq
    BY <2>1, <2>3 DEF Tidy
  <2>5. q \in Requests
    BY <2>1, <2>3 DEF Endpoint
  <2>6. ~Drives(port[c])
    BY <2>1 DEF Follows, Drives
  <2>7. Serves(c, o, w, a, q)
    BY <1>1, <1>5, <2>1, <2>2, <2>4, <2>5, <2>6 DEF Serves, SameCore, Gives, Answering
  <2> HIDE DEF q
  <2> QED
    BY <2>2, <2>6, <2>7, GivenStays
<1> QED
  BY <1>4, <1>6, <1>7

LEMMA PollDeferredStays ==
    ASSUME NEW c \in Consoles, LinkSound, DeliveryInv', PollDeferred(c), Records(c),
           done' = done
    PROVE  StaysSound(c)
<1>1. /\ Clear(Node(c)) /\ wire[c] \in Seq(Packets) /\ Within(wire[c], wire[c])
  BY ClearNode
<1>2. Unmoved(Node(c), Node(c))
  BY <1>1, UnmovedItself
<1>3. Publish(c, ServeDeferred(c, Node(c)), wire[c])
  BY DEF PollDeferred, Act
<1> QED
  BY <1>1, <1>2, <1>3, UnmovedStays

LEMMA PollExpiredStays ==
    ASSUME NEW c \in Consoles, LinkSound, DeliveryInv', PollExpired(c), Records(c),
           done' = done
    PROVE  StaysSound(c)
<1> DEFINE n == Node(c)
           q == ep[c].deferred
           o == Reply([n EXCEPT !.ep.deferred = None], Packet("not_ready", q.seq, q.bits))
<1>1. /\ Clear(n) /\ n.port = port[c] /\ n.ep = ep[c]
      /\ wire[c] \in Seq(Packets) /\ Within(wire[c], wire[c])
  BY ClearNode
<1>2. Publish(c, o, wire[c]) /\ q # None /\ ~port[c].active /\ up[c]
  BY DEF PollExpired, Act, Publish
<1>3. Expires(n, o)
  BY <1>1, <1>2, ExpiredOutcomes
<1> HIDE DEF n, o
<1>4. PICK a : /\ Clear(a) /\ a.port = n.port /\ a.ep.deferred = None
               /\ a.ep.next = n.ep.next /\ a.ep.pending = n.ep.pending
               /\ a.ep.answer = n.ep.answer /\ a.ep.response = n.ep.response
               /\ a.ep.served = n.ep.served
               /\ Declines(a, o, q)
  BY <1>1, <1>3 DEF Expires
<1>5. Tidy(ep[c], Past(c)) /\ ep[c] \in Endpoint
  BY <1>2 DEF LinkSound, DeliveryInv, Remembered, DeliveryTypes
<1>6. ep[c].served = q.seq /\ (\A s \in Past(c) : s < q.seq) /\ q \in Requests
  BY <1>2, <1>5 DEF Tidy, Endpoint
<1>7. ~Drives(port[c])
  BY <1>2 DEF Drives
<1>8. Serves(c, o, wire[c], a, q)
  BY <1>1, <1>2, <1>4, <1>6, <1>7 DEF Serves, Declines, Answering
<1>9. log' = log
  <2>1. log'[Peer(c)] = log[Peer(c)]
    BY SideFacts DEF Records, LinkSound, DeliveryInv, DeliveryTypes
  <2>2. Becomes(c, o, wire[c])
    BY <1>8, <2>1, PublishBecomes DEF Serves
  <2> QED
    BY <1>1, <1>4, <2>2 DEF Becomes, Records, Declines
<1> HIDE DEF q
<1> QED
  BY <1>4, <1>8, <1>9, DeclinedStays

-----------------------------------------------------------------------------
(* The retries: the last one ends the link, the others send again what the *)
(* side is waiting for; of a request, only when it or its reply was lost.  *)
LEMMA TimeoutStays ==
    ASSUME NEW c \in Consoles, LinkSound, DeliveryInv', Records(c), done' = done,
           Act(c, [Node(c) EXCEPT !.fault = "timeout"])
    PROVE  StaysSound(c)
<1> DEFINE n == [Node(c) EXCEPT !.fault = "timeout"]
<1>1. n.fault = "timeout" /\ n.ep = ep[c] /\ n.out = <<>> /\ n.port = port[c]
  BY DEF Node
<1>2. Publish(c, n, wire[c])
  BY DEF Act
<1> HIDE DEF n
<1>3. "timeout" \in Known(losses = 0)
  BY DEF Known
<1> QED
  BY <1>1, <1>2, <1>3, FaultDown

LEMMA ResendsStays ==
    ASSUME NEW c \in Consoles, LinkSound, DeliveryInv', Records(c), done' = done,
           NEW e \in Endpoint, SameCore(ep[c], e), NEW packet \in Packets \ Calls,
           Act(c, ServeDeferred(c, Send([Node(c) EXCEPT !.ep = e], packet)))
    PROVE  StaysSound(c)
<1> DEFINE n == Node(c)
           a == [n EXCEPT !.ep = e]
           m == Send(a, packet)
<1>1. /\ Clear(n) /\ n.ep = ep[c] /\ wire[c] \in Seq(Packets) /\ Within(wire[c], wire[c])
  BY ClearNode
<1>2. Publish(c, ServeDeferred(c, m), wire[c])
  BY DEF Act
<1> HIDE DEF n
<1>3. Unmoved(n, a)
  BY <1>1, UnmovedField
<1> HIDE DEF a
<1>4. Unmoved(n, m)
  BY <1>3, UnmovedSend
<1> HIDE DEF m
<1> QED
  BY <1>1, <1>2, <1>4, UnmovedStays DEF n

LEMMA ResendStays ==
    ASSUME NEW c \in Consoles, LinkSound, DeliveryInv', Records(c), done' = done,
           AccurateRetries, ep[c].pending # None, ~AnswerReady(Node(c)),
           NEW e \in Endpoint, SameCore(ep[c], e), e.retries = ep[c].retries + 1,
           Act(c, ServeDeferred(c, Send([Node(c) EXCEPT !.ep = e], ep[c].pending)))
    PROVE  StaysSound(c)
<1> DEFINE n == Node(c)
           a == [n EXCEPT !.ep = e]
           r == ep[c].pending
           m == Send(a, r)
           x == Side(c)
           y == Side(Peer(c))
           u == Side(c)'
           v == Side(Peer(c))'
           k == losses = 0
<1>1. /\ Clear(n) /\ n.ep = ep[c] /\ n.port = port[c] /\ wire[c] \in Seq(Packets)
      /\ Within(wire[c], wire[c])
  BY ClearNode
<1>2. Publish(c, ServeDeferred(c, m), wire[c]) /\ up[c]
  BY DEF Act, Publish
<1>3. n.ep.answer = <<>>
  BY DEF AnswerReady
<1> HIDE DEF n
<1>4. Clear(a) /\ a.ep = e /\ a.port = port[c]
  BY <1>1, WithEndpoint
<1> HIDE DEF a
<1>5. r \in Requests /\ r \in Packets /\ r \in Calls
  <2>1. ep[c] \in Endpoint
    BY <1>1 DEF Clear, Well, Nodes
  <2> QED
    BY <2>1 DEF Endpoint, Packets, Calls
<1> HIDE DEF r
<1>6. Well(m) /\ m.port = port[c] /\ m.ep = e /\ m.fault = None /\ Says(m.out, r)
  BY <1>4, <1>5, SendClear
<1> HIDE DEF m
<1>7. Shaped(port[c], ep[c])
  BY <1>2, ShapedSide
<1>8. ~Follows(m.port)
  BY <1>6, <1>7 DEF Shaped, Follows, Drives
<1>9. Publish(c, m, wire[c])
  BY <1>2, <1>8 DEF ServeDeferred
<1>10. log'[Peer(c)] = log[Peer(c)]
  BY SideFacts DEF Records, LinkSound, DeliveryInv, DeliveryTypes
<1>11. Becomes(c, m, wire[c])
  BY <1>1, <1>6, <1>9, <1>10, PublishBecomes
<1>12. log' = log
  BY <1>6, <1>11 DEF Records, Becomes
<1>13. ~InFlight(c, r.seq)
  <2>1. ep'[c].retries > ep[c].retries
    <3>1. ep'[c] = e /\ ep[c] \in Endpoint
      BY <1>1, <1>6, <1>11 DEF Becomes, Clear, Well, Nodes
    <3>2. ep[c].retries \in Nat
      BY <3>1 DEF Endpoint
    <3> QED
      BY <3>1, <3>2
  <2> QED
    BY <2>1 DEF AccurateRetries, r
<1>14. /\ y.ep.deferred = None
       /\ \A q \in Range(y.wire) : q \in Requests => q.seq # r.seq
       /\ \A q \in Range(x.wire) : q \notin ReplyTo(r.seq)
  BY <1>13, <1>11 DEF InFlight, Becomes, Range, Requests, ReplyTo, Replies
<1>15. /\ Turn(x, y, u, v) /\ x.port = port[c] /\ x.ep = ep[c] /\ x.wire = wire[c]
       /\ x.log = log[c] /\ x.done = done[c] /\ u.port = m.port /\ u.ep = m.ep
       /\ u.wire = wire[c] /\ u.log = log'[c] /\ u.done = done'[c]
       /\ (y.up => MoreCalls(y.wire, v.wire, r))
  BY <1>5, <1>6, <1>11 DEF Becomes
<1>16. Both(c, x, y, k)
  BY SoundSides
<1>17. Resent(x, y, u, v, k)
  <2> HIDE DEF x, y, u, v, k
  <2>1. Shaped(m.port, m.ep)
    BY <1>6, <1>7 DEF Shaped, SameCore
  <2>2. Idles(x, y, u, v, k)
    BY <1>6, <1>7, <1>12, <1>15, <2>1 DEF Idles, Unasked
  <2> QED
    BY <1>1, <1>3, <1>6, <1>14, <1>15, <2>2 DEF Resent, Unreplied, r
<1> HIDE DEF x, y, u, v, k
<1>18. k \in BOOLEAN
  BY DEF k
<1>19. Both(c, u, v, k)
  BY <1>16, <1>17, <1>18, ResentKeeps
<1> QED
  BY <1>11, <1>19, BecomesSound DEF u, v, k

LEMMA RetryStays ==
    ASSUME NEW c \in Consoles, LinkSound, DeliveryInv', Records(c), done' = done,
           AccurateRetries, RetryRequest(c) \/ RetryCommit(c) \/ RetryReset(c)
    PROVE  StaysSound(c)
<1> DEFINE n == Node(c)
           timeout == [n EXCEPT !.fault = "timeout"]
           e == ep[c]
           f == [e EXCEPT !.retries = e.retries + 1]
           g == [e EXCEPT !.commit_retries = e.commit_retries + 1]
           h == [e EXCEPT !.reset_retries = e.reset_retries + 1]
<1>1. /\ n.ep = e /\ n \in Nodes /\ e \in Endpoint
      /\ e.commit \in Nat \cup {None} /\ e.reset \in Nat \cup {None}
      /\ e.retries + 1 \in Nat
      /\ e.commit_retries + 1 \in Nat /\ e.reset_retries + 1 \in Nat
  <2>1. Clear(n) /\ n.ep = e
    BY ClearNode
  <2>2. n \in Nodes /\ e \in Endpoint
    BY <2>1 DEF Clear, Well, Nodes
  <2> HIDE DEF e, n
  <2> QED
    BY <2>1, <2>2 DEF Endpoint
<1>2. /\ [n EXCEPT !.ep.retries = @ + 1] = [n EXCEPT !.ep = f]
      /\ [n EXCEPT !.ep.commit_retries = @ + 1] = [n EXCEPT !.ep = g]
      /\ [n EXCEPT !.ep.reset_retries = @ + 1] = [n EXCEPT !.ep = h]
  <2> HIDE DEF n, e
  <2> QED
    BY <1>1 DEF Nodes
<1>3. /\ f \in Endpoint /\ SameCore(e, f) /\ f.retries = e.retries + 1
      /\ g \in Endpoint /\ SameCore(e, g)
      /\ h \in Endpoint /\ SameCore(e, h)
  <2> HIDE DEF e
  <2>1. f \in Endpoint /\ SameCore(e, f) /\ f.retries = e.retries + 1
    BY <1>1, RetriesField, OtherFields
  <2>2. g \in Endpoint /\ SameCore(e, g)
    BY <1>1, CommitRetriesField, OtherFields
  <2>3. h \in Endpoint /\ SameCore(e, h)
    BY <1>1, ResetRetriesField, OtherFields
  <2> QED
    BY <2>1, <2>2, <2>3
<1> HIDE DEF f, g, h
<1>4. CASE Act(c, timeout)
  BY <1>4, TimeoutStays
<1>5. CASE /\ e.pending # None /\ ~AnswerReady(n)
           /\ Act(c, ServeDeferred(c, Send([n EXCEPT !.ep = f], e.pending)))
  BY <1>1, <1>3, <1>5, ResendStays
<1>6. CASE /\ e.commit # None
           /\ Act(c, ServeDeferred(c, Send([n EXCEPT !.ep = g], Packet("commit", e.commit, <<>>))))
  <2> DEFINE packet == Packet("commit", e.commit, <<>>)
  <2>1. packet \in Packets \ Calls
    <3>1. e.commit \in Nat
      BY <1>1, <1>6
    <3> HIDE DEF e
    <3> QED
      BY <3>1, PlainPackets
  <2>2. Act(c, ServeDeferred(c, Send([Node(c) EXCEPT !.ep = g], packet)))
    BY <1>6
  <2> HIDE DEF packet
  <2> QED
    BY <1>3, <2>1, <2>2, ResendsStays
<1>7. CASE /\ e.reset # None
           /\ Act(c, ServeDeferred(c, Send([n EXCEPT !.ep = h], Packet("reset", e.reset, <<>>))))
  <2> DEFINE packet == Packet("reset", e.reset, <<>>)
  <2>1. packet \in Packets \ Calls
    <3>1. e.reset \in Nat
      BY <1>1, <1>7
    <3> HIDE DEF e
    <3> QED
      BY <3>1, PlainPackets
  <2>2. Act(c, ServeDeferred(c, Send([Node(c) EXCEPT !.ep = h], packet)))
    BY <1>7
  <2> HIDE DEF packet
  <2> QED
    BY <1>3, <2>1, <2>2, ResendsStays
<1>8. \/ Act(c, timeout)
      \/ /\ e.pending # None /\ ~AnswerReady(n)
         /\ Act(c, ServeDeferred(c, Send([n EXCEPT !.ep = f], e.pending)))
      \/ /\ e.commit # None
         /\ Act(c, ServeDeferred(c, Send([n EXCEPT !.ep = g], Packet("commit", e.commit, <<>>))))
      \/ /\ e.reset # None
         /\ Act(c, ServeDeferred(c, Send([n EXCEPT !.ep = h], Packet("reset", e.reset, <<>>))))
  BY <1>1, <1>2 DEF RetryRequest, RetryCommit, RetryReset
<1> QED
  BY <1>4, <1>5, <1>6, <1>7, <1>8

-----------------------------------------------------------------------------
(* The channel loses a packet, of a side that may already be down.         *)
LEMMA LoseStays ==
    ASSUME NEW c \in Consoles, LinkSound, DeliveryInv', Lose(c), log' = log,
           done' = done
    PROVE  StaysSound(c)
<1> DEFINE d == Peer(c)
           x == Side(c)
           y == Side(d)
           u == Side(c)'
           v == Side(d)'
           k == losses = 0
<1>1. /\ d \in Consoles /\ d # c /\ Both(c, x, y, k) /\ DeliveryTypes /\ LinkTypes
      /\ Typed(x) /\ Typed(y) /\ Typed(u) /\ Typed(v) /\ losses \in Nat
      /\ fault[c] \in Known(k)
  BY SoundSides, TypedPrimed DEF LinkSound, DeliveryInv
<1>2. PICK i \in 1..Len(wire[c]) : wire' = [wire EXCEPT ![c] = RemoveAt(@, i)]
  BY DEF Lose
<1>3. port' = port /\ ep' = ep /\ up' = up /\ fault' = fault /\ losses' = losses + 1
  BY DEF Lose
<1>4. wire[c] \in Seq(Packets) /\ wire[d] \in Seq(Packets)
  BY <1>1 DEF DeliveryTypes
<1>5. wire'[c] = RemoveAt(wire[c], i) /\ wire'[d] = wire[d]
  BY <1>1, <1>2 DEF DeliveryTypes
<1>6. Fewer(wire[c], wire'[c])
  <2>1. Within(RemoveAt(wire[c], i), wire[c])
    BY <1>4, RemoveAtWithin
  <2>2. wire'[c] \in Seq(Packets)
    BY <1>4, <1>5, RangeOfRemoveAt
  <2> QED
    BY <1>4, <1>5, <2>1, <2>2, FewerFacts
<1>7. SameCalls(wire[d], wire[d])
  BY DEF SameCalls
<1>8. /\ u.ep = x.ep /\ u.port = x.port /\ u.log = x.log /\ u.done = x.done
      /\ u.up = x.up /\ v = y /\ x.wire = wire[c] /\ u.wire = wire'[c]
      /\ y.wire = wire[d] /\ x.up = up[c]
  BY <1>3, <1>5 DEF Side
<1>9. losses' # 0 /\ losses' \in Nat
  BY <1>1, <1>3
<1> HIDE DEF x, y, u, v, k
<1>10. k \in BOOLEAN
  BY DEF k
<1>11. up[c] \in BOOLEAN
  BY <1>1 DEF DeliveryTypes
<1>12. ASSUME up[c] PROVE Both(c, u, v, FALSE)
  <2>1. Turn(x, y, u, v)
    BY <1>1, <1>6, <1>8, <1>12 DEF Turn
  <2> QED
    BY <1>1, <1>8, <1>10, <2>1, LosesKeep
<1>13. ASSUME ~up[c] PROVE Both(c, u, v, FALSE)
  <2>1. IsDown(x, y, u, v)
    BY <1>1, <1>7, <1>8, <1>13 DEF IsDown
  <2>2. Both(c, u, v, k)
    BY <1>1, <1>10, <2>1, IsDownKeeps
  <2> QED
    BY <1>10, <2>2, GoodAnyway
<1>14. Both(c, u, v, FALSE)
  BY <1>11, <1>12, <1>13
<1> DEFINE k1 == losses' = 0
<1>15. k1 = FALSE
  BY <1>9
<1>16. Both(c, u, v, k1)
  <2> HIDE DEF k1
  <2> QED
    BY <1>14, <1>15
<1>17. fault'[c] \in Known(losses' = 0)
  BY <1>1, <1>3, <1>9 DEF Known, k
<1> QED
  BY <1>1, <1>3, <1>9, <1>16, <1>17 DEF StaysSound, LinkTypes, u, v

-----------------------------------------------------------------------------
(* A packet that arrives: one that is neither a request nor a reply to one.*)
LEMMA HeadOfWire ==
    ASSUME NEW c \in Consoles, LinkSound, wire[c] # <<>>
    PROVE  LET q == Head(wire[c])
               w == Tail(wire[c])
           IN  /\ q \in Packets /\ q \in Range(wire[c]) /\ IsHead(q, wire[c], w)
               /\ w \in Seq(Packets) /\ Within(w, wire[c])
               /\ q \notin Requests /\ (\A p \in Range(w) : p \notin Requests) =>
                     \A p \in Range(wire[c]) : p \notin Requests
<1> DEFINE s == wire[c]
<1>1. s \in Seq(Packets) /\ s # <<>>
  BY ClearNode
<1> HIDE DEF s
<1>2. Within(Tail(s), s) /\ Tail(s) \in Seq(Packets) /\ IsHead(Head(s), s, Tail(s))
  BY <1>1, TailWithin, HeadIsHead
<1>3. /\ Head(s) \in Range(s) /\ Head(s) \in Packets
      /\ \A p \in Range(s) : p = Head(s) \/ p \in Range(Tail(s))
  BY <1>1, HeadFacts
<1> QED
  BY <1>2, <1>3 DEF s

LEMMA NoneLeft ==
    ASSUME NEW c, NEW m, m.ep.deferred = None \/ ~m.port.active \/ m.fault # None
    PROVE  ServeDeferred(c, m) = m
BY DEF ServeDeferred, Follows

LEMMA SameLog ==
    ASSUME NEW c \in Consoles, LinkSound, DeliveryInv', NEW n, Well(n), n.fault = None,
           NEW w \in Seq(Packets), Within(w, wire[c]), Publish(c, n, w), Records(c),
           done' = done, n.port.bits = port[c].bits
    PROVE  log' = log /\ Becomes(c, n, w)
<1>1. log'[Peer(c)] = log[Peer(c)]
  BY SideFacts DEF Records, LinkSound, DeliveryInv, DeliveryTypes
<1>2. Becomes(c, n, w)
  BY <1>1, PublishBecomes
<1>3. log' = log
  BY <1>2 DEF Becomes, Records
<1> QED
  BY <1>2, <1>3

LEMMA OtherPacketStays ==
    ASSUME NEW c \in Consoles, LinkSound, DeliveryInv', PollPacket(c), Records(c),
           done' = done, Head(wire[c]) \notin Calls
    PROVE  StaysSound(c)
<1> DEFINE n == Node(c)
           q == Head(wire[c])
           w == Tail(wire[c])
           m == Receive(c, n, q)
<1>1. /\ Clear(n) /\ n.port = port[c] /\ n.ep = ep[c]
  BY ClearNode
<1>2. /\ wire[c] # <<>> /\ Publish(c, ServeDeferred(c, m), w) /\ up[c]
  BY DEF PollPacket, Publish
<1>3. /\ q \in Packets /\ q \in Range(wire[c]) /\ w \in Seq(Packets) /\ Within(w, wire[c])
      /\ q \notin Requests /\ (\A p \in Range(w) : p \notin Requests) =>
            \A p \in Range(wire[c]) : p \notin Requests
  BY <1>2, HeadOfWire
<1>4. q \in Packets \ Calls /\ q \notin Requests
  BY <1>3 DEF Calls
<1> HIDE DEF n, q, w
<1>5. \/ Unmoved(n, m)
      \/ /\ q \in Resets
         /\ n.ep.peer_reset = None \/ q.seq > n.ep.peer_reset
         /\ Forgotten(n, m)
  BY <1>1, <1>4, OtherOutcomes
<1> HIDE DEF m
<1>6. CASE Unmoved(n, m)
  BY <1>2, <1>3, <1>4, <1>6, UnmovedStays DEF n
<1>7. CASE /\ q \in Resets
           /\ n.ep.peer_reset = None \/ q.seq > n.ep.peer_reset
           /\ Forgotten(n, m)
  <2>1. Clear(m) /\ m.ep.next = ep[c].next /\ Blank(m.ep) /\ m.port = port[c]
    BY <1>1, <1>7 DEF Forgotten
  <2>2. ServeDeferred(c, m) = m
    BY <2>1, NoneLeft DEF Blank
  <2>3. log' = log
    BY <1>2, <1>3, <2>1, <2>2, SameLog DEF Clear
  <2>4. ep[Peer(c)].reset # None
    <3> DEFINE d == Peer(c)
    <3>1. /\ d \in Consoles /\ Peer(d) = c /\ DeliveryTypes /\ MarkersInOrder
      BY SideFacts DEF LinkSound, DeliveryInv
    <3> HIDE DEF d
    <3>2. q.seq \in Nat /\ q.seq < ep[d].control
      BY <1>3, <1>7, <3>1 DEF MarkersInOrder, Resets
    <3>3. ep[d].control \in Nat /\ ep[c].peer_reset \in Nat \cup {None} /\ None \notin Nat
      BY <3>1, EndpointAssumption DEF DeliveryTypes, Endpoint
    <3>4. ASSUME ep[d].reset = None PROVE FALSE
      <4>1. ep[d].control > 0
        BY <3>2, <3>3
      <4>2. ep[c].peer_reset # None /\ ep[d].control <= ep[c].peer_reset + 1
        BY <3>1, <3>4, <4>1 DEF MarkersInOrder
      <4> QED
        BY <1>1, <1>7, <3>2, <3>3, <4>2
    <3> QED
      BY <3>4 DEF d
  <2>5. \A d \in Consoles : RequestsTo(d) = {}
    BY <2>4, SideFacts DEF LinkSound, DeliveryInv, QuietWhileReset
  <2>6. \A d \in Consoles : ep[d].pending = None /\ Unasked(Side(d))
    <3> SUFFICES ASSUME NEW d \in Consoles
                 PROVE  ep[d].pending = None /\ \A p \in Range(wire[d]) : p \notin Requests
      BY DEF Unasked, Side
    <3>1. Peer(d) \in Consoles /\ Peer(Peer(d)) = d /\ ep[d] \in Endpoint
      BY SideFacts DEF LinkSound, DeliveryInv, DeliveryTypes
    <3>2. ep[d].pending # None => ep[d].pending \in RequestsTo(Peer(d))
      BY <3>1 DEF RequestsTo, Endpoint
    <3> QED
      BY <2>5, <3>1, <3>2 DEF RequestsTo
  <2>7. m.port.active => m.port.bits = 0
    <3>1. Shaped(port[c], ep[c]) /\ ep[c].pending = None
      BY <1>2, <2>6, ShapedSide
    <3> QED
      BY <2>1, <3>1 DEF Shaped
  <2> QED
    BY <1>2, <1>3, <2>1, <2>2, <2>3, <2>6, <2>7, ForgetStays
<1> QED
  BY <1>5, <1>6, <1>7

-----------------------------------------------------------------------------
(* A reply to the side's own request.                                      *)
LEMMA ReplyStays ==
    ASSUME NEW c \in Consoles, LinkSound, DeliveryInv', PollPacket(c), Records(c),
           done' = done, Head(wire[c]) \in Replies
    PROVE  StaysSound(c)
<1> DEFINE n == Node(c)
           q == Head(wire[c])
           w == Tail(wire[c])
           m == ReceiveReply(c, n, q)
           x == Side(c)
           y == Side(Peer(c))
           u == Side(c)'
           v == Side(Peer(c))'
           k == losses = 0
<1>1. /\ Clear(n) /\ n.port = port[c] /\ n.ep = ep[c]
  BY ClearNode
<1>2. /\ wire[c] # <<>> /\ Publish(c, ServeDeferred(c, Receive(c, n, q)), w) /\ up[c]
  BY DEF PollPacket, Publish
<1>3. /\ q \in Packets /\ q \in Range(wire[c]) /\ w \in Seq(Packets) /\ Within(w, wire[c])
      /\ IsHead(q, wire[c], w)
      /\ q \notin Requests /\ (\A p \in Range(w) : p \notin Requests) =>
            \A p \in Range(wire[c]) : p \notin Requests
  BY <1>2, HeadOfWire
<1>4. q \in Replies
  OBVIOUS
<1> HIDE DEF n, q, w
<1>5. q \notin Requests /\ q.kind \in {"response", "denied", "not_ready"}
  BY <1>4 DEF Replies, Requests
<1>6. Receive(c, n, q) = m
  BY <1>5 DEF Receive
<1>7. Own(c, x, y) /\ Shaped(port[c], ep[c])
  BY <1>2, ShapedSide
<1>8. x.ep = ep[c] /\ x.wire = wire[c] /\ x.port = port[c]
  BY DEF Side
<1>9. Len(q.bits) = ByteBits
  BY <1>3, <1>4, <1>7, <1>8 DEF Own, OldReplies
<1>10. \/ (n.ep.pending = None \/ q.seq # n.ep.pending.seq) /\ m = n
       \/ /\ n.ep.pending # None /\ q.seq = n.ep.pending.seq
          /\ \/ q.kind = "response" /\ Answered(n, m, q)
             \/ /\ q.kind # "response"
                /\ n.ep.answer = <<>> => Refused(n, m)
  <2>1. /\ n.ep.response = <<>>
        /\ n.ep.pending # None => Len(n.ep.pending.bits) = ByteBits
    BY <1>1, <1>7 DEF Shaped
  <2> HIDE DEF x, y, u, v, k
  <2> QED
    BY <1>1, <1>4, <1>9, <2>1, ReplyOutcomes
<1> HIDE DEF m
<1>11. CASE m = n
  <2>1. Unmoved(n, m)
    BY <1>1, <1>11, UnmovedItself
  <2> QED
    BY <1>2, <1>3, <1>5, <1>6, <2>1, UnmovedStays DEF n
<1>12. CASE /\ n.ep.pending # None /\ q.seq = n.ep.pending.seq
            /\ \/ q.kind = "response" /\ Answered(n, m, q)
               \/ /\ q.kind # "response"
                  /\ n.ep.answer = <<>> => Refused(n, m)
  <2>1. q \in ReplyTo(ep[c].pending.seq) /\ ep[c].pending # None
    BY <1>1, <1>4, <1>12 DEF ReplyTo
  <2>2. ep[c].answer = <<>> /\ ep[c].deferred = None
    BY <1>3, <1>7, <1>8, <2>1 DEF Own, TrueReplies
  <2>3. Answered(n, m, q) \/ Refused(n, m)
    BY <1>1, <1>12, <2>2
  <2>4. /\ Clear(m) /\ m.ep.next = ep[c].next /\ m.ep.deferred = ep[c].deferred
        /\ m.ep.response = <<>> /\ m.ep.served = ep[c].served /\ m.ep.reply = ep[c].reply
        /\ m.port.bits = port[c].bits
    BY <1>1, <1>7, <2>3 DEF Answered, Refused, Shaped
  <2>5. Publish(c, m, w)
    BY <1>2, <1>6, <2>2, <2>4, NoneLeft
  <2>6. log' = log /\ Becomes(c, m, w)
    BY <1>3, <2>4, <2>5, SameLog DEF Clear
  <2>7. /\ Turn(x, y, u, v) /\ x.log = log[c] /\ x.done = done[c]
        /\ u.port = m.port /\ u.ep = m.ep
        /\ u.wire = w /\ u.log = log'[c] /\ u.done = done'[c]
        /\ (y.up => SameCalls(y.wire, v.wire))
    BY <2>4, <2>6 DEF Becomes, Clear
  <2>8. Both(c, x, y, k)
    BY SoundSides
  <2> HIDE DEF x, y, u, v, k
  <2>9. TakesReply(x, y, u, v, q)
    BY <1>3, <1>8, <2>1, <2>4, <2>6, <2>7 DEF TakesReply
  <2>10. k \in BOOLEAN
    BY DEF k
  <2>11. CASE q.kind = "response"
    <3>1. Answered(n, m, q)
      BY <1>12, <2>11
    <3>2. IsAnswered(x, y, u, v, q)
      BY <1>1, <1>8, <2>7, <2>9, <2>11, <3>1 DEF IsAnswered, Answered
    <3>3. Both(c, u, v, k)
      BY <2>8, <2>10, <3>2, IsAnsweredKeeps
    <3> QED
      BY <2>6, <3>3, BecomesSound DEF u, v, k
  <2>12. CASE q.kind # "response"
    <3>1. Refused(n, m)
      BY <1>1, <1>12, <2>2, <2>12
    <3>2. IsRefused(x, y, u, v, q)
      BY <1>1, <1>8, <2>7, <2>9, <2>12, <3>1 DEF IsRefused, Refused
    <3>3. Both(c, u, v, k)
      BY <2>8, <2>10, <3>2, IsRefusedKeeps
    <3> QED
      BY <2>6, <3>3, BecomesSound DEF u, v, k
  <2> QED
    BY <2>11, <2>12
<1> QED
  BY <1>10, <1>11, <1>12

-----------------------------------------------------------------------------
(* A request of the peer's: old, answered from the cache, or a new one.    *)
LEMMA NewerThanPast ==
    ASSUME NEW c \in Consoles, LinkSound, up[c], NEW q \in Requests,
           q \in Range(wire[c]),
           ep[c].served = None \/ q.seq = ep[c].served + 1
    PROVE  \A s \in Past(c) : s < q.seq
<1>1. DeliveryTypes /\ Remembered /\ NewerAfterReset /\ q \in RequestsTo(c)
  BY DEF LinkSound, DeliveryInv, RequestsTo
<1>2. CASE ep[c].served = None
  BY <1>1, <1>2 DEF NewerAfterReset
<1>3. CASE ep[c].served # None
  <2>1. ep[c].served \in Nat
    BY <1>1, <1>3 DEF DeliveryTypes, Endpoint
  <2>2. \A s \in Past(c) : s <= ep[c].served
    BY <1>1, <1>3 DEF Remembered, Tidy
  <2>3. \A s \in Past(c) : s \in Nat
    <3>1. log[c] \in Seq(Entry)
      BY <1>1 DEF DeliveryTypes
    <3>2. \A i \in DOMAIN log[c] : log[c][i] \in Entry
      BY <3>1
    <3> QED
      BY <3>2 DEF Past, Entry
  <2> QED
    BY <1>3, <2>1, <2>2, <2>3
<1> QED
  BY <1>2, <1>3

LEMMA RequestStays ==
    ASSUME NEW c \in Consoles, LinkSound, DeliveryInv', PollPacket(c), Records(c),
           done' = done, Head(wire[c]) \in Requests
    PROVE  StaysSound(c)
<1> DEFINE n == Node(c)
           q == Head(wire[c])
           w == Tail(wire[c])
           m == ReceiveRequest(c, n, q)
           a == [n EXCEPT !.ep = Accepted(n.ep, q)]
           x == Side(c)
           y == Side(Peer(c))
           u == Side(c)'
           v == Side(Peer(c))'
           k == losses = 0
<1>1. /\ Clear(n) /\ n.port = port[c] /\ n.ep = ep[c] /\ n.out = <<>>
  BY ClearNode
<1>2. /\ wire[c] # <<>> /\ Publish(c, ServeDeferred(c, Receive(c, n, q)), w) /\ up[c]
  BY DEF PollPacket, Publish
<1>3. /\ q \in Packets /\ q \in Range(wire[c]) /\ w \in Seq(Packets) /\ Within(w, wire[c])
      /\ IsHead(q, wire[c], w)
  BY <1>2, HeadOfWire
<1>4. q \in Requests
  OBVIOUS
<1> HIDE DEF n, q, w
<1>5. Receive(c, n, q) = m
  BY <1>4 DEF Receive, Requests
<1>6. /\ Own(c, x, y) /\ Inbox(x, y) /\ Shaped(port[c], ep[c]) /\ (k => Paced(x, y))
  BY <1>2, ShapedSide
<1>7. x.ep = ep[c] /\ x.wire = wire[c] /\ x.port = port[c] /\ y.ep = ep[Peer(c)]
  BY DEF Side
<1>8. /\ Len(q.bits) = ByteBits /\ q.seq + 1 = ep[Peer(c)].next /\ ep[c].deferred = None
      /\ ~Unasked(x) /\ Once(wire[c], Requests)
  BY <1>3, <1>4, <1>6, <1>7 DEF Inbox, NewestRequest, Unasked
<1>9. ep[c].served # None => ep[c].served \in Nat
  BY <1>1 DEF Clear, Well, Nodes, Endpoint
<1>10. /\ q.seq \in Nat /\ ep[Peer(c)].next \in Nat
  <2>1. ep[Peer(c)] \in Endpoint
    BY SideFacts DEF LinkSound, DeliveryInv, DeliveryTypes
  <2> QED
    BY <1>4, <2>1 DEF Requests, Endpoint
<1>11. \A p \in Range(w) : p \notin Requests
  BY <1>3, <1>4, <1>8 DEF IsHead
<1>12. n.port.active /\ ~(n.port.internal /\ c = Host) => n.port.bits = 0
  <2> SUFFICES ASSUME n.port.active, ~(n.port.internal /\ c = Host), n.port.bits # 0
               PROVE  FALSE
    OBVIOUS
  <2>1. ep[c].answer # <<>> /\ ep[c].pending # None /\ Drives(port[c])
    BY <1>1, <1>6 DEF Shaped
  <2>2. c = Join
    BY <1>1, <2>1 DEF Drives, Consoles
  <2>3. Has(y.log, ep[c].pending.seq)
    BY <1>6, <1>7, <2>1 DEF Own, TrueAnswer
  <2> HIDE DEF x, y
  <2> QED
    BY <1>6, <1>7, <1>8, <2>1, <2>2, <2>3 DEF Own, HostWaits
<1>13. \/ n.ep.served = q.seq /\ m = n
       \/ Repeats(n, m, q)
       \/ /\ n.ep.served # None /\ q.seq # n.ep.served + 1 /\ n.ep.served # q.seq
          /\ m = [n EXCEPT !.fault = "out of order"]
       \/ /\ n.ep.served # q.seq
          /\ n.ep.served = None \/ q.seq = n.ep.served + 1
          /\ Clear(a) /\ a.ep = Accepted(n.ep, q) /\ a.port = n.port
          /\ \/ PutsOff(a, m, q)
             \/ Drives(n.port) /\ c = Host /\ Declines(a, m, q)
             \/ (Drives(n.port) => c = Join) /\ Gives(a, m, q)
  <2>1. n.ep.response = <<>> /\ n.ep.deferred = None
    BY <1>1, <1>6, <1>8 DEF Shaped
  <2> HIDE DEF x, y, u, v, k
  <2> QED
    BY <1>1, <1>4, <1>8, <1>12, <2>1, RequestOutcomes
<1> HIDE DEF m, a
<1>14. CASE n.ep.served = q.seq /\ m = n
  <2>1. Unmoved(n, m)
    BY <1>1, <1>14, UnmovedItself
  <2>2. ep[c].served + 1 = ep[Peer(c)].next
    BY <1>1, <1>8, <1>14
  <2> QED
    BY <1>2, <1>3, <1>5, <2>1, <2>2, UnmovedStays DEF n
<1>15. CASE Repeats(n, m, q)
  <2>1. /\ Well(m) /\ m.fault = None /\ m.port = port[c] /\ m.ep = ep[c]
        /\ ep[c].reply # None /\ ep[c].served = q.seq /\ Says(m.out, ep[c].reply)
    BY <1>1, <1>15 DEF Repeats
  <2>2. Publish(c, m, w)
    BY <1>2, <1>5, <1>8, <2>1, NoneLeft
  <2>3. log' = log /\ Becomes(c, m, w)
    BY <1>3, <2>1, <2>2, SameLog
  <2>4. ep[c].reply \in Calls
    BY <1>1, <2>1 DEF Clear, Well, Nodes, Endpoint, Calls
  <2>5. /\ Turn(x, y, u, v) /\ x.log = log[c] /\ x.done = done[c]
        /\ u.port = m.port /\ u.ep = m.ep
        /\ u.wire = w /\ u.log = log'[c] /\ u.done = done'[c]
        /\ (y.up => MoreCalls(y.wire, v.wire, ep[c].reply))
    BY <2>1, <2>3, <2>4 DEF Becomes
  <2>6. Both(c, x, y, k)
    BY SoundSides
  <2> HIDE DEF x, y, u, v, k
  <2>7. Idles(x, y, u, v, k)
    BY <1>6, <1>7, <1>8, <2>1, <2>3, <2>5 DEF Idles, SameCore
  <2>8. Repeated(x, y, u, v, k)
    BY <1>3, <1>4, <1>7, <1>11, <2>1, <2>5, <2>7 DEF Repeated, Unasked
  <2>9. k \in BOOLEAN
    BY DEF k
  <2>10. Both(c, u, v, k)
    BY <2>6, <2>8, <2>9, RepeatedKeeps
  <2> QED
    BY <2>3, <2>10, BecomesSound DEF u, v, k
<1>16. CASE /\ n.ep.served # None /\ q.seq # n.ep.served + 1 /\ n.ep.served # q.seq
            /\ m = [n EXCEPT !.fault = "out of order"]
  <2>1. /\ m.fault = "out of order" /\ m.ep = ep[c] /\ m.out = <<>> /\ m.port = port[c]
    <3>1. n \in Nodes
      BY <1>1 DEF Clear, Well
    <3> QED
      BY <1>1, <1>16, <3>1 DEF Nodes
  <2>2. losses # 0
    <3> SUFFICES ASSUME k PROVE FALSE
      OBVIOUS
    <3>1. ep[c].served + 1 = ep[Peer(c)].next \/ ep[c].served + 2 = ep[Peer(c)].next
      BY <1>1, <1>6, <1>7, <1>16 DEF Paced
    <3>2. ep[c].served \in Nat /\ q.seq # ep[c].served + 1 /\ ep[c].served # q.seq
      BY <1>1, <1>9, <1>16
    <3> HIDE DEF k
    <3> QED
      BY <1>8, <1>10, <3>1, <3>2
  <2>3. m.fault # None
    BY <2>1, NoneAssumption
  <2>4. Publish(c, m, w)
    BY <1>2, <1>5, <2>3, NoneLeft
  <2>5. "out of order" \in Known(losses = 0)
    BY <2>2 DEF Known
  <2> HIDE DEF x, y, u, v, k
  <2> QED
    BY <2>1, <2>4, <2>5, FaultDown
<1>17. CASE /\ n.ep.served # q.seq
            /\ n.ep.served = None \/ q.seq = n.ep.served + 1
            /\ Clear(a) /\ a.ep = Accepted(n.ep, q) /\ a.port = n.port
            /\ \/ PutsOff(a, m, q)
               \/ Drives(n.port) /\ c = Host /\ Declines(a, m, q)
               \/ (Drives(n.port) => c = Join) /\ Gives(a, m, q)
  <2>1. /\ a.ep.served = q.seq /\ a.ep.reply = None
        /\ a.ep.next = ep[c].next /\ a.ep.pending = ep[c].pending
        /\ a.ep.answer = ep[c].answer /\ a.ep.response = ep[c].response
        /\ a.ep.deferred = None /\ a.port = port[c]
    <3>1. ep[c] \in Endpoint
      BY <1>1 DEF Clear, Well, Nodes
    <3> QED
      BY <1>1, <1>4, <1>8, <1>17, <3>1, AcceptedCore
  <2>2. \A s \in Past(c) : s < q.seq
    BY <1>1, <1>2, <1>3, <1>4, <1>17, NewerThanPast
  <2>3. Well(m) /\ m.fault = None
    BY <1>17 DEF PutsOff, Declines, Gives, Answering, Clear
  <2>4. m.ep.deferred = None \/ ~m.port.active
    BY <1>1, <1>17, <2>1 DEF PutsOff, Declines, Gives
  <2>5. Publish(c, m, w)
    BY <1>2, <1>5, <2>4, NoneLeft
  <2>6. Serves(c, m, w, a, q)
    BY <1>3, <1>4, <1>8, <2>1, <2>2, <2>3, <2>5 DEF Serves
  <2> HIDE DEF x, y, u, v, k
  <2>7. CASE PutsOff(a, m, q)
    <3>1. log' = log
      BY <1>3, <2>1, <2>3, <2>5, <2>7, SameLog DEF PutsOff
    <3> QED
      BY <2>1, <2>6, <2>7, <3>1, PutOffStays
  <2>8. CASE Declines(a, m, q)
    <3>1. log' = log
      BY <1>3, <2>1, <2>3, <2>5, <2>8, SameLog DEF Declines
    <3> QED
      BY <2>1, <2>6, <2>8, <3>1, DeclinedStays
  <2>9. CASE (Drives(n.port) => c = Join) /\ Gives(a, m, q)
    BY <1>1, <2>1, <2>6, <2>9, GivenStays
  <2> QED
    BY <1>17, <2>7, <2>8, <2>9
<1> QED
  BY <1>13, <1>14, <1>15, <1>16, <1>17

-----------------------------------------------------------------------------
LEMMA LinkInitial == DeliveryInit => LinkSound
<1> SUFFICES ASSUME DeliveryInit PROVE LinkSound
  OBVIOUS
<1>1. DeliveryInv /\ DeliveryTypes
  BY DeliveryInitial DEF DeliveryInv
<1>2. /\ ep = [c \in Consoles |-> Attached] /\ wire = [c \in Consoles |-> <<>>]
      /\ log = [c \in Consoles |-> <<>>] /\ done = [c \in Consoles |-> {}]
      /\ fault = [c \in Consoles |-> None] /\ losses = 0
      /\ \E byte : port = [c \in Consoles |-> PostBoot(byte[c], 0)]
  BY DEF DeliveryInit, Init
<1>3. LinkTypes
  BY <1>2 DEF LinkTypes, Faults
<1>4. \A c \in Consoles : fault[c] \in Known(losses = 0)
  BY <1>2 DEF Known
<1>5. /\ Attached.pending = None /\ Attached.answer = <<>> /\ Attached.response = <<>>
      /\ Attached.deferred = None /\ Attached.served = None /\ Attached.reply = None
  BY DEF Attached
<1>6. ASSUME NEW c \in Consoles, NEW d \in Consoles, NEW k \in BOOLEAN
      PROVE  Good(c, Side(c), Side(d), k)
  <2> DEFINE x == Side(c)
             y == Side(d)
  <2>1. /\ x.ep = Attached /\ y.ep = Attached /\ x.wire = <<>> /\ y.wire = <<>>
        /\ x.log = <<>> /\ y.log = <<>> /\ x.port.bits = 0 /\ ~x.port.active
    BY <1>2 DEF Side, PostBoot
  <2> HIDE DEF x, y
  <2>2. /\ Range(x.wire) = {} /\ Range(y.wire) = {} /\ DOMAIN x.wire = {}
        /\ Range(y.log) = {} /\ Range(x.log) = {}
    BY <2>1 DEF Range
  <2>3. /\ x.ep.pending = None /\ x.ep.answer = <<>> /\ x.ep.response = <<>>
        /\ x.ep.deferred = None /\ x.ep.served = None /\ x.ep.reply = None
        /\ y.ep.deferred = None /\ y.ep.pending = None
    BY <1>5, <2>1
  <2>4. Own(c, x, y)
    BY <2>1, <2>2, <2>3 DEF Own, Shaped, OldReplies, OneReply, TrueReplies, TrueAnswer,
                            HostWaits, Swaps
  <2>5. Inbox(x, y) /\ Paced(x, y)
    BY <2>2, <2>3 DEF Inbox, Once, NewestRequest, WholeDeferred, OwnReply, ServedOld, Paced
  <2>6. Shared(c, x, y)
    <3>1. AskedBefore(c, x, y)
      BY <2>2 DEF AskedBefore, Unasked
    <3>2. Untorn(x, y)
      BY <2>2 DEF Untorn
    <3> QED
      BY <2>2, <2>3, <3>1, <3>2 DEF Shared, AskedNow, IsPutOff, ClockedByPeer, CachedReply
  <2>7. Good(c, x, y, k)
    BY <2>4, <2>5, <2>6 DEF Good
  <2> QED
    BY <2>7 DEF x, y
<1>7. \A c \in Consoles : Both(c, Side(c), Side(Peer(c)), losses = 0)
  <2> SUFFICES ASSUME NEW c \in Consoles PROVE Both(c, Side(c), Side(Peer(c)), losses = 0)
    OBVIOUS
  <2>1. Peer(c) \in Consoles
    BY SideFacts
  <2> DEFINE k == losses = 0
  <2>2. k \in BOOLEAN
    OBVIOUS
  <2> HIDE DEF k
  <2>3. Both(c, Side(c), Side(Peer(c)), k)
    BY <1>6, <2>1, <2>2 DEF Both
  <2> QED
    BY <2>3 DEF k
<1> QED
  BY <1>1, <1>3, <1>4, <1>7 DEF LinkSound

\* What the guests, the timers and the user keep to.
Kept == Steady /\ Patient /\ AccurateRetries /\ QuietResets

LEMMA PollStays ==
    ASSUME NEW c \in Consoles, LinkSound, DeliveryInv', AccurateRetries, Clocks(c)
    PROVE  StaysSound(c)
<1>1. Poll(c) /\ Records(c) /\ done' = done
  BY DEF Clocks, Records
<1>2. CASE PollPacket(c)
  <2>1. Head(wire[c]) \notin Calls \/ Head(wire[c]) \in Requests \/ Head(wire[c]) \in Replies
    BY DEF Calls
  <2> QED
    BY <1>1, <1>2, <2>1, OtherPacketStays, RequestStays, ReplyStays
<1> QED
  BY <1>1, <1>2, PollDeferredStays, PollExpiredStays, ClosedSound, RetryStays DEF Poll

LEMMA LinkStep ==
    ASSUME LinkSound, [DeliveryNext /\ Kept]_deliveryVars
    PROVE  LinkSound'
<1>1. DeliveryInv' /\ DeliveryTypes /\ LinkTypes
  <2>1. DeliveryInv /\ [DeliveryNext /\ QuietResets]_deliveryVars
    BY DEF LinkSound, Kept
  <2> QED
    BY <2>1, DeliveryStep DEF LinkSound, DeliveryInv
<1>2. CASE UNCHANGED deliveryVars
  <2>1. /\ port' = port /\ ep' = ep /\ wire' = wire /\ up' = up /\ fault' = fault
        /\ losses' = losses /\ log' = log /\ done' = done
    BY <1>2 DEF deliveryVars
  <2>2. \A c \in Consoles : Side(c)' = Side(c)
    BY <2>1 DEF Side
  <2>3. Host \in Consoles /\ Peer(Host) \in Consoles
    BY SideFacts DEF Consoles
  <2>4. StaysSound(Host)
    BY <1>1, <2>1, <2>2, <2>3 DEF StaysSound, LinkSound, LinkTypes
  <2> QED
    BY <1>1, <2>1, <2>3, <2>4, SoundStep DEF LinkTypes
<1>3. ASSUME NEW c \in Consoles, Kept, Clocks(c) PROVE LinkSound'
  <2>1. StaysSound(c)
    BY <1>1, <1>3, PollStays DEF Kept
  <2>2. done' = done
    BY <1>3 DEF Clocks
  <2> QED
    BY <1>1, <2>1, <2>2, SoundStep DEF LinkTypes
<1>4. ASSUME NEW c \in Consoles, Kept, Drive(c) PROVE LinkSound'
  <2>1. StaysSound(c)
    BY <1>1, <1>4, EdgeStays
  <2>2. ep[c].pending # None => ep[c].pending.seq \in Nat
    <3>1. ep[c] \in Endpoint
      BY <1>1 DEF DeliveryTypes
    <3> QED
      BY <3>1 DEF Endpoint, Requests
  <2>3. done' \in [Consoles -> SUBSET Nat]
    BY <1>1, <1>4, <2>2 DEF Drive, LinkTypes
  <2> QED
    BY <1>1, <2>1, <2>3, SoundStep
<1>5. ASSUME NEW c \in Consoles, Kept, Others(c) PROVE LinkSound'
  <2>1. log' = log /\ done' = done
    BY <1>5 DEF Others
  <2>2. StaysSound(c)
    BY <1>1, <1>5, <2>1, WriteSBStays, WriteSCStays, ResetLinkStays, LoseStays
       DEF Others, Kept
  <2> QED
    BY <1>1, <2>1, <2>2, SoundStep DEF LinkTypes
<1> QED
  BY <1>2, <1>3, <1>4, <1>5 DEF DeliveryNext

(* Every step of the link keeps it sound, if its environment keeps the     *)
(* four conditions of LinkEndpoint: Steady, Patient, AccurateRetries and   *)
(* QuietResets.                                                            *)
LEMMA LinkStaysSound == DeliverySpec => []LinkSound
<1>1. [DeliveryNext /\ Steady /\ Patient /\ AccurateRetries /\ QuietResets]_deliveryVars
         => [DeliveryNext /\ Kept]_deliveryVars
  BY DEF Kept
<1>2. LinkSound /\ [DeliveryNext /\ Steady /\ Patient /\ AccurateRetries
                    /\ QuietResets]_deliveryVars => LinkSound'
  BY <1>1, LinkStep
<1> QED
  BY LinkInitial, <1>2, PTL DEF DeliverySpec

(* Whatever is lost, sent again, deferred, denied, answered from the       *)
(* cached reply or reset, and whoever yields: a request that one endpoint  *)
(* has clocked into its guest is one the endpoint that sent it has         *)
(* finished or still waits for, as long as both are connected. So nothing  *)
(* poll() does with a response, a denial, a request it yields to or a      *)
(* reset gives up a byte that the other guest has received.                *)
THEOREM ByteIsWhole == DeliverySpec => []NoByteIsTorn
<1>1. ASSUME LinkSound PROVE NoByteIsTorn
  <2> SUFFICES ASSUME \A c \in Consoles : up[c], NEW c \in Consoles, NEW i \in DOMAIN log[c]
               PROVE  \/ log[c][i].seq \in done[Peer(c)]
                      \/ /\ ep[Peer(c)].pending # None
                         /\ ep[Peer(c)].pending.seq = log[c][i].seq
    BY DEF NoByteIsTorn
  <2>1. Peer(c) \in Consoles /\ up[c] /\ up[Peer(c)]
    BY SideFacts
  <2>2. Shared(Peer(c), Side(Peer(c)), Side(c))
    BY <1>1, <2>1, ShapedSide
  <2>3. Untorn(Side(Peer(c)), Side(c))
    BY <2>2 DEF Shared
  <2>4. log[c][i] \in Range(log[c])
    BY DEF Range
  <2> QED
    BY <2>3, <2>4 DEF Untorn, Side
<1> QED
  BY <1>1, LinkStaysSound, PTL

(* As long as no packet was lost the endpoints never end the link with     *)
(* "out of order", "multiple in flight" or "type mismatch": denials,       *)
(* yields, deferrals, copies of a request and resets do not look like a    *)
(* violation of the protocol to the other side. The hypothesis is needed:  *)
(* a joiner that yields after its request was lost does not send it again, *)
(* and the host takes its next one for out of order.                       *)
THEOREM LosslessLinkOnlyTimesOut == DeliverySpec => []OnlyTimeouts
<1>1. LinkSound => OnlyTimeouts
  BY DEF LinkSound, Known, OnlyTimeouts
<1> QED
  BY <1>1, LinkStaysSound, PTL

LEMMA LastBitSwaps ==
    ASSUME NEW c \in Consoles, LinkSound, CompletesByte(c), Edge(c)
    PROVE  /\ ep[c].pending # None
           /\ \E i \in DOMAIN log[Peer(c)] :
                 /\ log[Peer(c)][i].seq = ep[c].pending.seq
                 /\ log[Peer(c)][i].gave = port'[c].data
                 /\ log[Peer(c)][i].holds = ep[c].pending.bits
<1> DEFINE n == Node(c)
           m == ClockEdge(c, n)
           x == Side(c)
           y == Side(Peer(c))
           e == ep[c]
<1>1. /\ Clear(n) /\ n.port = port[c] /\ n.ep = e /\ DeliveryTypes
      /\ Peer(c) \in Consoles
  BY ClearNode, SideFacts DEF LinkSound, DeliveryInv
<1>2. Drives(port[c]) /\ Publish(c, m, wire[c]) /\ up[c]
  BY DEF Edge, Act, Publish
<1>3. Shaped(port[c], e) /\ Own(c, x, y)
  BY <1>2, ShapedSide
<1>4. x.ep = e /\ x.port = port[c] /\ y.log = log[Peer(c)]
  BY DEF Side
<1> HIDE DEF x, y, n
<1>5. Unmoved(n, m) \/ (\E r \in Requests : Inquires(n, m, r)) \/ Shifts(n, m)
  BY <1>1, <1>2, <1>3, EdgeOutcomes
<1> HIDE DEF m, e
<1>6. m.fault = None
  BY <1>5 DEF Unmoved, Inquires, Shifts, Clear
<1>7. port'[c] = m.port
  BY <1>1, <1>2, <1>6 DEF Publish, DeliveryTypes
<1>8. m.port # port[c] /\ ~m.port.active /\ m.port.bits = ByteBits
  BY <1>2, <1>7 DEF CompletesByte, Drives
<1>9. Shifts(n, m)
  BY <1>1, <1>5, <1>8 DEF Unmoved, Inquires
<1>10. e.pending # None /\ e.answer # <<>>
  BY <1>1, <1>9 DEF Shifts
<1>11. PICK z \in Range(y.log) : z.seq = e.pending.seq
  BY <1>3, <1>4, <1>10 DEF Own, TrueAnswer, Has
<1>12. /\ z.holds = e.pending.bits /\ Len(z.gave) = ByteBits
       /\ PartWay(port[c], e.answer, e.pending.bits, z.gave)
  BY <1>3, <1>4, <1>10, <1>11 DEF Own, Swaps
<1>13. /\ port[c].data \in Byte /\ port[c].bits \in Nat /\ e.answer \in BitSeq
       /\ m.port.data \in Byte
       /\ m.port.data = ShiftedData(port[c].data, Head(e.answer))
       /\ m.port.bits = port[c].bits + 1
  BY <1>1, <1>9 DEF Shifts, Clear, Well, Nodes, Endpoint, Port
<1>14. z.gave \in BitSeq
  <2>1. log[Peer(c)] \in Seq(Entry)
    BY <1>1 DEF DeliveryTypes
  <2>2. z \in Entry
    BY <1>4, <1>11, <2>1 DEF Range
  <2> QED
    BY <2>2 DEF Entry
<1>15. PartWay(m.port, Tail(e.answer), e.pending.bits, z.gave)
  <2> DEFINE p == port[c]
             q == m.port
             b == p.bits
             l == e.answer
             s == e.pending.bits
             g == z.gave
  <2>1. /\ p.data \in Byte /\ b \in Nat /\ p.bits = b /\ l \in BitSeq /\ l # <<>>
        /\ PartWay(p, l, s, g) /\ q.data = ShiftedData(p.data, Head(l)) /\ q.bits = b + 1
    BY <1>10, <1>12, <1>13 DEF BitSeq
  <2> HIDE DEF p, q, b, l, s, g
  <2>2. PartWay(q, Tail(l), s, g)
    BY <2>1, PartWayNext
  <2> QED
    BY <2>2 DEF q, l, s, g
<1>16. m.port.data = z.gave
  BY <1>8, <1>12, <1>13, <1>14, <1>15, PartWayDone
<1>17. PICK i \in DOMAIN log[Peer(c)] : z = log[Peer(c)][i]
  BY <1>4, <1>11 DEF Range
<1> QED
  BY <1>7, <1>10, <1>11, <1>12, <1>16, <1>17 DEF e

(* The exchange of the cable, carried over the network: a port that shifts *)
(* the last bit of its own transfer holds the byte that the other guest    *)
(* gave for this very request, and the other guest has received the byte   *)
(* that was sent, through deferral, retransmission and the cached          *)
(* response, and also when packets were lost.                              *)
THEOREM BytesSwapped == DeliverySpec => BytesAreSwapped
<1>1. LinkSound => \A c \in Consoles :
         CompletesByte(c) /\ Edge(c) =>
            /\ ep[c].pending # None
            /\ \E i \in DOMAIN log[Peer(c)] :
                  /\ log[Peer(c)][i].seq = ep[c].pending.seq
                  /\ log[Peer(c)][i].gave = port'[c].data
                  /\ log[Peer(c)][i].holds = ep[c].pending.bits
  BY LastBitSwaps
<1> QED
  BY <1>1, LinkStaysSound, PTL DEF BytesAreSwapped

=============================================================================
