-------------------------- MODULE RefresherQueues ---------------------------
(***************************************************************************)
(* Lemmas about the work queue of a scan: shuffles, popping, and the hint  *)
(* of a reply that names the primary.                                      *)
(***************************************************************************)
EXTENDS Refresher, TLAPS

\* A shuffle of some hosts is a queue that holds each of them once: what
\* random_shuffle preserves.
LEMMA ShuffleIsQueue ==
    ASSUME NEW S \in SUBSET Hosts, NEW q \in Shuffles(S)
    PROVE  q \in Seq(Hosts) /\ Range(q) = S /\ IsInjective(q)
<1>1. Cardinality(S) \in Nat
  BY HostsAssumption
<1>2. q \in [1..Cardinality(S) -> S] /\ IsInjective(q)
  BY DEF Shuffles, Bijection, Injection
<1>3. \A h \in S : \E i \in 1..Cardinality(S) : q[i] = h
  BY DEF Shuffles, Bijection, Surjection
<1>4. q \in Seq(Hosts)
  BY <1>1, <1>2
<1>5. Range(q) = S
  BY <1>2, <1>3 DEF Range
<1>6. QED
  BY <1>2, <1>4, <1>5

\* Popping the queue takes its first host out, and only that one.
LEMMA PopQueue ==
    ASSUME NEW q \in Seq(Hosts), q # <<>>, IsInjective(q)
    PROVE  /\ Head(q) \in Hosts /\ Tail(q) \in Seq(Hosts)
           /\ Head(q) \in Range(q)
           /\ Range(Tail(q)) = Range(q) \ {Head(q)}
           /\ IsInjective(Tail(q))
<1>1. /\ Len(q) \in Nat /\ Len(q) > 0 /\ q \in [1..Len(q) -> Hosts]
      /\ Head(q) = q[1]
  OBVIOUS
<1>2. /\ Head(q) \in Hosts /\ Tail(q) \in Seq(Hosts)
      /\ DOMAIN Tail(q) = 1..(Len(q) - 1)
      /\ \A i \in 1..(Len(q) - 1) : Tail(q)[i] = q[i + 1]
  OBVIOUS
<1>3. \A i, j \in 1..Len(q) : q[i] = q[j] => i = j
  BY <1>1 DEF IsInjective
<1>4. IsInjective(Tail(q))
  BY <1>1, <1>2, <1>3 DEF IsInjective
<1>5. Range(Tail(q)) = Range(q) \ {Head(q)}
  <2>1. ASSUME NEW h \in Range(Tail(q)) PROVE h \in Range(q) \ {Head(q)}
    <3>1. PICK i \in 1..(Len(q) - 1) : h = q[i + 1]
      BY <1>1, <1>2, <2>1 DEF Range
    <3>2. i + 1 \in 1..Len(q) /\ i + 1 # 1
      BY <1>1, <3>1
    <3>3. QED
      BY <1>1, <1>3, <3>1, <3>2 DEF Range
  <2>2. ASSUME NEW h \in Range(q), h # Head(q) PROVE h \in Range(Tail(q))
    <3>1. PICK i \in 1..Len(q) : h = q[i]
      BY <1>1, <2>2 DEF Range
    <3>2. i - 1 \in 1..(Len(q) - 1) /\ q[(i - 1) + 1] = h
      BY <1>1, <2>2, <3>1
    <3>3. QED
      BY <1>2, <3>2, ZenonT(30) DEF Range
  <2>3. QED
    BY <2>1, <2>2
<1>6. Head(q) \in Range(q)
  <2>1. 1 \in DOMAIN q
    BY <1>1
  <2>2. QED
    BY <1>1, <2>1 DEF Range
<1>7. QED
  BY <1>2, <1>4, <1>5, <1>6

\* Moving a queued host to the front changes the order of the queue only.
LEMMA MoveToFrontQueue ==
    ASSUME NEW q \in Seq(Hosts), NEW h \in Range(q), IsInjective(q)
    PROVE  /\ MoveToFront(h, q) \in Seq(Hosts)
           /\ Range(MoveToFront(h, q)) = Range(q)
           /\ IsInjective(MoveToFront(h, q))
<1> DEFINE n == Len(q)
           at == CHOOSE i \in DOMAIN q : q[i] = h
           m == MoveToFront(h, q)
<1>1. n \in Nat /\ q \in [1..n -> Hosts] /\ DOMAIN q = 1..n
  OBVIOUS
<1>2. at \in 1..n /\ q[at] = h
  BY <1>1 DEF Range
<1>3. m = [i \in 1..n |-> IF i = 1 THEN h ELSE IF i <= at THEN q[i - 1] ELSE q[i]]
  BY DEF MoveToFront
<1>4. \A i, j \in 1..n : q[i] = q[j] => i = j
  BY <1>1 DEF IsInjective
<1> HIDE DEF n, at, m
<1>5. \A i \in 1..n : i > 1 /\ i <= at => i - 1 \in 1..n /\ i - 1 # at
  BY <1>1, <1>2
<1>6. m \in [1..n -> Hosts]
  BY <1>1, <1>2, <1>3, <1>5
<1>7. m \in Seq(Hosts)
  BY <1>1, <1>6
<1>8. IsInjective(m)
  <2> SUFFICES ASSUME NEW i \in 1..n, NEW j \in 1..n, m[i] = m[j] PROVE i = j
    BY <1>6 DEF IsInjective
  <2> DEFINE src(k) == IF k = 1 THEN at ELSE IF k <= at THEN k - 1 ELSE k
  <2>1. \A k \in 1..n : src(k) \in 1..n /\ m[k] = q[src(k)]
    BY <1>1, <1>2, <1>3, <1>5
  <2>2. src(i) = src(j)
    <3> HIDE DEF src
    <3>1. QED
      BY <2>1, <1>4
  <2>3. QED
    BY <2>2, <1>1, <1>2
<1>9. Range(m) = Range(q)
  <2>1. ASSUME NEW x \in Range(m) PROVE x \in Range(q)
    BY <1>1, <1>2, <1>3, <1>5, <1>6, <2>1 DEF Range
  <2>2. ASSUME NEW x \in Range(q) PROVE x \in Range(m)
    <3>1. PICK k \in 1..n : x = q[k]
      BY <1>1, <2>2 DEF Range
    <3>2. CASE k = at
      BY <1>1, <1>2, <1>3, <1>6, <3>1, <3>2 DEF Range
    <3>3. CASE k < at
      <4>1. k + 1 \in 1..n /\ m[k + 1] = x
        BY <1>1, <1>2, <1>3, <3>1, <3>3
      <4>2. QED
        BY <1>6, <4>1 DEF Range
    <3>4. CASE k > at
      <4>1. m[k] = x
        BY <1>1, <1>2, <1>3, <3>1, <3>4
      <4>2. QED
        BY <1>6, <3>1, <4>1 DEF Range
    <3>5. QED
      BY <1>1, <1>2, <3>1, <3>2, <3>3, <3>4
  <2>3. QED
    BY <2>1, <2>2, ZenonT(30)
<1>10. QED
  BY <1>7, <1>8, <1>9 DEF m

\* The hint of a reply adds at most the hinted host to the queue, and never one
\* that was tried.
LEMMA HintedQueue ==
    ASSUME NEW q \in Seq(Hosts), IsInjective(q), Range(q) \cap triedHosts = {},
           NEW h \in Hosts \cup {NoHost}
    PROVE  /\ WithHint(h, q) \in Seq(Hosts)
           /\ IsInjective(WithHint(h, q))
           /\ Range(q) \subseteq Range(WithHint(h, q))
           /\ Range(WithHint(h, q)) \cap triedHosts = {}
<1>1. CASE h = NoHost \/ h \in triedHosts
  BY <1>1 DEF WithHint
<1>2. CASE h # NoHost /\ h \notin triedHosts /\ h \in Range(q)
  BY <1>2, MoveToFrontQueue DEF WithHint
<1>3. CASE h # NoHost /\ h \notin triedHosts /\ h \notin Range(q)
  <2> DEFINE w == <<h>> \o q
  <2>1. WithHint(h, q) = w
    BY <1>3 DEF WithHint
  <2>2. h \in Hosts
    BY <1>3
  <2>3. /\ Len(q) \in Nat /\ q \in [1..Len(q) -> Hosts]
        /\ w \in Seq(Hosts) /\ Len(w) = Len(q) + 1 /\ DOMAIN w = 1..(Len(q) + 1)
        /\ DOMAIN q = 1..Len(q)
        /\ \A i \in 1..(Len(q) + 1) : w[i] = IF i = 1 THEN h ELSE q[i - 1]
    BY <2>2
  <2> HIDE DEF w
  <2>4. \A i \in 1..Len(q) : q[i] # h
    BY <1>3, <2>3 DEF Range
  <2>5. IsInjective(w)
    <3> SUFFICES ASSUME NEW i \in 1..(Len(q) + 1), NEW j \in 1..(Len(q) + 1),
                        w[i] = w[j]
                 PROVE  i = j
      BY <2>3 DEF IsInjective
    <3>1. \A k \in 1..(Len(q) + 1) : k # 1 => k - 1 \in 1..Len(q)
      BY <2>3
    <3>2. \A k, l \in 1..Len(q) : q[k] = q[l] => k = l
      BY <2>3, ZenonT(30) DEF IsInjective
    <3>3. QED
      BY <2>3, <2>4, <3>1, <3>2
  <2>6. Range(w) = Range(q) \cup {h}
    <3>1. ASSUME NEW x \in Range(w) PROVE x \in Range(q) \cup {h}
      BY <2>3, <3>1 DEF Range
    <3>2. ASSUME NEW x \in Range(q) PROVE x \in Range(w)
      <4>1. PICK k \in 1..Len(q) : x = q[k]
        BY <2>3, <3>2 DEF Range
      <4>2. k + 1 \in 1..(Len(q) + 1) /\ w[k + 1] = x
        BY <2>3, <4>1
      <4>3. QED
        BY <2>3, <4>2 DEF Range
    <3>3. h \in Range(w)
      BY <2>3 DEF Range
    <3>4. QED
      BY <3>1, <3>2, <3>3
  <2>7. QED
    BY <1>3, <2>1, <2>3, <2>5, <2>6
<1>4. QED
  BY <1>1, <1>2, <1>3
=============================================================================
