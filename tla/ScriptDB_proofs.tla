--------------------------- MODULE ScriptDB_proofs ---------------------------
(***************************************************************************)
(* What the scripts' entries in the database are, for all topics, keys and *)
(* texts, any number of goroutines and all bounds.                         *)
(***************************************************************************)
EXTENDS ScriptDB, SequenceTheorems, FunctionTheorems, FiniteSetTheorems,
        WellFoundedInduction, TLAPS

-----------------------------------------------------------------------------
(* The inductive invariant.                                                *)

\* The key that a call of db_log is about to write has the time it read.
Stamped ==
    \A h \in Handlers : pending[h] # NoKey =>
        \E t \in Topics : pending[h] = LogKey(t, read[h])

\* The database has what the builtins wrote and nothing else, each under a key
\* of its own but for log entries with the same topic and stamp: of those it
\* has the latest.
KeyOf(i) == LogKey(logged[i].topic, logged[i].stamp)
Stored ==
    /\ DOMAIN store = {Key("kv", p) : p \in DOMAIN kv}
                      \cup {Key("config", p) : p \in DOMAIN config}
                      \cup {KeyOf(i) : i \in 1..Len(logged)}
    /\ \A p \in DOMAIN kv : store[Key("kv", p)] = Json(kv[p])
    /\ \A p \in DOMAIN config : store[Key("config", p)] = config[p]
    /\ \A i \in 1..Len(logged) :
          /\ store[KeyOf(i)] \in i..Len(logged)
          /\ KeyOf(store[KeyOf(i)]) = KeyOf(i)

\* As long as calls come one by one and the clock is not set back, stamps
\* grow.
Orderly ==
    ~disorder =>
        /\ \A g, h \in Handlers : pending[g] # NoKey /\ pending[h] # NoKey => g = h
        /\ \A i \in 1..Len(logged) : logged[i].stamp <= clock
        /\ \A i, j \in 1..Len(logged) :
              i < j => logged[i].stamp <= logged[j].stamp
        /\ \A h \in Handlers : pending[h] # NoKey =>
              /\ read[h] <= clock
              /\ \A i \in 1..Len(logged) : logged[i].stamp <= read[h]

StoreInv ==
    /\ TypeOK
    /\ Stamped
    /\ Stored
    /\ Orderly

-----------------------------------------------------------------------------
-----------------------------------------------------------------------------
(* Keys.                                                                   *)

LEMMA KeyShape ==
    ASSUME NEW a, NEW q \in Seq(Nat)
    PROVE  /\ Key(a, q) \in Seq({a} \cup Nat)
           /\ Len(Key(a, q)) = Len(q) + 1
           /\ Len(q) \in Nat
           /\ Key(a, q)[1] = a
<1> DEFINE S == {a} \cup Nat
<1>1. <<a>> \in Seq(S) /\ q \in Seq(S) /\ Len(<<a>>) = 1 /\ <<a>>[1] = a
  BY SeqMonotonic
<1>2. /\ Key(a, q) \in Seq(S)
      /\ Len(Key(a, q)) = Len(q) + 1
      /\ Len(q) \in Nat
  BY <1>1, ConcatProperties DEF Key
<1>3. Key(a, q)[1] = a
  BY <1>1, <1>2, ConcatProperties DEF Key
<1> QED
  BY <1>2, <1>3

LEMMA KeyParts ==
    ASSUME NEW a, NEW q \in Seq(Nat)
    PROVE  \A n \in 1..Len(q) : Key(a, q)[n + 1] = q[n]
<1> DEFINE S == {a} \cup Nat
<1>1. <<a>> \in Seq(S) /\ q \in Seq(S) /\ Len(<<a>>) = 1
  BY SeqMonotonic
<1> QED
  BY <1>1, ConcatProperties DEF Key

\* A key is not empty, and its tail gives the parts back.
LEMMA KeyFacts ==
    ASSUME NEW a, NEW q \in Seq(Nat)
    PROVE  /\ Key(a, q)[1] = a
           /\ Key(a, q) # NoKey
           /\ Tail(Key(a, q)) = q
<1> DEFINE S == {a} \cup Nat
           k == Key(a, q)
<1>1. /\ k \in Seq(S) /\ Len(k) = Len(q) + 1 /\ Len(q) \in Nat /\ k[1] = a
  BY KeyShape
<1>2. q \in Seq(S)
  BY SeqMonotonic
<1>3. \A n \in 1..Len(q) : k[n + 1] = q[n]
  BY KeyParts
<1> HIDE DEF S, k
<1>4. k # NoKey
  BY <1>1 DEF NoKey
<1>5. /\ Tail(k) \in Seq(S)
      /\ Len(Tail(k)) = Len(q)
      /\ \A n \in 1..Len(q) : Tail(k)[n] = k[n + 1]
  BY <1>1, <1>4, HeadTailProperties DEF NoKey
<1>6. Tail(k) = q
  BY <1>1, <1>2, <1>3, <1>5, SeqEqual
<1> QED
  BY <1>1, <1>4, <1>6 DEF k

\* Keys tell namespaces and paths apart.
LEMMA KeyInjective ==
    ASSUME NEW a, NEW b, NEW p \in Seq(Nat), NEW q \in Seq(Nat),
           Key(a, p) = Key(b, q)
    PROVE  a = b /\ p = q
<1>1. Key(a, p)[1] = a /\ Key(b, q)[1] = b
  BY KeyFacts
<1>2. Tail(Key(a, p)) = p /\ Tail(Key(b, q)) = q
  BY KeyFacts
<1> QED
  BY <1>1, <1>2

\* And the keys of log entries tell topics and stamps apart.
LEMMA LogKeyInjective ==
    ASSUME NEW t \in Seq(Nat), NEW u \in Seq(Nat), NEW m \in Nat, NEW n \in Nat,
           LogKey(t, m) = LogKey(u, n)
    PROVE  t = u /\ m = n
<1>1. Append(t, m) \in Seq(Nat) /\ Append(u, n) \in Seq(Nat)
  BY AppendProperties
<1>2. Append(t, m) = Append(u, n)
  BY <1>1, KeyInjective DEF LogKey
<1> QED
  BY <1>2, AppendInjective

-----------------------------------------------------------------------------
(* Prefixes and the order of keys.                                         *)

Agree(s, t, n) == \A i \in 1..n : s[i] = t[i]

LEMMA SubSeqsAgree ==
    ASSUME NEW S, NEW T, NEW s \in Seq(S), NEW t \in Seq(T), NEW n \in Nat,
           n <= Len(s), n <= Len(t)
    PROVE  SubSeq(s, 1, n) = SubSeq(t, 1, n) <=> Agree(s, t, n)
<1> DEFINE U == S \cup T
<1>1. \A i \in 1..n : s[i] \in U /\ t[i] \in U
  BY ElementOfSeq
<1>2. Len(s) \in Nat /\ Len(t) \in Nat
  OBVIOUS
<1> HIDE DEF U
<1>3. /\ SubSeq(s, 1, n) \in Seq(U) /\ Len(SubSeq(s, 1, n)) = n
      /\ \A i \in 1..n : SubSeq(s, 1, n)[i] = s[i]
  BY <1>1, SubSeqProperties
<1>4. /\ SubSeq(t, 1, n) \in Seq(U) /\ Len(SubSeq(t, 1, n)) = n
      /\ \A i \in 1..n : SubSeq(t, 1, n)[i] = t[i]
  BY <1>1, SubSeqProperties
<1>5. ASSUME Agree(s, t, n) PROVE SubSeq(s, 1, n) = SubSeq(t, 1, n)
  <2>1. \A i \in 1..n : SubSeq(s, 1, n)[i] = SubSeq(t, 1, n)[i]
    BY <1>3, <1>4, <1>5 DEF Agree
  <2> QED
    BY <1>3, <1>4, <2>1, SeqEqual
<1>6. ASSUME SubSeq(s, 1, n) = SubSeq(t, 1, n) PROVE Agree(s, t, n)
  BY <1>3, <1>4, <1>6 DEF Agree
<1> QED
  BY <1>5, <1>6

LEMMA PrefixAgrees ==
    ASSUME NEW S, NEW T, NEW s \in Seq(S), NEW t \in Seq(T)
    PROVE  /\ IsPrefix(s, t) <=> Len(s) <= Len(t) /\ Agree(s, t, Len(s))
           /\ IsStrictPrefix(s, t) <=> Len(s) < Len(t) /\ Agree(s, t, Len(s))
<1>1. Len(s) \in Nat /\ Len(t) \in Nat
  OBVIOUS
<1>2. IsPrefix(s, t) <=> Len(s) <= Len(t) /\ Agree(s, t, Len(s))
  BY <1>1, SubSeqsAgree DEF IsPrefix
<1>3. ASSUME Len(s) = Len(t), Agree(s, t, Len(s)) PROVE s = t
  <2>1. s \in Seq(S \cup T) /\ t \in Seq(S \cup T)
    BY SeqMonotonic
  <2> QED
    BY <1>3, <2>1, SeqEqual DEF Agree
<1>4. IsStrictPrefix(s, t) <=> Len(s) < Len(t) /\ Agree(s, t, Len(s))
  BY <1>1, <1>2, <1>3 DEF IsStrictPrefix
<1> QED
  BY <1>2, <1>4

\* A prefix of the parts is a prefix of the key, in the same namespace only.
LEMMA KeyPrefix ==
    ASSUME NEW a, NEW b, NEW p \in Seq(Nat), NEW q \in Seq(Nat)
    PROVE  /\ IsPrefix(Key(a, p), Key(b, q)) <=> a = b /\ IsPrefix(p, q)
           /\ IsStrictPrefix(Key(a, p), Key(b, q)) <=> a = b /\ IsStrictPrefix(p, q)
<1> DEFINE j == Key(a, p)
           k == Key(b, q)
<1>1. /\ j \in Seq({a} \cup Nat) /\ Len(j) = Len(p) + 1 /\ j[1] = a
      /\ \A n \in 1..Len(p) : j[n + 1] = p[n]
      /\ Len(p) \in Nat
  <2>1. \A n \in 1..Len(p) : j[n + 1] = p[n]
    BY KeyParts
  <2>2. /\ j \in Seq({a} \cup Nat) /\ Len(j) = Len(p) + 1 /\ j[1] = a
        /\ Len(p) \in Nat
    BY KeyShape
  <2> HIDE DEF j
  <2> QED
    BY <2>1, <2>2
<1>2. /\ k \in Seq({b} \cup Nat) /\ Len(k) = Len(q) + 1 /\ k[1] = b
      /\ \A n \in 1..Len(q) : k[n + 1] = q[n]
      /\ Len(q) \in Nat
  <2>1. \A n \in 1..Len(q) : k[n + 1] = q[n]
    BY KeyParts
  <2>2. /\ k \in Seq({b} \cup Nat) /\ Len(k) = Len(q) + 1 /\ k[1] = b
        /\ Len(q) \in Nat
    BY KeyShape
  <2> HIDE DEF k
  <2> QED
    BY <2>1, <2>2
<1> HIDE DEF j, k
<1>3. ASSUME Len(p) <= Len(q)
      PROVE  Agree(j, k, Len(j)) <=> a = b /\ Agree(p, q, Len(p))
  <2>1. ASSUME Agree(j, k, Len(j)) PROVE a = b /\ Agree(p, q, Len(p))
    <3>1. j[1] = k[1]
      BY <1>1, <2>1 DEF Agree
    <3>2. ASSUME NEW n \in 1..Len(p) PROVE p[n] = q[n]
      <4>1. n + 1 \in 1..Len(j) /\ n \in 1..Len(q)
        BY <1>1, <1>2, <1>3
      <4>2. j[n + 1] = k[n + 1]
        BY <2>1, <4>1 DEF Agree
      <4> QED
        BY <1>1, <1>2, <4>1, <4>2
    <3> QED
      BY <1>1, <1>2, <3>1, <3>2 DEF Agree
  <2>2. ASSUME a = b, Agree(p, q, Len(p)) PROVE Agree(j, k, Len(j))
    <3> SUFFICES ASSUME NEW n \in 1..Len(j) PROVE j[n] = k[n]
      BY DEF Agree
    <3>1. CASE n = 1
      BY <1>1, <1>2, <2>2, <3>1
    <3>2. CASE n # 1
      <4>1. n - 1 \in 1..Len(p) /\ n - 1 \in 1..Len(q) /\ (n - 1) + 1 = n
        BY <1>1, <1>2, <1>3, <3>2
      <4>2. p[n - 1] = q[n - 1]
        BY <2>2, <4>1 DEF Agree
      <4> QED
        BY <1>1, <1>2, <4>1, <4>2
    <3> QED
      BY <3>1, <3>2
  <2> QED
    BY <2>1, <2>2
<1>4. /\ IsPrefix(j, k) <=> Len(j) <= Len(k) /\ Agree(j, k, Len(j))
      /\ IsStrictPrefix(j, k) <=> Len(j) < Len(k) /\ Agree(j, k, Len(j))
  BY <1>1, <1>2, PrefixAgrees
<1>5. /\ IsPrefix(p, q) <=> Len(p) <= Len(q) /\ Agree(p, q, Len(p))
      /\ IsStrictPrefix(p, q) <=> Len(p) < Len(q) /\ Agree(p, q, Len(p))
  BY PrefixAgrees
<1>6. /\ Len(j) <= Len(k) <=> Len(p) <= Len(q)
      /\ Len(j) < Len(k) <=> Len(p) < Len(q)
      /\ Len(p) < Len(q) => Len(p) <= Len(q)
  BY <1>1, <1>2
<1> QED
  BY <1>3, <1>4, <1>5, <1>6 DEF j, k

\* Of the natural numbers in a set one is the least.
LEMMA Least ==
    ASSUME NEW T \in SUBSET Nat, T # {}
    PROVE  \E n \in T : \A m \in T : n <= m
<1>1. IsWellFoundedOn(OpToRel(<, Nat), Nat)
  BY NatLessThanWellFounded
<1>2. PICK n \in T : \A m \in T : ~(<<m, n>> \in OpToRel(<, Nat))
  BY <1>1, WFMin
<1>3. ASSUME NEW m \in T PROVE ~(m < n)
  <2>1. m \in Nat /\ n \in Nat /\ (m < n => <<m, n>> \in OpToRel(<, Nat))
    BY DEF OpToRel
  <2> QED
    BY <1>2, <2>1
<1> QED
  BY <1>3

\* The order of keys is that of their parts, and a strict order of all the
\* keys of a namespace.
Before(p, q) ==
    \/ Len(p) < Len(q) /\ Agree(p, q, Len(p))
    \/ \E i \in 1..Len(p) : i <= Len(q) /\ Agree(p, q, i - 1) /\ p[i] < q[i]

LEMMA BelowBefore ==
    ASSUME NEW a, NEW p \in Seq(Nat), NEW q \in Seq(Nat)
    PROVE  Below(Key(a, p), Key(a, q)) <=> Before(p, q)
<1> DEFINE j == Key(a, p)
           k == Key(a, q)
<1>1. /\ j \in Seq({a} \cup Nat) /\ Len(j) = Len(p) + 1 /\ j[1] = a
      /\ \A n \in 1..Len(p) : j[n + 1] = p[n]
      /\ Len(p) \in Nat
  <2>1. \A n \in 1..Len(p) : j[n + 1] = p[n]
    BY KeyParts
  <2>2. /\ j \in Seq({a} \cup Nat) /\ Len(j) = Len(p) + 1 /\ j[1] = a
        /\ Len(p) \in Nat
    BY KeyShape
  <2> HIDE DEF j
  <2> QED
    BY <2>1, <2>2
<1>2. /\ k \in Seq({a} \cup Nat) /\ Len(k) = Len(q) + 1 /\ k[1] = a
      /\ \A n \in 1..Len(q) : k[n + 1] = q[n]
      /\ Len(q) \in Nat
  <2>1. \A n \in 1..Len(q) : k[n + 1] = q[n]
    BY KeyParts
  <2>2. /\ k \in Seq({a} \cup Nat) /\ Len(k) = Len(q) + 1 /\ k[1] = a
        /\ Len(q) \in Nat
    BY KeyShape
  <2> HIDE DEF k
  <2> QED
    BY <2>1, <2>2
<1>3. IsStrictPrefix(j, k) <=> Len(p) < Len(q) /\ Agree(p, q, Len(p))
  BY KeyPrefix, PrefixAgrees
<1> HIDE DEF j, k
<1>4. ASSUME NEW i \in 1..Len(p), i <= Len(q)
      PROVE  /\ SubSeq(j, 1, i) = SubSeq(k, 1, i) <=> Agree(p, q, i - 1)
             /\ j[i + 1] = p[i] /\ k[i + 1] = q[i]
  <2>1. SubSeq(j, 1, i) = SubSeq(k, 1, i) <=> Agree(j, k, i)
    <3>1. i \in Nat /\ i <= Len(j) /\ i <= Len(k)
      BY <1>1, <1>2, <1>4
    <3> QED
      BY <1>1, <1>2, <3>1, SubSeqsAgree
  <2>2. ASSUME Agree(j, k, i), NEW n \in 1..(i - 1) PROVE p[n] = q[n]
    <3>1. n \in 1..Len(p) /\ n \in 1..Len(q) /\ n + 1 \in 1..i
      BY <1>1, <1>2, <1>4
    <3> QED
      BY <1>1, <1>2, <2>2, <3>1 DEF Agree
  <2>3. ASSUME Agree(p, q, i - 1), NEW n \in 1..i PROVE j[n] = k[n]
    <3>1. CASE n = 1
      BY <1>1, <1>2, <3>1
    <3>2. CASE n # 1
      <4>1. /\ n - 1 \in 1..Len(p) /\ n - 1 \in 1..Len(q)
            /\ n - 1 \in 1..(i - 1) /\ (n - 1) + 1 = n
        BY <1>1, <1>2, <1>4, <3>2
      <4>2. p[n - 1] = q[n - 1]
        BY <2>3, <4>1 DEF Agree
      <4> QED
        BY <1>1, <1>2, <4>1, <4>2
    <3> QED
      BY <3>1, <3>2
  <2>4. Agree(j, k, i) <=> Agree(p, q, i - 1)
    BY <2>2, <2>3 DEF Agree
  <2>5. i \in 1..Len(q)
    BY <1>2, <1>4
  <2> QED
    BY <1>1, <1>2, <2>1, <2>4, <2>5
<1>5. ASSUME NEW n \in 2..Len(j), n <= Len(k),
             SubSeq(j, 1, n - 1) = SubSeq(k, 1, n - 1), j[n] < k[n]
      PROVE  \E i \in 1..Len(p) : i <= Len(q) /\ Agree(p, q, i - 1) /\ p[i] < q[i]
  <2>1. n - 1 \in 1..Len(p) /\ n - 1 <= Len(q) /\ (n - 1) + 1 = n
    BY <1>1, <1>2, <1>5
  <2> QED
    BY <1>4, <1>5, <2>1
<1>6. ASSUME NEW i \in 1..Len(p), i <= Len(q), Agree(p, q, i - 1), p[i] < q[i]
      PROVE  \E n \in 2..Len(j) :
                /\ n <= Len(k)
                /\ SubSeq(j, 1, n - 1) = SubSeq(k, 1, n - 1)
                /\ j[n] < k[n]
  <2>1. i + 1 \in 2..Len(j) /\ i + 1 <= Len(k) /\ (i + 1) - 1 = i
    BY <1>1, <1>2, <1>6
  <2> QED
    BY <1>4, <1>6, <2>1
<1> QED
  BY <1>3, <1>5, <1>6 DEF Below, Before, j, k

LEMMA BeforeIrreflexive ==
    ASSUME NEW p \in Seq(Nat)
    PROVE  ~Before(p, p)
<1>1. Len(p) \in Nat /\ \A i \in 1..Len(p) : p[i] \in Nat
  BY ElementOfSeq
<1> QED
  BY <1>1 DEF Before

LEMMA BeforeTotal ==
    ASSUME NEW p \in Seq(Nat), NEW q \in Seq(Nat), p # q
    PROVE  Before(p, q) \/ Before(q, p)
<1> DEFINE T == {i \in 1..Len(p) : i <= Len(q) /\ p[i] # q[i]}
<1>0. Len(p) \in Nat /\ Len(q) \in Nat
  OBVIOUS
<1>1. CASE T = {}
  <2>1. \A i \in 1..Len(p) : i <= Len(q) => p[i] = q[i]
    BY <1>1
  <2>2. Len(p) # Len(q)
    <3>1. Len(p) = Len(q) => \A i \in 1..Len(p) : p[i] = q[i]
      BY <1>0, <2>1
    <3> QED
      BY <3>1, SeqEqual
  <2>3. CASE Len(p) < Len(q)
    <3>1. Agree(p, q, Len(p))
      BY <1>0, <2>1, <2>3 DEF Agree
    <3> QED
      BY <2>3, <3>1 DEF Before
  <2>4. CASE Len(q) < Len(p)
    <3>1. Agree(q, p, Len(q))
      BY <1>0, <2>1, <2>4 DEF Agree
    <3> QED
      BY <2>4, <3>1 DEF Before
  <2> QED
    BY <1>0, <2>2, <2>3, <2>4
<1>2. CASE T # {}
  <2>1. T \in SUBSET Nat
    OBVIOUS
  <2>2. PICK i \in T : \A m \in T : i <= m
    BY <1>2, <2>1, Least
  <2>3. i \in 1..Len(p) /\ i \in 1..Len(q) /\ p[i] # q[i]
    BY <1>0
  <2>4. ASSUME NEW n \in 1..(i - 1) PROVE p[n] = q[n]
    <3>1. n \in 1..Len(p) /\ n <= Len(q) /\ ~(i <= n)
      BY <1>0, <2>3
    <3> QED
      BY <2>2, <3>1
  <2>5. Agree(p, q, i - 1) /\ Agree(q, p, i - 1)
    BY <2>4 DEF Agree
  <2>6. p[i] < q[i] \/ q[i] < p[i]
    BY <2>3, ElementOfSeq
  <2>7. i <= Len(p) /\ i <= Len(q)
    BY <1>0, <2>3
  <2> QED
    BY <2>3, <2>5, <2>6, <2>7 DEF Before
<1> QED
  BY <1>1, <1>2

LEMMA BeforeTransitive ==
    ASSUME NEW p \in Seq(Nat), NEW q \in Seq(Nat), NEW r \in Seq(Nat),
           Before(p, q), Before(q, r)
    PROVE  Before(p, r)
<1>0. Len(p) \in Nat /\ Len(q) \in Nat /\ Len(r) \in Nat
  OBVIOUS
<1>1. ASSUME NEW m \in Nat, NEW n \in Nat, m <= n, Agree(p, q, m), Agree(q, r, n)
      PROVE  Agree(p, r, m)
  BY <1>1 DEF Agree
<1>2. ASSUME NEW m \in Nat, NEW n \in Nat, m <= n, Agree(p, q, n), Agree(q, r, m)
      PROVE  Agree(p, r, m)
  BY <1>2 DEF Agree
<1>3. CASE /\ Len(p) < Len(q) /\ Agree(p, q, Len(p))
           /\ Len(q) < Len(r) /\ Agree(q, r, Len(q))
  <2>1. Len(p) < Len(r) /\ Len(p) <= Len(q)
    BY <1>0, <1>3
  <2> QED
    BY <1>0, <1>1, <1>3, <2>1 DEF Before
<1>4. ASSUME Len(p) < Len(q), Agree(p, q, Len(p)),
             NEW i \in 1..Len(q), i <= Len(r), Agree(q, r, i - 1), q[i] < r[i]
      PROVE  Before(p, r)
  <2>1. CASE i <= Len(p)
    <3>1. i \in 1..Len(p) /\ i - 1 \in Nat /\ i - 1 <= Len(p)
      BY <1>0, <2>1
    <3>2. Agree(p, r, i - 1)
      BY <1>0, <1>2, <1>4, <3>1
    <3>3. p[i] = q[i]
      BY <1>4, <3>1 DEF Agree
    <3> QED
      BY <1>4, <3>1, <3>2, <3>3 DEF Before
  <2>2. CASE Len(p) < i
    <3>1. i - 1 \in Nat /\ Len(p) <= i - 1 /\ Len(p) < Len(r)
      BY <1>0, <1>4, <2>2
    <3>2. Agree(p, r, Len(p))
      BY <1>0, <1>1, <1>4, <3>1
    <3> QED
      BY <3>1, <3>2 DEF Before
  <2> QED
    BY <1>0, <2>1, <2>2
<1>5. ASSUME NEW i \in 1..Len(p), i <= Len(q), Agree(p, q, i - 1), p[i] < q[i],
             Len(q) < Len(r), Agree(q, r, Len(q))
      PROVE  Before(p, r)
  <2>0. i \in Nat /\ 1 <= i /\ i <= Len(q) /\ Len(q) < Len(r)
    BY <1>0, <1>5
  <2>1. i - 1 \in Nat /\ i - 1 <= Len(q) /\ i <= Len(r) /\ i \in 1..Len(q)
    BY <1>0, <2>0
  <2>2. Agree(p, r, i - 1)
    BY <1>0, <1>1, <1>5, <2>1
  <2>3. q[i] = r[i]
    BY <1>5, <2>1 DEF Agree
  <2> QED
    BY <1>5, <2>1, <2>2, <2>3 DEF Before
<1>6. ASSUME NEW i \in 1..Len(p), i <= Len(q), Agree(p, q, i - 1), p[i] < q[i],
             NEW n \in 1..Len(q), n <= Len(r), Agree(q, r, n - 1), q[n] < r[n]
      PROVE  Before(p, r)
  <2>0. /\ i - 1 \in Nat /\ n - 1 \in Nat /\ i \in 1..Len(q) /\ n \in 1..Len(r)
        /\ i \in Nat /\ n \in Nat
    BY <1>0, <1>6
  <2>1. p[i] \in Nat /\ q[i] \in Nat /\ q[n] \in Nat /\ r[n] \in Nat
    BY <2>0, ElementOfSeq
  <2>2. CASE i < n
    <3>1. i \in 1..(n - 1) /\ i - 1 <= n - 1 /\ i <= Len(r)
      BY <1>0, <2>0, <2>2
    <3>2. Agree(p, r, i - 1)
      BY <1>1, <1>6, <2>0, <3>1
    <3>3. q[i] = r[i]
      BY <1>6, <3>1 DEF Agree
    <3> QED
      BY <1>6, <3>1, <3>2, <3>3 DEF Before
  <2>3. CASE n < i
    <3>1. n \in 1..(i - 1) /\ n - 1 <= i - 1 /\ n \in 1..Len(p)
      BY <1>0, <2>0, <2>3
    <3>2. Agree(p, r, n - 1)
      BY <1>2, <1>6, <2>0, <3>1
    <3>3. p[n] = q[n]
      BY <1>6, <3>1 DEF Agree
    <3> QED
      BY <1>6, <3>1, <3>2, <3>3 DEF Before
  <2>4. CASE i = n
    <3>1. Agree(p, r, i - 1)
      BY <1>1, <1>6, <2>0, <2>4
    <3>0. q[i] = q[n] /\ r[i] = r[n] /\ q[i] < r[i]
      BY <1>6, <2>4
    <3>2. p[i] < r[i]
      <4> DEFINE a == p[i]
                 b == q[i]
                 c == r[i]
      <4>1. a \in Nat /\ b \in Nat /\ c \in Nat /\ a < b /\ b < c
        BY <1>6, <2>1, <3>0
      <4> HIDE DEF a, b, c
      <4>2. a < c
        BY <4>1
      <4> QED
        BY <4>2 DEF a, c
    <3> QED
      BY <1>6, <2>4, <3>1, <3>2 DEF Before
  <2> QED
    BY <2>0, <2>2, <2>3, <2>4
<1> QED
  BY <1>3, <1>4, <1>5, <1>6 DEF Before

-----------------------------------------------------------------------------
(* The keys of a set backwards.                                            *)

Above(K, k) == {j \in K : Below(k, j)}
Ordered(K) ==
    /\ IsFiniteSet(K)
    /\ \A k \in K : ~Below(k, k)
    /\ \A j, k \in K : j # k => Below(j, k) \/ Below(k, j)
    /\ \A i, j, k \in K : Below(i, j) /\ Below(j, k) => Below(i, k)

\* In a strict order of a finite set each place has one key.
LEMMA Ranking ==
    ASSUME NEW K, Ordered(K)
    PROVE  LET n == Cardinality(K)
               B == Backwards(K)
           IN  /\ n \in Nat
               /\ B \in Seq(K) /\ Len(B) = n
               /\ \A i \in 1..n : B[i] \in K
               /\ \A k \in K : \E i \in 1..n : B[i] = k
               /\ \A i, j \in 1..n : i < j => Below(B[j], B[i])
<1> DEFINE n == Cardinality(K)
           B == Backwards(K)
           rank == [k \in K |-> Cardinality(Above(K, k))]
<1>1. IsFiniteSet(K) /\ n \in Nat
  BY FS_CardinalityType DEF Ordered
<1>2. ASSUME NEW k \in K
      PROVE  IsFiniteSet(Above(K, k)) /\ Cardinality(Above(K, k)) \in 0..(n - 1)
  <2>1. Above(K, k) \subseteq K /\ Above(K, k) # K
    BY DEF Above, Ordered
  <2>2. /\ IsFiniteSet(Above(K, k))
        /\ Cardinality(Above(K, k)) <= n
        /\ Cardinality(Above(K, k)) # n
    BY <1>1, <2>1, FS_Subset
  <2>3. Cardinality(Above(K, k)) \in Nat
    BY <2>2, FS_CardinalityType
  <2> QED
    BY <1>1, <2>2, <2>3
<1>3. ASSUME NEW j \in K, NEW k \in K, Below(j, k)
      PROVE  Cardinality(Above(K, k)) < Cardinality(Above(K, j))
  <2>1. Above(K, k) \subseteq Above(K, j)
    BY <1>3 DEF Above, Ordered
  <2>2. k \in Above(K, j) /\ k \notin Above(K, k)
    BY <1>3 DEF Above, Ordered
  <2>3. /\ Cardinality(Above(K, k)) <= Cardinality(Above(K, j))
        /\ Cardinality(Above(K, k)) # Cardinality(Above(K, j))
    BY <1>2, <2>1, <2>2, FS_Subset
  <2> DEFINE x == Cardinality(Above(K, k))
             y == Cardinality(Above(K, j))
  <2>4. x \in Nat /\ y \in Nat /\ x <= y /\ x # y
    BY <1>1, <1>2, <2>3
  <2> HIDE DEF x, y
  <2>5. x < y
    BY <2>4
  <2> QED
    BY <2>5 DEF x, y
<1>4. rank \in Injection(K, 0..(n - 1))
  <2>1. rank \in [K -> 0..(n - 1)]
    BY <1>2
  <2>2. ASSUME NEW j \in K, NEW k \in K, rank[j] = rank[k] PROVE j = k
    <3>1. ~Below(j, k) /\ ~Below(k, j)
      BY <1>1, <1>2, <1>3, <2>2
    <3> QED
      BY <3>1 DEF Ordered
  <2>3. \A j, k \in K : rank[j] = rank[k] => j = k
    BY <2>2
  <2> HIDE DEF rank
  <2> QED
    BY <2>1, <2>3, Fun_IsInj
<1>5. IsFiniteSet(0..(n - 1)) /\ Cardinality(0..(n - 1)) = n
  <2>1. n \in Nat
    BY <1>1
  <2> HIDE DEF n
  <2>2. 0 \in Int /\ n - 1 \in Int
    BY <2>1
  <2>3. /\ IsFiniteSet(0..(n - 1))
        /\ Cardinality(0..(n - 1)) = IF 0 > n - 1 THEN 0 ELSE (n - 1) - 0 + 1
    BY <2>2, FS_Interval
  <2> QED
    BY <2>1, <2>3
<1>6. \A m \in 0..(n - 1) : \E k \in K : rank[k] = m
  <2>1. rank \in Surjection(K, 0..(n - 1))
    BY <1>4, <1>5, FS_Injection
  <2> QED
    BY <2>1 DEF Surjection
<1>7. ASSUME NEW i \in 1..n
      PROVE  B[i] \in K /\ Cardinality(Above(K, B[i])) = i - 1
  <2>1. i - 1 \in 0..(n - 1)
    BY <1>1
  <2>2. PICK k \in K : rank[k] = i - 1
    BY <1>6, <2>1
  <2>3. \E k_1 \in K : Cardinality({j \in K : Below(k_1, j)}) = i - 1
    BY <2>2 DEF Above
  <2>4. B[i] = CHOOSE k_1 \in K : Cardinality({j \in K : Below(k_1, j)}) = i - 1
    BY DEF Backwards
  <2> QED
    BY <2>3, <2>4 DEF Above
<1>8. B \in Seq(K) /\ Len(B) = n
  <2>1. B \in [1..n -> K]
    BY <1>7 DEF Backwards
  <2>2. B \in Seq(K)
    BY <1>1, <2>1, SeqDef
  <2>3. DOMAIN B = 1..n
    BY <2>1
  <2> HIDE DEF B, n
  <2> QED
    BY <1>1, <2>2, <2>3, LenProperties
<1>9. ASSUME NEW k \in K PROVE \E i \in 1..n : B[i] = k
  <2>1. PICK i \in 1..n : Cardinality(Above(K, k)) = i - 1
    <3>1. /\ Cardinality(Above(K, k)) + 1 \in 1..n
          /\ Cardinality(Above(K, k)) = (Cardinality(Above(K, k)) + 1) - 1
      BY <1>1, <1>2
    <3> QED
      BY <3>1
  <2>2. B[i] \in K /\ rank[B[i]] = rank[k]
    BY <1>7, <2>1
  <2>3. B[i] = k
    BY <1>4, <2>2 DEF Injection, IsInjective
  <2> QED
    BY <2>3
<1>10. ASSUME NEW i \in 1..n, NEW j \in 1..n, i < j PROVE Below(B[j], B[i])
  <2>1. /\ B[i] \in K /\ Cardinality(Above(K, B[i])) = i - 1
        /\ B[j] \in K /\ Cardinality(Above(K, B[j])) = j - 1
    BY <1>7
  <2> HIDE DEF B
  <2>2. B[i] # B[j]
    BY <1>1, <1>10, <2>1
  <2>3. ~Below(B[i], B[j])
    BY <1>1, <1>3, <1>10, <2>1
  <2> QED
    BY <2>1, <2>2, <2>3 DEF Ordered
<1> QED
  BY <1>1, <1>7, <1>8, <1>9, <1>10

\* Sets of keys of one namespace are in order.
LEMMA NamespaceOrdered ==
    ASSUME NEW a, NEW K, IsFiniteSet(K),
           \A k \in K : \E q \in Seq(Nat) : k = Key(a, q)
    PROVE  Ordered(K)
<1>1. ASSUME NEW k \in K PROVE ~Below(k, k)
  <2>1. PICK q \in Seq(Nat) : k = Key(a, q)
    OBVIOUS
  <2> QED
    BY <2>1, BelowBefore, BeforeIrreflexive
<1>2. ASSUME NEW j \in K, NEW k \in K, j # k PROVE Below(j, k) \/ Below(k, j)
  <2>1. PICK p \in Seq(Nat) : j = Key(a, p)
    OBVIOUS
  <2>2. PICK q \in Seq(Nat) : k = Key(a, q)
    OBVIOUS
  <2> QED
    BY <1>2, <2>1, <2>2, BelowBefore, BeforeTotal
<1>3. ASSUME NEW i \in K, NEW j \in K, NEW k \in K, Below(i, j), Below(j, k)
      PROVE  Below(i, k)
  <2>1. PICK p \in Seq(Nat) : i = Key(a, p)
    OBVIOUS
  <2>2. PICK q \in Seq(Nat) : j = Key(a, q)
    OBVIOUS
  <2>3. PICK r \in Seq(Nat) : k = Key(a, r)
    OBVIOUS
  <2>4. Before(p, q) /\ Before(q, r)
    BY <1>3, <2>1, <2>2, <2>3, BelowBefore
  <2>5. Before(p, r)
    BY <2>4, BeforeTransitive
  <2> QED
    BY <2>1, <2>3, <2>5, BelowBefore
<1> QED
  BY <1>1, <1>2, <1>3 DEF Ordered

-----------------------------------------------------------------------------
(* The invariant.                                                          *)

USE KeysAssumption, TextsAssumption, BoundsAssumption

\* The ghosts are functions from paths to texts.
LEMMA PartialFacts ==
    ASSUME NEW f \in Partial, NEW p \in Paths
    PROVE  /\ DOMAIN f \subseteq Paths
           /\ \A q \in DOMAIN f : f[q] \in Texts
           /\ \A v \in Texts : With(f, p, v) \in Partial
           /\ Without(f, p) \in Partial
<1>1. PICK P \in SUBSET Paths : f \in [P -> Texts]
  BY DEF Partial
<1>2. ASSUME NEW v \in Texts PROVE With(f, p, v) \in Partial
  <2>1. With(f, p, v) \in [P \cup {p} -> Texts]
    BY <1>1 DEF With
  <2> QED
    BY <2>1 DEF Partial
<1>3. Without(f, p) \in Partial
  <2>1. Without(f, p) \in [P \ {p} -> Texts]
    BY <1>1 DEF Without
  <2> QED
    BY <2>1 DEF Partial
<1> QED
  BY <1>1, <1>2, <1>3

LEMMA KeyOfFacts ==
    ASSUME TypeOK, NEW i \in 1..Len(logged)
    PROVE  /\ logged[i].topic \in Topics /\ logged[i].stamp \in Nat
           /\ logged[i].topic \in Seq(Nat)
           /\ Append(logged[i].topic, logged[i].stamp) \in Seq(Nat)
           /\ KeyOf(i) = Key("log", Append(logged[i].topic, logged[i].stamp))
<1>1. logged[i] \in [topic : Topics, stamp : Nat, id : Nat]
  BY ElementOfSeq DEF TypeOK
<1>2. /\ logged[i].topic \in Topics /\ logged[i].stamp \in Nat
      /\ logged[i].topic \in Seq(Nat)
  BY <1>1
<1> QED
  BY <1>2, AppendProperties DEF KeyOf, LogKey

\* Namespaces do not share keys.
LEMMA Apart ==
    ASSUME TypeOK, NEW p \in Paths, NEW q \in Paths
    PROVE  /\ Key("kv", p) # Key("config", q)
           /\ Key("kv", p) = Key("kv", q) <=> p = q
           /\ Key("config", p) = Key("config", q) <=> p = q
           /\ \A i \in 1..Len(logged) :
                 KeyOf(i) # Key("kv", p) /\ KeyOf(i) # Key("config", p)
<1>1. p \in Seq(Nat) /\ q \in Seq(Nat)
  OBVIOUS
<1>2. Key("kv", p) # Key("config", q)
  BY <1>1, KeyInjective
<1>3. /\ Key("kv", p) = Key("kv", q) <=> p = q
      /\ Key("config", p) = Key("config", q) <=> p = q
  BY <1>1, KeyInjective
<1>4. ASSUME NEW i \in 1..Len(logged)
      PROVE  KeyOf(i) # Key("kv", p) /\ KeyOf(i) # Key("config", p)
  <2>1. PICK r \in Seq(Nat) : KeyOf(i) = Key("log", r)
    BY KeyOfFacts
  <2> QED
    BY <1>1, <2>1, KeyInjective
<1> QED
  BY <1>2, <1>3, <1>4

LEMMA InitStore == Init => StoreInv
<1> SUFFICES ASSUME Init PROVE StoreInv
  OBVIOUS
<1>1. kv \in Partial /\ config \in Partial
  <2>1. <<>> \in [{} -> Texts]
    OBVIOUS
  <2> QED
    BY <2>1 DEF Init, Partial
<1>2. TypeOK
  <2>1. logged \in Seq([topic : Topics, stamp : Nat, id : Nat])
    BY DEF Init
  <2> QED
    BY <1>1, <2>1 DEF Init, TypeOK
<1>3. Stamped /\ Orderly
  BY DEF Init, Stamped, Orderly
<1>4. Stored
  BY DEF Init, Stored
<1> QED
  BY <1>2, <1>3, <1>4 DEF StoreInv

\* Neither of kv and config touches the log.
LEMMA LogUntouched ==
    ASSUME TypeOK, Stored, UNCHANGED logged,
           DOMAIN store' = {Key("kv", q) : q \in DOMAIN kv'}
                           \cup {Key("config", q) : q \in DOMAIN config'}
                           \cup {KeyOf(i) : i \in 1..Len(logged)},
           \A q \in DOMAIN kv' : store'[Key("kv", q)] = Json(kv'[q]),
           \A q \in DOMAIN config' : store'[Key("config", q)] = config'[q],
           \A i \in 1..Len(logged) : store'[KeyOf(i)] = store[KeyOf(i)]
    PROVE  Stored'
<1>1. \A i \in 1..Len(logged) : KeyOf(i)' = KeyOf(i)
  BY DEF KeyOf
<1>2. \A i \in 1..Len(logged') :
        /\ store'[KeyOf(i)'] \in i..Len(logged')
        /\ \A j : j = store'[KeyOf(i)'] => KeyOf(j)' = KeyOf(i)'
  <2> SUFFICES ASSUME NEW i \in 1..Len(logged)
               PROVE  /\ store'[KeyOf(i)'] \in i..Len(logged)
                      /\ \A j : j = store'[KeyOf(i)'] => KeyOf(j)' = KeyOf(i)'
    OBVIOUS
  <2>1. store'[KeyOf(i)'] = store[KeyOf(i)]
    BY <1>1
  <2>2. /\ store[KeyOf(i)] \in i..Len(logged)
        /\ KeyOf(store[KeyOf(i)]) = KeyOf(i)
    BY DEF Stored
  <2>3. \A j : j = store[KeyOf(i)] => KeyOf(j)' = KeyOf(j)
    BY DEF KeyOf
  <2> QED
    BY <1>1, <2>1, <2>2, <2>3
<1> QED
  BY <1>1, <1>2 DEF Stored

\* What is stored hangs on these four variables only.
LEMMA SameStored ==
    ASSUME Stored, UNCHANGED <<store, kv, config, logged>>
    PROVE  Stored'
<1>1. store' = store /\ kv' = kv /\ config' = config /\ logged' = logged
  OBVIOUS
<1>2. \A i : KeyOf(i)' = KeyOf(i)
  BY <1>1 DEF KeyOf
<1>3. {KeyOf(i)' : i \in 1..Len(logged)} = {KeyOf(i) : i \in 1..Len(logged)}
  BY <1>2
<1>4. \A i \in 1..Len(logged) : KeyOf(store[KeyOf(i)])' = KeyOf(store[KeyOf(i)])
  BY <1>1, <1>2 DEF KeyOf
<1> QED
  BY <1>1, <1>2, <1>3, <1>4 DEF Stored

LEMMA DbSetStep ==
    ASSUME StoreInv, NEW p \in Paths, NEW v \in Texts, DbSet(p, v)
    PROVE  StoreInv'
<1> USE DEF DbSet, Write, Set
<1>0. TypeOK /\ kv \in Partial /\ config \in Partial
  BY DEF StoreInv, TypeOK
<1>1. TypeOK'
  BY <1>0, PartialFacts DEF TypeOK
<1>2. Stamped'
  BY DEF StoreInv, Stamped
<1>3. Stored'
  <2>1. /\ DOMAIN kv' = DOMAIN kv \cup {p} /\ kv'[p] = v
        /\ \A q \in DOMAIN kv : q # p => kv'[q] = kv[q]
    BY DEF With
  <2>2. /\ DOMAIN store' = DOMAIN store \cup {Key("kv", p)}
        /\ store'[Key("kv", p)] = Json(v)
        /\ \A k \in DOMAIN store : k # Key("kv", p) => store'[k] = store[k]
    BY DEF With
  <2>3. UNCHANGED <<config, logged>>
    OBVIOUS
  <2>4. DOMAIN kv \subseteq Paths /\ DOMAIN config \subseteq Paths
    BY <1>0, PartialFacts
  <2> HIDE DEF DbSet
  <2>5. \A q \in DOMAIN kv' : store'[Key("kv", q)] = Json(kv'[q])
    <3> SUFFICES ASSUME NEW q \in DOMAIN kv, q # p
                 PROVE  store'[Key("kv", q)] = Json(kv[q])
      BY <2>1, <2>2
    <3>1. Key("kv", q) \in DOMAIN store /\ store[Key("kv", q)] = Json(kv[q])
      BY DEF StoreInv, Stored
    <3>2. Key("kv", q) # Key("kv", p)
      BY <1>0, <2>4, Apart
    <3> QED
      BY <2>2, <3>1, <3>2
  <2>6. \A q \in DOMAIN config' : store'[Key("config", q)] = config'[q]
    <3> SUFFICES ASSUME NEW q \in DOMAIN config
                 PROVE  store'[Key("config", q)] = config[q]
      BY <2>3
    <3>1. Key("config", q) \in DOMAIN store /\ store[Key("config", q)] = config[q]
      BY DEF StoreInv, Stored
    <3>2. Key("config", q) # Key("kv", p)
      BY <1>0, <2>4, Apart
    <3> QED
      BY <2>2, <3>1, <3>2
  <2>7. \A i \in 1..Len(logged) : store'[KeyOf(i)] = store[KeyOf(i)]
    BY <1>0, <2>2, Apart DEF StoreInv, Stored
  <2>8. DOMAIN store' = {Key("kv", q) : q \in DOMAIN kv'}
                        \cup {Key("config", q) : q \in DOMAIN config'}
                        \cup {KeyOf(i) : i \in 1..Len(logged)}
    BY <2>1, <2>2, <2>3 DEF StoreInv, Stored
  <2> QED
    BY <1>0, <2>3, <2>5, <2>6, <2>7, <2>8, LogUntouched DEF StoreInv
<1>4. Orderly'
  BY DEF StoreInv, Orderly
<1> QED
  BY <1>1, <1>2, <1>3, <1>4 DEF StoreInv

LEMMA ConfigSetStep ==
    ASSUME StoreInv, NEW p \in Paths, NEW v \in Texts, ConfigSet(p, v)
    PROVE  StoreInv'
<1> USE DEF ConfigSet, Write, Set
<1>0. TypeOK /\ kv \in Partial /\ config \in Partial
  BY DEF StoreInv, TypeOK
<1>1. TypeOK'
  BY <1>0, PartialFacts DEF TypeOK
<1>2. Stamped'
  BY DEF StoreInv, Stamped
<1>3. Stored'
  <2>1. /\ DOMAIN config' = DOMAIN config \cup {p} /\ config'[p] = v
        /\ \A q \in DOMAIN config : q # p => config'[q] = config[q]
    BY DEF With
  <2>2. /\ DOMAIN store' = DOMAIN store \cup {Key("config", p)}
        /\ store'[Key("config", p)] = v
        /\ \A k \in DOMAIN store : k # Key("config", p) => store'[k] = store[k]
    BY DEF With
  <2>3. UNCHANGED <<kv, logged>>
    OBVIOUS
  <2>4. DOMAIN kv \subseteq Paths /\ DOMAIN config \subseteq Paths
    BY <1>0, PartialFacts
  <2> HIDE DEF ConfigSet
  <2>5. \A q \in DOMAIN kv' : store'[Key("kv", q)] = Json(kv'[q])
    BY <1>0, <2>1, <2>2, <2>3, <2>4, Apart DEF StoreInv, Stored
  <2>6. \A q \in DOMAIN config' : store'[Key("config", q)] = config'[q]
    BY <1>0, <2>1, <2>2, <2>3, <2>4, Apart DEF StoreInv, Stored
  <2>7. \A i \in 1..Len(logged) : store'[KeyOf(i)] = store[KeyOf(i)]
    BY <1>0, <2>2, Apart DEF StoreInv, Stored
  <2>8. DOMAIN store' = {Key("kv", q) : q \in DOMAIN kv'}
                        \cup {Key("config", q) : q \in DOMAIN config'}
                        \cup {KeyOf(i) : i \in 1..Len(logged)}
    BY <2>1, <2>2, <2>3 DEF StoreInv, Stored
  <2> QED
    BY <1>0, <2>3, <2>5, <2>6, <2>7, <2>8, LogUntouched DEF StoreInv
<1>4. Orderly'
  BY DEF StoreInv, Orderly
<1> QED
  BY <1>1, <1>2, <1>3, <1>4 DEF StoreInv

LEMMA DbDelStep ==
    ASSUME StoreInv, NEW p \in Paths, DbDel(p)
    PROVE  StoreInv'
<1> USE DEF DbDel, Write, Delete
<1>0. TypeOK /\ kv \in Partial /\ config \in Partial
  BY DEF StoreInv, TypeOK
<1>1. TypeOK'
  BY <1>0, PartialFacts DEF TypeOK
<1>2. Stamped'
  BY DEF StoreInv, Stamped
<1>3. Stored'
  <2>1. /\ DOMAIN kv' = DOMAIN kv \ {p}
        /\ \A q \in DOMAIN kv : q # p => kv'[q] = kv[q]
    BY DEF Without
  <2>2. /\ DOMAIN store' = DOMAIN store \ {Key("kv", p)}
        /\ \A k \in DOMAIN store : k # Key("kv", p) => store'[k] = store[k]
    BY DEF Without
  <2>3. UNCHANGED <<config, logged>>
    OBVIOUS
  <2>4. DOMAIN kv \subseteq Paths /\ DOMAIN config \subseteq Paths
    BY <1>0, PartialFacts
  <2> HIDE DEF DbDel
  <2>5. \A q \in DOMAIN kv' : store'[Key("kv", q)] = Json(kv'[q])
    BY <1>0, <2>1, <2>2, <2>3, <2>4, Apart DEF StoreInv, Stored
  <2>6. \A q \in DOMAIN config' : store'[Key("config", q)] = config'[q]
    BY <1>0, <2>1, <2>2, <2>3, <2>4, Apart DEF StoreInv, Stored
  <2>7. \A i \in 1..Len(logged) : store'[KeyOf(i)] = store[KeyOf(i)]
    BY <1>0, <2>2, Apart DEF StoreInv, Stored
  <2>8. DOMAIN store' = {Key("kv", q) : q \in DOMAIN kv'}
                        \cup {Key("config", q) : q \in DOMAIN config'}
                        \cup {KeyOf(i) : i \in 1..Len(logged)}
    BY <1>0, <2>1, <2>2, <2>3, <2>4, Apart DEF StoreInv, Stored
  <2> QED
    BY <1>0, <2>3, <2>5, <2>6, <2>7, <2>8, LogUntouched DEF StoreInv
<1>4. Orderly'
  BY DEF StoreInv, Orderly
<1> QED
  BY <1>1, <1>2, <1>3, <1>4 DEF StoreInv

LEMMA ConfigDelStep ==
    ASSUME StoreInv, NEW p \in Paths, ConfigDel(p)
    PROVE  StoreInv'
<1> USE DEF ConfigDel, Write, Delete
<1>0. TypeOK /\ kv \in Partial /\ config \in Partial
  BY DEF StoreInv, TypeOK
<1>1. TypeOK'
  BY <1>0, PartialFacts DEF TypeOK
<1>2. Stamped'
  BY DEF StoreInv, Stamped
<1>3. Stored'
  <2>1. /\ DOMAIN config' = DOMAIN config \ {p}
        /\ \A q \in DOMAIN config : q # p => config'[q] = config[q]
    BY DEF Without
  <2>2. /\ DOMAIN store' = DOMAIN store \ {Key("config", p)}
        /\ \A k \in DOMAIN store : k # Key("config", p) => store'[k] = store[k]
    BY DEF Without
  <2>3. UNCHANGED <<kv, logged>>
    OBVIOUS
  <2>4. DOMAIN kv \subseteq Paths /\ DOMAIN config \subseteq Paths
    BY <1>0, PartialFacts
  <2> HIDE DEF ConfigDel
  <2>5. \A q \in DOMAIN kv' : store'[Key("kv", q)] = Json(kv'[q])
    BY <1>0, <2>1, <2>2, <2>3, <2>4, Apart DEF StoreInv, Stored
  <2>6. \A q \in DOMAIN config' : store'[Key("config", q)] = config'[q]
    BY <1>0, <2>1, <2>2, <2>3, <2>4, Apart DEF StoreInv, Stored
  <2>7. \A i \in 1..Len(logged) : store'[KeyOf(i)] = store[KeyOf(i)]
    BY <1>0, <2>2, Apart DEF StoreInv, Stored
  <2>8. DOMAIN store' = {Key("kv", q) : q \in DOMAIN kv'}
                        \cup {Key("config", q) : q \in DOMAIN config'}
                        \cup {KeyOf(i) : i \in 1..Len(logged)}
    BY <1>0, <2>1, <2>2, <2>3, <2>4, Apart DEF StoreInv, Stored
  <2> QED
    BY <1>0, <2>3, <2>5, <2>6, <2>7, <2>8, LogUntouched DEF StoreInv
<1>4. Orderly'
  BY DEF StoreInv, Orderly
<1> QED
  BY <1>1, <1>2, <1>3, <1>4 DEF StoreInv

\* A key of the log gives its topic back.
LEMMA LogKeyTopic ==
    ASSUME NEW t \in Seq(Nat), NEW n \in Nat
    PROVE  Front(Tail(LogKey(t, n))) = t /\ LogKey(t, n) # NoKey
<1> DEFINE q == Append(t, n)
<1>1. /\ q \in Seq(Nat) /\ Len(q) = Len(t) + 1 /\ Len(t) \in Nat
      /\ \A i \in 1..Len(t) : q[i] = t[i]
  BY AppendProperties
<1> HIDE DEF q
<1>2. Tail(Key("log", q)) = q /\ Key("log", q) # NoKey
  BY <1>1, KeyFacts
<1>3. Front(q) = t
  <2>1. Front(q) = SubSeq(q, 1, Len(t))
    BY <1>1 DEF Front
  <2>2. \A i \in 1..Len(t) : q[i] \in Nat
    BY <1>1
  <2>3. /\ SubSeq(q, 1, Len(t)) \in Seq(Nat)
        /\ Len(SubSeq(q, 1, Len(t))) = Len(t)
        /\ \A i \in 1..Len(t) : SubSeq(q, 1, Len(t))[i] = q[i]
    BY <1>1, <2>2, SubSeqProperties
  <2> QED
    BY <1>1, <2>1, <2>3, SeqEqual
<1> QED
  BY <1>2, <1>3 DEF LogKey, q

LEMMA LogStampStep ==
    ASSUME StoreInv, NEW h \in Handlers, NEW t \in Topics, LogStamp(h, t)
    PROVE  StoreInv'
<1> USE DEF LogStamp, Write
<1>1. TypeOK'
  BY DEF StoreInv, TypeOK
<1>2. Stamped'
  BY DEF StoreInv, TypeOK, Stamped
<1>3. Stored'
  BY SameStored DEF StoreInv
<1>4. Orderly'
  <2> SUFFICES ASSUME ~disorder' PROVE Orderly'
    BY DEF Orderly
  <2>1. ~disorder /\ \A g \in Handlers : pending[g] = NoKey
    BY DEF StoreInv, TypeOK
  <2>2. \A g \in Handlers : pending'[g] # NoKey => g = h /\ read'[g] = clock
    BY <2>1 DEF StoreInv, TypeOK
  <2>3. /\ \A i \in 1..Len(logged) : logged[i].stamp <= clock
        /\ \A i, j \in 1..Len(logged) : i < j => logged[i].stamp <= logged[j].stamp
    BY <2>1 DEF StoreInv, Orderly
  <2>4. /\ UNCHANGED <<clock, logged>> /\ clock <= clock
    BY DEF StoreInv, TypeOK
  <2> HIDE DEF LogStamp
  <2> QED
    BY <2>2, <2>3, <2>4 DEF Orderly
<1> QED
  BY <1>1, <1>2, <1>3, <1>4 DEF StoreInv

\* The entry takes the place of one with the same topic and stamp.
LEMMA LogPutStep ==
    ASSUME StoreInv, NEW h \in Handlers, LogPut(h)
    PROVE  StoreInv'
<1> DEFINE n == Len(logged) + 1
           e == [topic |-> Front(Tail(pending[h])), stamp |-> read[h], id |-> n]
<1>1. /\ pending[h] # NoKey
      /\ store' = With(store, pending[h], n)
      /\ logged' = Append(logged, e)
      /\ pending' = [pending EXCEPT ![h] = NoKey]
      /\ UNCHANGED <<clock, calls, jumps, read, kv, config, disorder>>
  BY DEF LogPut, Set, counts
<1>2. PICK t \in Topics : pending[h] = LogKey(t, read[h])
  BY <1>1 DEF StoreInv, Stamped
<1>3. TypeOK /\ t \in Seq(Nat) /\ read[h] \in Nat
  BY DEF StoreInv, TypeOK
<1>4. e = [topic |-> t, stamp |-> read[h], id |-> n]
  BY <1>2, <1>3, LogKeyTopic
<1>5. e \in [topic : Topics, stamp : Nat, id : Nat]
  <2>1. n \in Nat
    BY <1>3 DEF TypeOK
  <2> QED
    BY <1>3, <1>4, <2>1
<1>6. /\ logged' \in Seq([topic : Topics, stamp : Nat, id : Nat])
      /\ Len(logged') = n
      /\ Len(logged) \in Nat
      /\ \A i \in 1..Len(logged) : logged'[i] = logged[i]
      /\ logged'[n] = e
  BY <1>1, <1>3, <1>5, AppendProperties DEF TypeOK
<1> HIDE DEF n, e
<1>n. n = Len(logged) + 1
  BY DEF n
<1>7. TypeOK'
  BY <1>1, <1>3, <1>6 DEF TypeOK
<1>8. Stamped'
  BY <1>1 DEF StoreInv, Stamped, TypeOK
<1>9. /\ \A i \in 1..Len(logged) : KeyOf(i)' = KeyOf(i)
      /\ \A i : i = n => KeyOf(i)' = pending[h]
      /\ \A i \in 1..n : i \in 1..Len(logged) \/ i = n
  <2>1. ASSUME NEW i \in 1..Len(logged) PROVE KeyOf(i)' = KeyOf(i)
    BY <1>6 DEF KeyOf
  <2>2. ASSUME NEW i, i = n PROVE KeyOf(i)' = pending[h]
    <3>1. logged'[i] = e /\ e.topic = t /\ e.stamp = read[h]
      BY <1>4, <1>6, <2>2
    <3> QED
      BY <1>2, <3>1 DEF KeyOf
  <2>3. \A i \in 1..n : i \in 1..Len(logged) \/ i = n
    BY <1>6, <1>n
  <2> QED
    BY <2>1, <2>2, <2>3
<1>10. Stored'
  <2>1. /\ DOMAIN store' = DOMAIN store \cup {pending[h]}
        /\ store'[pending[h]] = n
        /\ \A k \in DOMAIN store : k # pending[h] => store'[k] = store[k]
    BY <1>1 DEF With
  <2>2. \A p \in Paths :
           pending[h] # Key("kv", p) /\ pending[h] # Key("config", p)
    <3>1. Append(t, read[h]) \in Seq(Nat)
      BY <1>3, AppendProperties
    <3> QED
      BY <1>2, <3>1, KeyInjective DEF LogKey
  <2>3. DOMAIN kv \subseteq Paths /\ DOMAIN config \subseteq Paths
    BY <1>3 DEF TypeOK, Partial
  <2>4. DOMAIN store' = {Key("kv", q) : q \in DOMAIN kv}
                        \cup {Key("config", q) : q \in DOMAIN config}
                        \cup {KeyOf(i)' : i \in 1..Len(logged')}
    <3>1. {KeyOf(i)' : i \in 1..Len(logged')}
             = {KeyOf(i) : i \in 1..Len(logged)} \cup {pending[h]}
      <4>1. n \in 1..n /\ \A i \in 1..Len(logged) : i \in 1..n
        BY <1>6, <1>n
      <4>2. \A i \in 1..n :
               \/ i \in 1..Len(logged) /\ KeyOf(i)' = KeyOf(i)
               \/ KeyOf(i)' = pending[h]
        BY <1>9
      <4>3. \A i \in 1..Len(logged) : i \in 1..n /\ KeyOf(i)' = KeyOf(i)
        BY <1>9, <4>1
      <4>4. \E i \in 1..n : KeyOf(i)' = pending[h]
        BY <1>9, <4>1
      <4>5. Len(logged') = n
        BY <1>6
      <4> QED
        BY <4>2, <4>3, <4>4, <4>5
    <3> QED
      BY <2>1, <3>1 DEF StoreInv, Stored
  <2>5. \A q \in DOMAIN kv : store'[Key("kv", q)] = Json(kv[q])
    BY <2>1, <2>2, <2>3 DEF StoreInv, Stored
  <2>6. \A q \in DOMAIN config : store'[Key("config", q)] = config[q]
    BY <2>1, <2>2, <2>3 DEF StoreInv, Stored
  <2>7. ASSUME NEW i \in 1..Len(logged')
        PROVE  /\ store'[KeyOf(i)'] \in i..Len(logged')
               /\ \A j : j = store'[KeyOf(i)'] => KeyOf(j)' = KeyOf(i)'
    <3>1. CASE KeyOf(i)' = pending[h]
      <4>1. store'[KeyOf(i)'] = n /\ n \in i..Len(logged')
        BY <1>6, <1>n, <2>1, <3>1
      <4> QED
        BY <1>9, <3>1, <4>1
    <3>2. CASE KeyOf(i)' # pending[h]
      <4>1. i \in 1..Len(logged) /\ KeyOf(i)' = KeyOf(i)
        BY <1>6, <1>9, <3>2
      <4>2. store'[KeyOf(i)] = store[KeyOf(i)]
        BY <2>1, <3>2, <4>1 DEF StoreInv, Stored
      <4>3. /\ store[KeyOf(i)] \in i..Len(logged)
            /\ KeyOf(store[KeyOf(i)]) = KeyOf(i)
        BY <4>1 DEF StoreInv, Stored
      <4>4. store[KeyOf(i)] \in 1..Len(logged)
        BY <1>6, <4>1, <4>3
      <4>5. store[KeyOf(i)] \in i..Len(logged')
        BY <1>6, <1>n, <4>3
      <4> QED
        BY <1>9, <4>1, <4>2, <4>3, <4>4, <4>5
    <3> QED
      BY <3>1, <3>2
  <2> QED
    BY <1>1, <2>4, <2>5, <2>6, <2>7 DEF Stored
<1>11. Orderly'
  <2> SUFFICES ASSUME ~disorder PROVE Orderly'
    BY <1>1 DEF Orderly
  <2>1. /\ read[h] <= clock
        /\ \A i \in 1..Len(logged) : logged[i].stamp <= read[h]
        /\ \A i \in 1..Len(logged) : logged[i].stamp <= clock
        /\ \A i, j \in 1..Len(logged) : i < j => logged[i].stamp <= logged[j].stamp
    BY <1>1 DEF StoreInv, Orderly
  <2>2. \A g \in Handlers : pending'[g] = NoKey
    BY <1>1, <1>3 DEF StoreInv, TypeOK, Orderly
  <2>3. logged'[n].stamp = read[h]
    BY <1>4, <1>6
  <2>4. \A i \in 1..Len(logged') : logged'[i].stamp <= clock
    BY <1>6, <1>9, <2>1, <2>3
  <2>5. ASSUME NEW i \in 1..Len(logged'), NEW j \in 1..Len(logged'), i < j
        PROVE  logged'[i].stamp <= logged'[j].stamp
    <3>1. i \in 1..Len(logged)
      BY <1>6, <1>n, <2>5
    <3>2. CASE j \in 1..Len(logged)
      BY <1>6, <2>1, <2>5, <3>1, <3>2
    <3>3. CASE j = n
      BY <1>6, <2>1, <2>3, <3>1, <3>3
    <3> QED
      BY <1>6, <1>9, <3>2, <3>3
  <2> QED
    BY <1>1, <2>2, <2>4, <2>5 DEF Orderly
<1> QED
  BY <1>7, <1>8, <1>10, <1>11 DEF StoreInv

\* The clock moves on, or back and then it is noted.
LEMMA TimeStep ==
    ASSUME StoreInv, clock' \in Nat, jumps' \in Nat, disorder' \in BOOLEAN,
           ~disorder' => ~disorder /\ clock <= clock',
           UNCHANGED <<store, pending, calls, read, kv, config, logged>>
    PROVE  StoreInv'
<1>1. TypeOK'
  BY DEF StoreInv, TypeOK
<1>2. Stamped'
  BY DEF StoreInv, Stamped
<1>3. Stored'
  BY SameStored DEF StoreInv
<1>4. Orderly'
  <2> SUFFICES ASSUME ~disorder' PROVE Orderly'
    BY DEF Orderly
  <2>1. /\ clock \in Nat /\ clock <= clock'
        /\ \A i \in 1..Len(logged) : logged[i].stamp \in Nat
        /\ \A h \in Handlers : read[h] \in Nat
    BY KeyOfFacts DEF StoreInv, TypeOK
  <2>2. /\ \A i \in 1..Len(logged) : logged[i].stamp <= clock'
        /\ \A h \in Handlers : pending[h] # NoKey => read[h] <= clock'
    BY <2>1 DEF StoreInv, Orderly
  <2> QED
    BY <2>2 DEF StoreInv, Orderly
<1> QED
  BY <1>1, <1>2, <1>3, <1>4 DEF StoreInv

LEMMA NextStore == StoreInv /\ [Next]_vars => StoreInv'
<1> SUFFICES ASSUME StoreInv, [Next]_vars PROVE StoreInv'
  OBVIOUS
<1>0. clock \in Nat /\ jumps \in Nat /\ disorder \in BOOLEAN
  BY DEF StoreInv, TypeOK
<1>1. CASE Tick
  BY <1>0, <1>1, TimeStep DEF Tick, counts
<1>2. CASE SetBack
  BY <1>0, <1>2, TimeStep DEF SetBack
<1>3. ASSUME NEW p \in Paths, NEW v \in Texts, DbSet(p, v) PROVE StoreInv'
  BY <1>3, DbSetStep
<1>4. ASSUME NEW p \in Paths, NEW v \in Texts, ConfigSet(p, v) PROVE StoreInv'
  BY <1>4, ConfigSetStep
<1>5. ASSUME NEW p \in Paths, DbDel(p) PROVE StoreInv'
  BY <1>5, DbDelStep
<1>6. ASSUME NEW p \in Paths, ConfigDel(p) PROVE StoreInv'
  BY <1>6, ConfigDelStep
<1>7. ASSUME NEW h \in Handlers, NEW t \in Topics, LogStamp(h, t) PROVE StoreInv'
  BY <1>7, LogStampStep
<1>8. ASSUME NEW h \in Handlers, LogPut(h) PROVE StoreInv'
  BY <1>8, LogPutStep
<1>9. CASE UNCHANGED vars
  BY <1>0, <1>9, TimeStep DEF vars
<1> QED
  BY <1>1, <1>2, <1>3, <1>4, <1>5, <1>6, <1>7, <1>8, <1>9 DEF Next

\* The database has what the calls wrote, each entry under its own key, and of
\* colliding log entries the latest: always.
THEOREM StoreInvariance == Spec => []StoreInv
<1> QED
  BY InitStore, NextStore, PTL DEF Spec

-----------------------------------------------------------------------------
(* What the builtins return.                                               *)

LEMMA KvStored ==
    ASSUME StoreInv, NEW p \in Paths
    PROVE  /\ Key("kv", p) \in DOMAIN store <=> p \in DOMAIN kv
           /\ Key("config", p) \in DOMAIN store <=> p \in DOMAIN config
           /\ DOMAIN kv \subseteq Paths /\ DOMAIN config \subseteq Paths
<1>1. TypeOK /\ DOMAIN kv \subseteq Paths /\ DOMAIN config \subseteq Paths
  BY DEF StoreInv, TypeOK, Partial
<1> QED
  BY <1>1, Apart DEF StoreInv, Stored

\* Each namespace shows what was set and not deleted in it, whatever is done
\* in the others; only an empty text of config_set is not found.
THEOREM Namespaces == Spec => []NamespacesSeparate
<1>1. ASSUME StoreInv PROVE NamespacesSeparate
  <2>1. ASSUME NEW prefix \in Paths \cup {<<>>}
        PROVE  DbKeys(prefix) = {p \in DOMAIN kv : IsPrefix(prefix, p)}
    <3>0. prefix \in Seq(Nat)
      BY EmptySeq
    <3>1. /\ prefix \in Seq(Nat)
          /\ DOMAIN kv \subseteq Paths /\ DOMAIN config \subseteq Paths
          /\ DOMAIN kv \subseteq Seq(Nat) /\ DOMAIN config \subseteq Seq(Nat)
      BY <1>1, <3>0 DEF StoreInv, TypeOK, Partial
    <3>2. ASSUME NEW k \in ScanKeys(Key("kv", prefix))
          PROVE  \E p \in DOMAIN kv : k = Key("kv", p) /\ IsPrefix(prefix, p)
      <4>1. k \in DOMAIN store /\ IsPrefix(Key("kv", prefix), k)
        BY DEF ScanKeys
      <4>2. CASE \E p \in DOMAIN kv : k = Key("kv", p)
        BY <3>1, <4>1, <4>2, KeyPrefix
      <4>3. CASE \E p \in DOMAIN config : k = Key("config", p)
        BY <3>1, <4>1, <4>3, KeyPrefix
      <4>4. CASE \E i \in 1..Len(logged) : k = KeyOf(i)
        <5>1. PICK q \in Seq(Nat) : k = Key("log", q)
          BY <1>1, <4>4, KeyOfFacts DEF StoreInv
        <5> QED
          BY <3>1, <4>1, <5>1, KeyPrefix
      <4> QED
        BY <1>1, <4>1, <4>2, <4>3, <4>4 DEF StoreInv, Stored
    <3>3. ASSUME NEW p \in DOMAIN kv, IsPrefix(prefix, p)
          PROVE  Key("kv", p) \in ScanKeys(Key("kv", prefix)) /\ Tail(Key("kv", p)) = p
      BY <1>1, <3>1, <3>3, KvStored, KeyPrefix, KeyFacts DEF ScanKeys
    <3>4. ASSUME NEW k \in ScanKeys(Key("kv", prefix))
          PROVE  Tail(k) \in DOMAIN kv /\ IsPrefix(prefix, Tail(k))
      <4>1. PICK p \in DOMAIN kv : k = Key("kv", p) /\ IsPrefix(prefix, p)
        BY <3>2
      <4>2. Tail(k) = p
        BY <3>1, <4>1, KeyFacts
      <4> QED
        BY <4>1, <4>2
    <3> QED
      BY <3>3, <3>4 DEF DbKeys
  <2>2. ASSUME NEW p \in Paths
        PROVE  DbGet(p) = IF p \in DOMAIN kv THEN kv[p] ELSE Undefined
    <3>1. CASE p \in DOMAIN kv
      <4>1. store[Key("kv", p)] = Json(kv[p]) /\ kv[p] \in Texts
        BY <1>1, <3>1 DEF StoreInv, Stored, TypeOK, Partial
      <4>2. Json(kv[p]) # Empty /\ Json(kv[p])[2] = kv[p]
        BY <4>1, JsonAssumption DEF Json
      <4> QED
        BY <1>1, <3>1, <4>1, <4>2, KvStored DEF DbGet, Found
    <3>2. CASE p \notin DOMAIN kv
      BY <1>1, <3>2, KvStored DEF DbGet, Found
    <3> QED
      BY <3>1, <3>2
  <2>3. ASSUME NEW p \in Paths
        PROVE  ConfigGet(p) = IF p \in DOMAIN config /\ config[p] # Empty
                              THEN config[p] ELSE Undefined
    <3>1. CASE p \in DOMAIN config
      <4>1. store[Key("config", p)] = config[p]
        BY <1>1, <3>1 DEF StoreInv, Stored
      <4> QED
        BY <1>1, <3>1, <4>1, KvStored DEF ConfigGet, Found
    <3>2. CASE p \notin DOMAIN config
      BY <1>1, <3>2, KvStored DEF ConfigGet, Found
    <3> QED
      BY <3>1, <3>2
  <2> QED
    BY <2>1, <2>2, <2>3 DEF NamespacesSeparate
<1> QED
  BY <1>1, StoreInvariance, PTL

\* Of two keys with the same topic the order is that of their stamps.
LEMMA StampOrder ==
    ASSUME NEW t \in Seq(Nat), NEW m \in Nat, NEW n \in Nat,
           Below(LogKey(t, m), LogKey(t, n))
    PROVE  m < n
<1> DEFINE p == Append(t, m)
           q == Append(t, n)
<1>1. /\ p \in Seq(Nat) /\ Len(p) = Len(t) + 1 /\ p[Len(t) + 1] = m
      /\ q \in Seq(Nat) /\ Len(q) = Len(t) + 1 /\ q[Len(t) + 1] = n
      /\ \A i \in 1..Len(t) : p[i] = t[i] /\ q[i] = t[i] /\ t[i] \in Nat
      /\ Len(t) \in Nat
  BY AppendProperties, ElementOfSeq
<1> HIDE DEF p, q
<1>2. Before(p, q)
  BY <1>1, BelowBefore DEF LogKey, p, q
<1>3. PICK i \in 1..Len(p) : p[i] < q[i]
  BY <1>1, <1>2 DEF Before
<1>4. i \in 1..Len(t) \/ i = Len(t) + 1
  BY <1>1
<1> QED
  BY <1>1, <1>3, <1>4

\* The keys of a topic and of those that extend it.
LEMMA TopicPrefix ==
    ASSUME NEW t \in Seq(Nat), NEW u \in Seq(Nat), NEW n \in Nat
    PROVE  IsStrictPrefix(Key("log", t), LogKey(u, n)) <=> IsPrefix(t, u)
<1> DEFINE q == Append(u, n)
<1>1. /\ q \in Seq(Nat) /\ Len(q) = Len(u) + 1
      /\ \A i \in 1..Len(u) : q[i] = u[i]
      /\ Len(u) \in Nat /\ Len(t) \in Nat
  BY AppendProperties
<1> HIDE DEF q
<1>2. IsStrictPrefix(Key("log", t), LogKey(u, n)) <=> IsStrictPrefix(t, q)
  BY <1>1, KeyPrefix DEF LogKey, q
<1>3. IsStrictPrefix(t, q) <=> Len(t) < Len(q) /\ Agree(t, q, Len(t))
  BY <1>1, PrefixAgrees
<1>4. IsPrefix(t, u) <=> Len(t) <= Len(u) /\ Agree(t, u, Len(t))
  BY PrefixAgrees
<1>5. Len(t) < Len(q) <=> Len(t) <= Len(u)
  BY <1>1
<1>6. Len(t) <= Len(u) => (Agree(t, q, Len(t)) <=> Agree(t, u, Len(t)))
  <2>1. Len(t) <= Len(u) => \A i \in 1..Len(t) : i \in 1..Len(u)
    BY <1>1
  <2> QED
    BY <1>1, <2>1 DEF Agree
<1> QED
  BY <1>2, <1>3, <1>4, <1>5, <1>6

\* What db_logs goes through: the keys of the topic's entries, each of which
\* has the number of the latest entry with that key.
LEMMA TopicKeys ==
    ASSUME StoreInv, NEW t \in Topics
    PROVE  LET K == Under(Key("log", t))
           IN  /\ Ordered(K)
               /\ \A k \in K : /\ store[k] \in 1..Len(logged)
                               /\ KeyOf(store[k]) = k
               /\ \A i \in Own(t) : KeyOf(i) \in K /\ i <= store[KeyOf(i)]
<1> DEFINE K == Under(Key("log", t))
           N == 1..Len(logged)
<1>0. TypeOK /\ t \in Seq(Nat) /\ Len(logged) \in Nat
  BY DEF StoreInv, TypeOK
<1>1. ASSUME NEW k \in K PROVE \E i \in N : k = KeyOf(i)
  <2>1. k \in DOMAIN store /\ IsStrictPrefix(Key("log", t), k)
    BY DEF Under
  <2>2. \A q \in Paths : k # Key("kv", q) /\ k # Key("config", q)
    BY <1>0, <2>1, KeyPrefix
  <2>3. DOMAIN kv \subseteq Paths /\ DOMAIN config \subseteq Paths
    BY KvStored DEF StoreInv, TypeOK, Partial
  <2> QED
    BY <2>1, <2>2, <2>3 DEF StoreInv, Stored
<1>2. ASSUME NEW k \in K PROVE store[k] \in N /\ KeyOf(store[k]) = k
  <2>1. PICK i \in N : k = KeyOf(i)
    BY <1>1
  <2>2. store[k] \in i..Len(logged) /\ KeyOf(store[k]) = k
    BY <2>1 DEF StoreInv, Stored
  <2> QED
    BY <1>0, <2>2
<1>3. IsFiniteSet(K)
  <2> DEFINE number == [k \in K |-> store[k]]
  <2>1. number \in [K -> N]
    BY <1>2
  <2>2. \A j, k \in K : number[j] = number[k] => j = k
    BY <1>2
  <2>3. number \in Injection(K, N)
    BY <2>1, <2>2, Fun_IsInj
  <2>4. IsFiniteSet(N)
    BY <1>0, FS_Interval
  <2> QED
    BY <2>3, <2>4, FS_Injection
<1>4. \A k \in K : \E q \in Seq(Nat) : k = Key("log", q)
  <2> SUFFICES ASSUME NEW k \in K PROVE \E q \in Seq(Nat) : k = Key("log", q)
    OBVIOUS
  <2>1. PICK i \in N : k = KeyOf(i)
    BY <1>1
  <2> QED
    BY <1>0, <2>1, KeyOfFacts
<1>5. Ordered(K)
  BY <1>3, <1>4, NamespaceOrdered
<1>6. ASSUME NEW i \in Own(t) PROVE KeyOf(i) \in K /\ i <= store[KeyOf(i)]
  <2>1. i \in N /\ logged[i].topic = t
    BY DEF Own
  <2>2. KeyOf(i) = LogKey(t, logged[i].stamp) /\ logged[i].stamp \in Nat
    BY <1>0, <2>1, KeyOfFacts DEF KeyOf
  <2>3. IsPrefix(t, t)
    BY <1>0, PrefixAgrees DEF Agree
  <2>4. KeyOf(i) \in DOMAIN store /\ store[KeyOf(i)] \in i..Len(logged)
    BY <2>1 DEF StoreInv, Stored
  <2> QED
    BY <1>0, <2>1, <2>2, <2>3, <2>4, TopicPrefix DEF Under
<1> QED
  BY <1>2, <1>5, <1>6

\* The entries db_logs returns, of which the limit is the number, if it is one.
LEMMA LogsReturned ==
    ASSUME StoreInv, NEW t \in Topics, NEW limit \in Nat
    PROVE  LET B == Backwards(Under(Key("log", t)))
               n == Cardinality(Under(Key("log", t)))
               r == DbLogs(t, limit)
           IN  /\ DOMAIN r = 1..Len(r)
               /\ Len(r) = IF limit \in 1..n THEN limit ELSE n
               /\ n \in Nat
               /\ \A i \in 1..Len(r) : r[i] = store[B[i]]
<1> DEFINE K == Under(Key("log", t))
           B == Backwards(K)
           n == Cardinality(K)
           ks == ScanReverse(Key("log", t), limit)
           m == IF limit \in 1..n THEN limit ELSE n
           r == DbLogs(t, limit)
           N == 1..Len(logged)
<1>1. B \in Seq(K) /\ Len(B) = n /\ n \in Nat /\ \A i \in 1..n : B[i] \in K
  BY TopicKeys, Ranking
<1>2. \A k \in K : store[k] \in N
  BY TopicKeys
<1>3. ks = IF limit > 0 /\ limit < Len(B) THEN SubSeq(B, 1, limit) ELSE B
  BY DEF ScanReverse
<1>4. r = [i \in 1..Len(ks) |-> store[ks[i]]]
  BY DEF DbLogs
<1> HIDE DEF K, B, ks, r
<1>5. m \in Nat /\ m <= n
  BY <1>1
<1>6. Len(ks) = m /\ \A i \in 1..m : ks[i] = B[i]
  <2>1. CASE limit > 0 /\ limit < n
    <3>1. \A i \in 1..limit : B[i] \in K
      BY <1>1, <2>1
    <3>2. /\ Len(SubSeq(B, 1, limit)) = limit
          /\ \A i \in 1..limit : SubSeq(B, 1, limit)[i] = B[i]
      BY <2>1, <3>1, SubSeqProperties
    <3> QED
      BY <1>1, <1>3, <2>1, <3>2
  <2>2. CASE ~(limit > 0 /\ limit < n)
    BY <1>1, <1>3, <2>2
  <2> QED
    BY <2>1, <2>2
<1> HIDE DEF m
<1>7. r = [i \in 1..m |-> store[B[i]]]
  BY <1>4, <1>6
<1>8. r \in [1..m -> N]
  BY <1>1, <1>2, <1>5, <1>7
<1>9. r \in Seq(N) /\ DOMAIN r = 1..m
  BY <1>5, <1>8, SeqDef
<1>10. Len(r) = m
  BY <1>5, <1>9, LenProperties
<1> QED
  BY <1>1, <1>7, <1>9, <1>10 DEF K, B, r, m

\* Of the entries of the topic itself the latest of each key are found.
LEMMA KeptStored ==
    ASSUME StoreInv, NEW t \in Topics
    PROVE  {store[k] : k \in Under(Key("log", t))} \cap Own(t) = Kept(t)
<1> DEFINE K == Under(Key("log", t))
<1>0. TypeOK /\ \A i \in Own(t) : i \in 1..Len(logged) /\ logged[i].topic = t
  BY DEF StoreInv, Own
<1>1. ASSUME NEW k \in K, store[k] \in Own(t) PROVE store[k] \in Kept(t)
  <2>1. KeyOf(store[k]) = k
    BY TopicKeys
  <2>2. ASSUME NEW j \in Own(t), logged[j].stamp = logged[store[k]].stamp
        PROVE  ~(j > store[k])
    <3>1. KeyOf(j) = k
      BY <1>0, <1>1, <2>1, <2>2 DEF KeyOf
    <3>2. j <= store[k]
      BY <3>1, TopicKeys
    <3> QED
      BY <1>0, <1>1, <3>2
  <2> QED
    BY <1>1, <2>2 DEF Kept
<1>2. ASSUME NEW i \in Kept(t) PROVE KeyOf(i) \in K /\ i = store[KeyOf(i)]
  <2>1. i \in Own(t)
    BY DEF Kept
  <2> DEFINE j == store[KeyOf(i)]
  <2>2. KeyOf(i) \in K /\ i <= j /\ j \in 1..Len(logged) /\ KeyOf(j) = KeyOf(i)
    BY <2>1, TopicKeys
  <2> HIDE DEF j
  <2>3. logged[j].topic = logged[i].topic /\ logged[j].stamp = logged[i].stamp
    BY <1>0, <2>1, <2>2, KeyOfFacts, LogKeyInjective DEF KeyOf
  <2>4. j \in Own(t)
    BY <1>0, <2>1, <2>2, <2>3 DEF Own
  <2>5. ~(j > i)
    BY <2>3, <2>4 DEF Kept
  <2>6. i = j
    BY <1>0, <2>1, <2>2, <2>5
  <2> QED
    BY <2>2, <2>6 DEF j
<1>3. Kept(t) \subseteq Own(t)
  BY DEF Kept
<1> QED
  BY <1>1, <1>2, <1>3

\* The entries under the prefix of a topic are those of the topic and of the
\* topics that extend it.
LEMMA KeptUnder ==
    ASSUME StoreInv, NEW t \in Topics
    PROVE  {store[k] : k \in Under(Key("log", t))}
               = UNION {Kept(u) : u \in {v \in Topics : IsPrefix(t, v)}}
<1> DEFINE K == Under(Key("log", t))
           U == {v \in Topics : IsPrefix(t, v)}
<1>0. TypeOK /\ t \in Seq(Nat) /\ \A u \in Topics : u \in Seq(Nat)
  BY KeysAssumption DEF StoreInv
<1>1. ASSUME NEW k \in K PROVE \E u \in U : store[k] \in Kept(u)
  <2> DEFINE i == store[k]
             u == logged[i].topic
  <2>1. i \in 1..Len(logged) /\ KeyOf(i) = k
    BY TopicKeys
  <2>2. u \in Topics /\ logged[i].stamp \in Nat
    BY <1>0, <2>1, KeyOfFacts
  <2>3. k \in DOMAIN store /\ IsStrictPrefix(Key("log", t), k)
    BY DEF Under
  <2>4. IsPrefix(t, u)
    BY <1>0, <2>1, <2>2, <2>3, TopicPrefix DEF KeyOf
  <2>5. i \in Own(u)
    BY <2>1 DEF Own
  <2>6. k \in Under(Key("log", u))
    BY <2>1, <2>2, <2>5, TopicKeys
  <2> HIDE DEF u
  <2>7. i \in Kept(u)
    BY <2>2, <2>5, <2>6, KeptStored
  <2> QED
    BY <2>2, <2>4, <2>7
<1>2. ASSUME NEW u \in U, NEW i \in Kept(u) PROVE \E k \in K : i = store[k]
  <2>1. PICK k \in Under(Key("log", u)) : i = store[k]
    BY KeptStored
  <2>2. i \in Own(u) /\ i \in 1..Len(logged) /\ logged[i].topic = u
    BY DEF Kept, Own
  <2>3. k \in DOMAIN store /\ KeyOf(i) = k /\ logged[i].stamp \in Nat
    BY <1>0, <2>1, <2>2, TopicKeys, KeyOfFacts DEF Under
  <2>4. IsStrictPrefix(Key("log", t), k)
    BY <1>0, <2>2, <2>3, TopicPrefix DEF KeyOf
  <2> QED
    BY <2>1, <2>3, <2>4 DEF Under
<1> QED
  BY <1>1, <1>2

\* db_logs without a limit returns every entry of the topic and of those that
\* extend it once, but those that a later one replaced because it had the same
\* stamp.
THEOREM OnlyCollisions == Spec => []OnlyCollisionsLose
<1>1. ASSUME StoreInv, NEW t \in Topics
      PROVE  /\ ToSet(DbLogs(t, 0))
                = UNION {Kept(u) : u \in {v \in Topics : IsPrefix(t, v)}}
             /\ \A i, j \in 1..Len(DbLogs(t, 0)) :
                   DbLogs(t, 0)[i] = DbLogs(t, 0)[j] => i = j
  <2> DEFINE K == Under(Key("log", t))
             B == Backwards(K)
             n == Cardinality(K)
             r == DbLogs(t, 0)
  <2>1. /\ n \in Nat
        /\ \A i \in 1..n : B[i] \in K
        /\ \A k \in K : \E i \in 1..n : B[i] = k
        /\ \A i, j \in 1..n : i < j => Below(B[j], B[i])
    BY <1>1, TopicKeys, Ranking
  <2>2. /\ DOMAIN r = 1..n /\ Len(r) = n
        /\ \A i \in 1..n : r[i] = store[B[i]]
    <3>1. 0 \in Nat /\ 0 \notin 1..n
      OBVIOUS
    <3> QED
      BY <1>1, <3>1, LogsReturned
  <2>3. \A k \in K : ~Below(k, k) /\ KeyOf(store[k]) = k
    BY <1>1, TopicKeys DEF Ordered
  <2> HIDE DEF K, B, n, r
  <2>4. ToSet(r) = {store[k] : k \in K}
    <3>1. ToSet(r) = {store[B[i]] : i \in 1..n}
      BY <2>2 DEF ToSet
    <3> QED
      BY <2>1, <3>1
  <2>5. ASSUME NEW i \in 1..n, NEW j \in 1..n, r[i] = r[j] PROVE i = j
    <3>1. B[i] = B[j]
      BY <2>1, <2>2, <2>3, <2>5
    <3>2. ~(i < j) /\ ~(j < i)
      BY <2>1, <2>3, <3>1
    <3> QED
      BY <2>1, <3>2
  <2>6. ToSet(r) = UNION {Kept(u) : u \in {v \in Topics : IsPrefix(t, v)}}
    BY <1>1, <2>4, KeptUnder DEF K
  <2> QED
    BY <2>2, <2>5, <2>6 DEF r
<1>2. StoreInv => OnlyCollisionsLose
  BY <1>1 DEF OnlyCollisionsLose
<1> QED
  BY <1>2, StoreInvariance, PTL

\* While calls come one by one and the clock is not set back, the keys of a
\* topic that no other one extends are in the order of its entries.
LEMMA InOrder ==
    ASSUME StoreInv, ~disorder, NEW t \in Topics, Exclusive(t),
           NEW j \in Under(Key("log", t)), NEW k \in Under(Key("log", t)),
           Below(j, k)
    PROVE  store[j] < store[k]
<1> DEFINE K == Under(Key("log", t))
           N == 1..Len(logged)
           a == store[j]
           b == store[k]
<1>0. TypeOK /\ t \in Seq(Nat) /\ Len(logged) \in Nat
  BY DEF StoreInv, TypeOK
<1>1. a \in N /\ b \in N /\ KeyOf(a) = j /\ KeyOf(b) = k
  BY TopicKeys
<1>2. ASSUME NEW i \in N, KeyOf(i) \in K
      PROVE  KeyOf(i) = LogKey(t, logged[i].stamp) /\ logged[i].stamp \in Nat
  <2>1. /\ logged[i].topic \in Topics /\ logged[i].topic \in Seq(Nat)
        /\ logged[i].stamp \in Nat
    BY <1>0, KeyOfFacts
  <2>2. IsPrefix(t, logged[i].topic)
    BY <1>0, <1>2, <2>1, TopicPrefix DEF Under, KeyOf
  <2>3. t = logged[i].topic
    BY <2>1, <2>2 DEF Exclusive, IsStrictPrefix
  <2> QED
    BY <2>1, <2>3 DEF KeyOf
<1> HIDE DEF a, b
<1>3. logged[a].stamp < logged[b].stamp
  BY <1>0, <1>1, <1>2, StampOrder
<1>4. logged[a].stamp \in Nat /\ logged[b].stamp \in Nat
  BY <1>1, <1>2
<1>5. b < a => logged[b].stamp <= logged[a].stamp
  BY <1>1 DEF StoreInv, Orderly
<1> QED
  BY <1>0, <1>1, <1>3, <1>4, <1>5 DEF a, b

\* db_logs returns the newest entries of such a topic, newest first.
THEOREM NewestFirst == Spec => []LogsNewestFirst
<1>1. ASSUME StoreInv, ~disorder, NEW t \in Topics, Exclusive(t), NEW limit \in Nat
      PROVE  LET r == DbLogs(t, limit)
                 c == Cardinality(Kept(t))
             IN  /\ Len(r) = IF limit \in 1..c THEN limit ELSE c
                 /\ \A i, j \in 1..Len(r) : i < j => r[i] > r[j]
                 /\ \A i \in Kept(t) \ ToSet(r) : \A j \in ToSet(r) : i < j
  <2> DEFINE K == Under(Key("log", t))
             B == Backwards(K)
             n == Cardinality(K)
             r == DbLogs(t, limit)
             m == Len(r)
  <2>1. /\ n \in Nat
        /\ \A i \in 1..n : B[i] \in K
        /\ \A k \in K : \E i \in 1..n : B[i] = k
        /\ \A i, j \in 1..n : i < j => Below(B[j], B[i])
    BY <1>1, TopicKeys, Ranking
  <2>2. /\ DOMAIN r = 1..m
        /\ m = IF limit \in 1..n THEN limit ELSE n
        /\ \A i \in 1..m : r[i] = store[B[i]]
    BY <1>1, LogsReturned
  <2>3. \A k \in K : store[k] \in 1..Len(logged) /\ KeyOf(store[k]) = k
    BY <1>1, TopicKeys
  <2>4. \A j, k \in K : Below(j, k) => store[j] < store[k]
    BY <1>1, InOrder
  <2>5. Kept(t) = {store[k] : k \in K} /\ Cardinality(Kept(t)) = n
    <3>1. ASSUME NEW k \in K PROVE store[k] \in Own(t)
      <4>1. /\ KeyOf(store[k]) = k /\ store[k] \in 1..Len(logged)
            /\ IsStrictPrefix(Key("log", t), k)
        BY <2>3 DEF Under
      <4>2. /\ TypeOK /\ t \in Seq(Nat)
        BY <1>1 DEF StoreInv
      <4> DEFINE i == store[k]
      <4>3. /\ logged[i].topic \in Topics /\ logged[i].topic \in Seq(Nat)
            /\ logged[i].stamp \in Nat
        BY <4>1, <4>2, KeyOfFacts
      <4>4. IsPrefix(t, logged[i].topic)
        BY <4>1, <4>2, <4>3, TopicPrefix DEF KeyOf
      <4>5. t = logged[i].topic
        BY <1>1, <4>3, <4>4 DEF Exclusive, IsStrictPrefix
      <4> QED
        BY <4>1, <4>5 DEF Own
    <3>2. Kept(t) = {store[k] : k \in K}
      <4>1. {store[k] : k \in K} \subseteq Own(t)
        BY <3>1
      <4>2. {store[k] : k \in K} \cap Own(t) = Kept(t)
        BY <1>1, KeptStored
      <4> QED
        BY <4>1, <4>2
    <3> DEFINE number == [k \in K |-> store[k]]
    <3>3. number \in [K -> Kept(t)] /\ \A j, k \in K : number[j] = number[k] => j = k
      BY <2>3, <3>2
    <3>4. \A i \in Kept(t) : \E k \in K : number[k] = i
      BY <3>2
    <3>5. number \in Bijection(K, Kept(t))
      BY <3>3, <3>4 DEF Bijection, Injection, Surjection, IsInjective
    <3>6. IsFiniteSet(K)
      BY <1>1, TopicKeys DEF Ordered
    <3> HIDE DEF K, number
    <3>7. ExistsBijection(K, Kept(t))
      BY <3>5 DEF ExistsBijection
    <3>8. Cardinality(Kept(t)) = Cardinality(K)
      BY <3>6, <3>7, FS_Bijection
    <3> QED
      BY <3>2, <3>8
  <2> HIDE DEF K, B, n, r, m
  <2>6. m \in Nat /\ m <= n
    BY <2>1, <2>2
  <2>7. ASSUME NEW i \in 1..n, NEW j \in 1..n, i < j
        PROVE  store[B[j]] < store[B[i]]
    BY <2>1, <2>4, <2>7
  <2>8. ASSUME NEW i \in 1..m, NEW j \in 1..m, i < j PROVE r[i] > r[j]
    <3>1. i \in 1..n /\ j \in 1..n
      BY <2>1, <2>6
    <3>2. store[B[i]] \in Nat /\ store[B[j]] \in Nat
      BY <2>1, <2>3, <3>1
    <3> QED
      BY <2>2, <2>7, <2>8, <3>1, <3>2
  <2>9. ASSUME NEW i \in Kept(t) \ ToSet(r), NEW j \in ToSet(r) PROVE i < j
    <3>1. PICK y \in 1..m : j = r[y]
      BY <2>2 DEF ToSet
    <3>2. PICK x \in 1..n : i = store[B[x]]
      BY <2>1, <2>5
    <3>3. x \notin 1..m
      BY <2>2, <2>9, <3>2 DEF ToSet
    <3>4. y \in 1..n /\ y < x
      BY <2>1, <2>6, <3>3
    <3> QED
      BY <2>2, <2>7, <3>1, <3>2, <3>4
  <2> QED
    BY <2>2, <2>5, <2>8, <2>9 DEF r, m
<1>2. StoreInv => LogsNewestFirst
  BY <1>1 DEF LogsNewestFirst
<1> QED
  BY <1>2, StoreInvariance, PTL
==============================================================================
