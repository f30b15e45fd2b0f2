---------------------------- MODULE Panel_proofs ----------------------------
(***************************************************************************)
(* The refreshes of the panel, and that there is a process to start when   *)
(* one is started, for every number of keys and crashes.                   *)
(***************************************************************************)
EXTENDS Panel, FiniteSetTheorems, FunctionTheorems, NaturalsInduction,
        SequenceTheorems, WellFoundedInduction, TLAPS

-----------------------------------------------------------------------------
(* The inductive invariant.                                                *)

\* A key starts one command at most, or one more refresh.
KeysSpent == extra + Len(jobs) <= keys

\* systemd knows its server: the unit is active as long as that one lives.
UnitFollowsServer ==
    /\ service = 0 => /\ unit = "inactive"
                      /\ \A i \in 1..Len(jobs) : jobs[i].do # "restart unit"
    /\ service # 0 => /\ proc[service] # "none"
                      /\ unit = "active" <=> service \in Living

\* Processes not started yet, and what may still start one: a key or a command
\* starts one, which may get the database before the unit's server, so that
\* this one fails, and a crash is followed by a restart.
Unused == {p \in Pids : proc[p] = "none"}
StartersIn(q) == {i \in 1..Len(q) : q[i].do \in Starters}
Rivals == {p \in Pids : service # 0 /\ p # service /\ proc[p] = "starting"}
Failing ==
    \/ unit = "activating"
    \/ unit = "active" /\ proc[service] = "starting" /\ Locked # {}
Starts == Cardinality(StartersIn(jobs))
Contests == Cardinality(Rivals)
Repairs == IF Failing THEN 1 ELSE 0
Due == 2 * Starts + Contests + Repairs
Left == 2 * (MaxKeys - keys) + (MaxCrashes - crashes)
Free == Cardinality(Unused)
Affords == Due + Left <= Free

PanelInv ==
    /\ TypeOK
    /\ RefreshChains
    /\ KeysSpent
    /\ UnitFollowsServer
    /\ Affords

-----------------------------------------------------------------------------
-----------------------------------------------------------------------------
(* Sets of processes and sequences of commands.                            *)

LEMMA Least ==
    ASSUME NEW T \in SUBSET Nat, T # {}
    PROVE  Min(T) \in T
<1>1. IsWellFoundedOn(OpToRel(<, Nat), Nat)
  BY NatLessThanWellFounded
<1>2. PICK n \in T : \A m \in T : ~(<<m, n>> \in OpToRel(<, Nat))
  BY <1>1, WFMin
<1>3. ASSUME NEW m \in T PROVE ~(m < n)
  <2>1. m \in Nat /\ n \in Nat /\ (m < n => <<m, n>> \in OpToRel(<, Nat))
    BY DEF OpToRel
  <2> QED  BY <1>2, <2>1
<1>4. \A m \in T : n <= m
  BY <1>3
<1> QED  BY <1>4 DEF Min

LEMMA PidFacts ==
    /\ Pids \subseteq Nat
    /\ 0 \notin Pids
    /\ 1 \in Pids
    /\ IsFiniteSet(Pids)
    /\ Cardinality(Pids) = 2 * MaxKeys + MaxCrashes + 1
<1>1. 2 * MaxKeys + MaxCrashes + 1 \in Nat \ {0}
  BY BoundsAssumption
<1> QED  BY <1>1, FS_Interval, SMTT(30) DEF Pids

LEMMA Counted ==
    ASSUME NEW S \in SUBSET Pids
    PROVE  IsFiniteSet(S) /\ Cardinality(S) \in Nat
BY PidFacts, FS_Subset, FS_CardinalityType

LEMMA StartersCounted ==
    ASSUME NEW q \in Seq(Commands)
    PROVE  IsFiniteSet(StartersIn(q)) /\ Cardinality(StartersIn(q)) \in Nat
<1>1. IsFiniteSet(1..Len(q))
  BY FS_Interval
<1>2. StartersIn(q) \subseteq 1..Len(q)
  BY DEF StartersIn
<1> QED  BY <1>1, <1>2, FS_Subset, FS_CardinalityType

\* A key puts a command at the end.
LEMMA Appended ==
    ASSUME NEW q \in Seq(Commands), NEW c \in Commands
    PROVE  /\ Append(q, c) \in Seq(Commands)
           /\ Len(Append(q, c)) = Len(q) + 1
           /\ \A i \in 1..Len(q) : Append(q, c)[i] = q[i]
           /\ Append(q, c)[Len(q) + 1] = c
           /\ Cardinality(StartersIn(Append(q, c)))
                 <= Cardinality(StartersIn(q)) + 1
<1>1. /\ Append(q, c) \in Seq(Commands)
      /\ Len(Append(q, c)) = Len(q) + 1
      /\ \A i \in 1..Len(q) : Append(q, c)[i] = q[i]
      /\ Append(q, c)[Len(q) + 1] = c
  OBVIOUS
<1>2. StartersIn(Append(q, c)) \subseteq StartersIn(q) \cup {Len(q) + 1}
  BY <1>1 DEF StartersIn
<1>3. /\ IsFiniteSet(StartersIn(q) \cup {Len(q) + 1})
      /\ Cardinality(StartersIn(q) \cup {Len(q) + 1})
            <= Cardinality(StartersIn(q)) + 1
  <2>1. /\ IsFiniteSet(StartersIn(q))
        /\ Cardinality(StartersIn(q)) \in Nat
    BY StartersCounted
  <2>2. /\ IsFiniteSet(StartersIn(q) \cup {Len(q) + 1})
        /\ Cardinality(StartersIn(q) \cup {Len(q) + 1})
             = IF Len(q) + 1 \in StartersIn(q)
               THEN Cardinality(StartersIn(q))
               ELSE Cardinality(StartersIn(q)) + 1
    BY <2>1, FS_AddElement, Zenon
  <2> QED  BY <2>1, <2>2
<1>4. /\ Cardinality(StartersIn(Append(q, c)))
            <= Cardinality(StartersIn(q) \cup {Len(q) + 1})
      /\ Cardinality(StartersIn(q) \cup {Len(q) + 1}) \in Nat
  BY <1>2, <1>3, FS_Subset, FS_CardinalityType
<1>5. Cardinality(StartersIn(Append(q, c))) <= Cardinality(StartersIn(q)) + 1
  <2>1. /\ Cardinality(StartersIn(q)) \in Nat
        /\ Cardinality(StartersIn(Append(q, c))) \in Nat
    BY <1>1, StartersCounted
  <2> QED  BY <1>3, <1>4, <2>1
<1> QED  BY <1>1, <1>5

\* A command moves on.
With(q, i, what) == [q EXCEPT ![i].do = what]

LEMMA Changed ==
    ASSUME NEW q \in Seq(Commands), NEW i \in 1..Len(q),
           NEW what \in Starters \cup {"stop", "build", "done"}
    PROVE  /\ With(q, i, what) \in Seq(Commands)
           /\ Len(With(q, i, what)) = Len(q)
           /\ \A j \in 1..Len(q) :
                 With(q, i, what)[j].do = IF j = i THEN what ELSE q[j].do
           /\ StartersIn(With(q, i, what))
                 = IF what \in Starters THEN StartersIn(q) \cup {i}
                                        ELSE StartersIn(q) \ {i}
<1> DEFINE r == With(q, i, what)
<1>1. q[i] \in Commands /\ [q[i] EXCEPT !.do = what] \in Commands
  <2>1. q[i] \in Commands
    OBVIOUS
  <2>2. ASSUME NEW c \in Commands
        PROVE  [c EXCEPT !.do = what] \in Commands
    BY DEF Commands
  <2> QED  BY <2>1, <2>2
<1>2. /\ r \in Seq(Commands)
      /\ Len(r) = Len(q)
      /\ \A j \in 1..Len(q) :
            r[j] = IF j = i THEN [q[i] EXCEPT !.do = what] ELSE q[j]
  BY <1>1 DEF With
<1> HIDE DEF r
<1>3. [q[i] EXCEPT !.do = what].do = what
  BY <1>1 DEF Commands
<1>4. \A j \in 1..Len(q) : r[j].do = IF j = i THEN what ELSE q[j].do
  BY <1>2, <1>3
<1>5. StartersIn(r) = IF what \in Starters THEN StartersIn(q) \cup {i}
                                          ELSE StartersIn(q) \ {i}
  BY <1>2, <1>4 DEF StartersIn
<1> QED  BY <1>2, <1>4, <1>5, Zenon DEF r

\* A message is taken out.
LEMMA Removed ==
    ASSUME NEW T, NEW q \in Seq(T), NEW i \in 1..Len(q)
    PROVE  /\ RemoveAt(q, i) \in Seq(T)
           /\ Len(RemoveAt(q, i)) = Len(q) - 1
           /\ \A j \in 1..Len(RemoveAt(q, i)) :
                 RemoveAt(q, i)[j] = q[IF j < i THEN j ELSE j + 1]
<1> DEFINE a == SubSeq(q, 1, i - 1)
           b == SubSeq(q, i + 1, Len(q))
<1>1. /\ a \in Seq(T) /\ Len(a) = i - 1
      /\ \A j \in 1..(i - 1) : a[j] = q[j]
  OBVIOUS
<1>2. /\ b \in Seq(T) /\ Len(b) = Len(q) - i
      /\ \A j \in 1..(Len(q) - i) : b[j] = q[i + j]
  OBVIOUS
<1>3. RemoveAt(q, i) = a \o b
  BY DEF RemoveAt
<1> HIDE DEF a, b
<1>4. /\ a \o b \in Seq(T) /\ Len(a \o b) = Len(q) - 1
      /\ \A j \in 1..(Len(q) - 1) :
            (a \o b)[j] = IF j < i THEN a[j] ELSE b[j - (i - 1)]
  <2>1. /\ Len(a) + Len(b) = Len(q) - 1
        /\ \A j \in 1..(Len(q) - 1) : j < i <=> j <= Len(a)
    BY <1>1, <1>2
  <2>2. /\ a \o b \in Seq(T) /\ Len(a \o b) = Len(a) + Len(b)
        /\ \A j \in 1..(Len(a) + Len(b)) :
              (a \o b)[j] = IF j <= Len(a) THEN a[j] ELSE b[j - Len(a)]
    BY <1>1, <1>2, ConcatProperties
  <2> QED  BY <1>1, <2>1, <2>2
<1>5. ASSUME NEW j \in 1..(Len(q) - 1)
      PROVE  (a \o b)[j] = q[IF j < i THEN j ELSE j + 1]
  <2>1. CASE j < i
    BY <1>1, <1>4, <2>1
  <2>2. CASE ~(j < i)
    <3>1. j - (i - 1) \in 1..(Len(q) - i) /\ i + (j - (i - 1)) = j + 1
      BY <2>2
    <3> QED  BY <1>2, <1>4, <2>2, <3>1
  <2> QED  BY <2>1, <2>2
<1> QED  BY <1>3, <1>4, <1>5

LEMMA StartersRemoved ==
    ASSUME NEW q \in Seq(Commands), NEW i \in 1..Len(q)
    PROVE  Cardinality(StartersIn(RemoveAt(q, i)))
              <= Cardinality(StartersIn(q))
<1> DEFINE r == RemoveAt(q, i)
           f == [j \in StartersIn(r) |-> IF j < i THEN j ELSE j + 1]
<1>1. /\ Len(r) = Len(q) - 1
      /\ \A j \in 1..Len(r) : r[j] = q[IF j < i THEN j ELSE j + 1]
  BY Removed
<1> HIDE DEF r
<1>2. f \in [StartersIn(r) -> StartersIn(q)]
  <2>1. ASSUME NEW j \in StartersIn(r)
        PROVE  (IF j < i THEN j ELSE j + 1) \in StartersIn(q)
    <3>1. j \in 1..(Len(q) - 1) /\ r[j].do \in Starters
      BY <1>1 DEF StartersIn
    <3>2. (IF j < i THEN j ELSE j + 1) \in 1..Len(q)
      BY <3>1
    <3> QED  BY <1>1, <3>1, <3>2 DEF StartersIn
  <2> QED  BY <2>1
<1>3. \A j, k \in StartersIn(r) : f[j] = f[k] => j = k
  BY DEF StartersIn
<1> HIDE DEF f
<1>4. f \in Injection(StartersIn(r), StartersIn(q))
  BY <1>2, <1>3, Fun_IsInj
<1> QED  BY <1>4, StartersCounted, FS_Injection DEF r

-----------------------------------------------------------------------------
(* Processes.                                                              *)

Starting == {p \in Pids : proc[p] = "starting"}

\* What a step of processes keeps: the unit is active as long as its server
\* lives, and a process that has been started stays so.
Follows ==
    /\ service = 0 => unit = "inactive"
    /\ service # 0 => /\ proc[service] # "none"
                      /\ unit = "active" <=> service \in Living

LEMMA FreshFacts ==
    ASSUME TypeOK, Unused # {}
    PROVE  /\ Fresh \in Pids
           /\ proc[Fresh] = "none"
<1>1. Unused \in SUBSET Nat
  BY PidFacts DEF Unused
<1>2. Fresh \in Unused
  BY <1>1, Least DEF Fresh, Unused
<1> QED  BY <1>2 DEF Unused

LEMMA SpawnFacts ==
    ASSUME TypeOK, NEW p \in Pids, proc[p] = "none", Spawn(p)
    PROVE  /\ proc' \in [Pids -> {"none", "starting", "up", "exiting",
                                  "zombie", "gone"}]
           /\ Unused' = Unused \ {p}
           /\ Starting' = Starting \cup {p}
           /\ Locked' = Locked
           /\ Living' = Living \cup {p}
           /\ proc'[p] = "starting"
           /\ \A r \in Pids : r # p => proc'[r] = proc[r]
BY DEF TypeOK, ProcessTypeOK, Spawn, Unused, Starting, Locked, Living

LEMMA KillFacts ==
    ASSUME TypeOK, Follows, NEW S, Kill(S), UNCHANGED service
    PROVE  /\ proc' \in [Pids -> {"none", "starting", "up", "exiting",
                                  "zombie", "gone"}]
           /\ unit' \in {"inactive", "active", "activating"}
           /\ Unused' = Unused
           /\ Starting' \subseteq Starting
           /\ Locked' = Locked
           /\ unit' = "activating" => unit = "activating"
           /\ unit' = "active" => unit = "active"
           /\ Follows'
<1>1. proc' = [p \in Pids |-> IF p \in S THEN Killed(p) ELSE proc[p]]
  BY DEF Kill
<1>2. \A p \in Pids :
         /\ Killed(p) \in {"none", "starting", "up", "exiting", "zombie", "gone"}
         /\ Killed(p) = "none" <=> proc[p] = "none"
         /\ Killed(p) # "starting"
         /\ Killed(p) \in {"up", "exiting"} <=> proc[p] \in {"up", "exiting"}
  BY DEF TypeOK, ProcessTypeOK, Killed, Ended
<1>3. proc' \in [Pids -> {"none", "starting", "up", "exiting", "zombie", "gone"}]
  BY <1>1, <1>2 DEF TypeOK, ProcessTypeOK
<1>4. /\ Unused' = Unused
      /\ Starting' \subseteq Starting
      /\ Locked' = Locked
  BY <1>1, <1>2 DEF Unused, Starting, Locked
<1>5. unit' = IF unit = "active" /\ service \in S /\ proc[service] = "starting"
              THEN "inactive" ELSE unit
  BY DEF Kill
<1>6. Follows'
  <2>1. CASE service = 0
    BY <1>5, <2>1 DEF Follows
  <2>2. CASE service # 0
    <3>1. service \in Pids
      BY <2>2 DEF TypeOK, ProcessTypeOK
    <3>2. proc'[service] = IF service \in S THEN Killed(service)
                                            ELSE proc[service]
      BY <1>1, <3>1
    <3>3. Killed(service) \in {"starting", "up", "exiting"}
             <=> proc[service] \in {"up", "exiting"}
      BY <1>2, <3>1
    <3> QED  BY <1>2, <1>5, <2>2, <3>1, <3>2, <3>3 DEF Follows, Living
  <2> QED  BY <2>1, <2>2
<1> QED  BY <1>3, <1>4, <1>5, <1>6 DEF TypeOK, ProcessTypeOK

LEMMA EndFacts ==
    ASSUME TypeOK, Follows, NEW p \in Living, NEW clean \in BOOLEAN,
           End(p, clean), UNCHANGED service
    PROVE  /\ proc' \in [Pids -> {"none", "starting", "up", "exiting",
                                  "zombie", "gone"}]
           /\ unit' = IF p # service THEN unit
                      ELSE IF clean THEN "inactive" ELSE "activating"
           /\ Unused' = Unused
           /\ Starting' = Starting \ {p}
           /\ Locked' = Locked \ {p}
           /\ Follows'
<1>1. p \in Pids /\ proc[p] \in {"starting", "up", "exiting"}
  BY DEF Living
<1>2. proc' = [proc EXCEPT ![p] = Ended(p)] /\ Ended(p) \in {"zombie", "gone"}
  BY DEF End, Ended
<1>3. unit' = IF p # service THEN unit
              ELSE IF clean THEN "inactive" ELSE "activating"
  BY DEF End
<1>4. /\ proc' \in [Pids -> {"none", "starting", "up", "exiting", "zombie",
                             "gone"}]
      /\ proc'[p] \in {"zombie", "gone"}
      /\ \A r \in Pids : r # p => proc'[r] = proc[r]
  BY <1>1, <1>2 DEF TypeOK, ProcessTypeOK
<1>5. /\ Unused' = Unused
      /\ Starting' = Starting \ {p}
      /\ Locked' = Locked \ {p}
      /\ Living' = Living \ {p}
  BY <1>1, <1>4 DEF Unused, Starting, Locked, Living
<1>6. Follows'
  <2>1. service # 0 => service \in Pids
    BY DEF TypeOK, ProcessTypeOK
  <2>2. 0 \notin Pids
    BY PidFacts
  <2> QED  BY <1>1, <1>3, <1>4, <1>5, <2>1, <2>2 DEF Follows
<1> QED  BY <1>3, <1>4, <1>5, <1>6

\* What systemd shows is a state and a process.
LEMMA Result == ASSUME TypeOK PROVE serviceInfo \in Results
<1>1. CASE unit = "active"
  BY <1>1 DEF serviceInfo, Results, Statuses, TypeOK, ProcessTypeOK
<1>2. CASE unit # "active" /\ Listed # {}
  <2>1. Listed \in SUBSET Nat /\ Listed \subseteq Pids
    BY PidFacts DEF Listed
  <2>2. Min(Listed) \in Pids
    BY <1>2, <2>1, Least
  <2> QED  BY <1>2, <2>2 DEF serviceInfo, Results, Statuses
<1>3. CASE unit # "active" /\ Listed = {}
  BY <1>3 DEF serviceInfo, Results, Statuses, TypeOK, ProcessTypeOK
<1> QED  BY <1>1, <1>2, <1>3

-----------------------------------------------------------------------------
(* What may still start a process.                                         *)

LEMMA Numbers ==
    ASSUME TypeOK
    PROVE  /\ Cardinality(StartersIn(jobs)) \in Nat
           /\ Cardinality(Rivals) \in Nat
           /\ Cardinality(Unused) \in Nat
           /\ Rivals \in SUBSET Pids /\ Unused \in SUBSET Pids
<1>1. Rivals \in SUBSET Pids /\ Unused \in SUBSET Pids
  BY DEF Rivals, Unused
<1> QED  BY <1>1, Counted, StartersCounted DEF TypeOK, JobsTypeOK

LEMMA NumbersAfter ==
    ASSUME TypeOK'
    PROVE  /\ Cardinality(StartersIn(jobs')) \in Nat
           /\ Cardinality(Rivals') \in Nat
           /\ Cardinality(Unused') \in Nat
           /\ Rivals' \in SUBSET Pids /\ Unused' \in SUBSET Pids
<1>1. Rivals' \in SUBSET Pids /\ Unused' \in SUBSET Pids
  BY DEF Rivals, Unused
<1> QED  BY <1>1, Counted, StartersCounted DEF TypeOK, JobsTypeOK

LEMMA Counters ==
    ASSUME TypeOK
    PROVE  /\ keys \in Nat /\ MaxKeys - keys \in Nat
           /\ crashes \in Nat /\ MaxCrashes - crashes \in Nat
<1>1. keys \in 0..MaxKeys /\ crashes \in 0..MaxCrashes
  BY DEF TypeOK, CountTypeOK
<1> QED  BY <1>1, BoundsAssumption

Counts ==
    /\ Starts \in Nat /\ Contests \in Nat /\ Repairs \in Nat /\ Free \in Nat
    /\ keys \in Nat /\ keys <= MaxKeys
    /\ crashes \in Nat /\ crashes <= MaxCrashes

LEMMA CountsHold == ASSUME TypeOK PROVE Counts
<1>1. Repairs \in Nat
  BY DEF Repairs
<1>2. keys \in 0..MaxKeys /\ crashes \in 0..MaxCrashes
  BY DEF TypeOK, CountTypeOK
<1>3. /\ keys \in Nat /\ keys <= MaxKeys
      /\ crashes \in Nat /\ crashes <= MaxCrashes
  BY <1>2, BoundsAssumption
<1> QED  BY <1>1, <1>3, Numbers DEF Counts, Starts, Contests, Free

LEMMA CountsHoldAfter == ASSUME TypeOK' PROVE Counts'
<1>1. Repairs' \in Nat
  BY DEF Repairs
<1>2. keys' \in 0..MaxKeys /\ crashes' \in 0..MaxCrashes
  BY DEF TypeOK, CountTypeOK
<1>3. /\ keys' \in Nat /\ keys' <= MaxKeys
      /\ crashes' \in Nat /\ crashes' <= MaxCrashes
  BY <1>2, BoundsAssumption
<1> QED  BY <1>1, <1>3, NumbersAfter DEF Counts, Starts, Contests, Free

LEMMA DueAndLeft ==
    /\ Counts => Due \in Nat /\ Left \in Nat /\ Free \in Nat
    /\ Counts' => Due' \in Nat /\ Left' \in Nat /\ Free' \in Nat
<1>1. \A j, c, f \in Nat : 2 * j + c + f \in Nat
  OBVIOUS
<1>2. \A k, c, m, n \in Nat : k <= m /\ c <= n => 2 * (m - k) + (n - c) \in Nat
  OBVIOUS
<1>3. MaxKeys \in Nat /\ MaxCrashes \in Nat
  BY BoundsAssumption
<1> QED  BY <1>1, <1>2, <1>3 DEF Counts, Due, Left

\* What is due does not grow faster than the processes not started yet.
Keeps == Due' + Left' + Free <= Due + Left + Free'

LEMMA Afforded ==
    ASSUME PanelInv, TypeOK', Keeps
    PROVE  Affords'
<1>1. Counts /\ Counts'
  BY CountsHold, CountsHoldAfter DEF PanelInv
<1>2. \A d, e, f, d2, e2, f2 \in Nat :
         d + e <= f /\ d2 + e2 + f <= d + e + f2 => d2 + e2 <= f2
  OBVIOUS
<1>3. Due + Left <= Free
  BY DEF PanelInv, Affords
<1> QED  BY <1>1, <1>2, <1>3, DueAndLeft DEF Keeps, Affords

\* The sums, case by case.
LEMMA DueCases ==
    \A j, c, f, j2, c2, f2 \in Nat :
       /\ j2 <= j /\ c2 <= c /\ f2 <= f =>
             2 * j2 + c2 + f2 <= 2 * j + c + f
       /\ j2 <= j + 1 /\ c2 <= c /\ f2 <= f =>
             2 * j2 + c2 + f2 <= (2 * j + c + f) + 2
       /\ j2 + 1 = j /\ c2 <= c + 1 /\ f2 <= f =>
             (2 * j2 + c2 + f2) + 1 <= 2 * j + c + f
       /\ j2 + 1 = j /\ c2 <= c /\ f2 <= f + 1 =>
             (2 * j2 + c2 + f2) + 1 <= 2 * j + c + f
       /\ j2 <= j /\ c2 <= c /\ f2 + 1 = f =>
             (2 * j2 + c2 + f2) + 1 <= 2 * j + c + f
OBVIOUS

LEMMA LeftCases ==
    \A k, c, m, n, k2, c2 \in Nat :
       /\ k2 >= k /\ c2 = c =>
             2 * (m - k2) + (n - c2) <= 2 * (m - k) + (n - c)
       /\ k2 = k + 1 /\ c2 = c =>
             (2 * (m - k2) + (n - c2)) + 2 = 2 * (m - k) + (n - c)
       /\ k2 = k =>
             (2 * (m - k2) + (n - c2)) + c2 = (2 * (m - k) + (n - c)) + c
OBVIOUS

LEMMA KeepsCases ==
    /\ \A d, e, f, d2, e2 \in Nat :
          /\ d2 <= d /\ e2 <= e => d2 + e2 + f <= d + e + f
          /\ d2 <= d + 2 /\ e2 + 2 = e => d2 + e2 + f <= d + e + f
    /\ \A d, e, f, d2, f2 \in Nat :
          d2 + 1 <= d /\ f2 + 1 = f => d2 + e + f <= d + e + f2
    /\ \A d, e, f, d2, e2, c, c2 \in Nat :
          d2 + c <= d + c2 /\ e2 + c2 = e + c => d2 + e2 + f <= d + e + f
OBVIOUS

\* Nothing is due that was not, and no process starts.
LEMMA KeepsQuiet ==
    ASSUME Counts, Counts', Starts' <= Starts, Contests' <= Contests,
           Repairs' <= Repairs, keys' >= keys, crashes' = crashes, Free' = Free
    PROVE  Keeps
<1>1. Due' <= Due
  BY DueCases DEF Due, Counts
<1>2. Left' <= Left
  BY LeftCases, BoundsAssumption DEF Left, Counts
<1> QED  BY <1>1, <1>2, DueAndLeft, KeepsCases DEF Keeps

\* A key may start a command.
LEMMA KeepsKey ==
    ASSUME Counts, Counts', Starts' <= Starts + 1, Contests' <= Contests,
           Repairs' <= Repairs, keys' = keys + 1, crashes' = crashes,
           Free' = Free
    PROVE  Keeps
<1>1. Due' <= Due + 2
  BY DueCases DEF Due, Counts
<1>2. Left' + 2 = Left
  BY LeftCases, BoundsAssumption DEF Left, Counts
<1> QED  BY <1>1, <1>2, DueAndLeft, KeepsCases DEF Keeps

\* A process starts.
LEMMA KeepsStart ==
    ASSUME Counts, Counts', keys' = keys, crashes' = crashes, Free' + 1 = Free,
           \/ /\ Starts' + 1 = Starts
              /\ \/ Contests' <= Contests + 1 /\ Repairs' <= Repairs
                 \/ Contests' <= Contests /\ Repairs' <= Repairs + 1
           \/ /\ Starts' <= Starts
              /\ Contests' <= Contests /\ Repairs' + 1 = Repairs
    PROVE  Keeps
<1>1. Due' + 1 <= Due
  BY DueCases DEF Due, Counts
<1>2. Left' = Left
  BY Zenon DEF Left
<1> QED  BY <1>1, <1>2, DueAndLeft, KeepsCases DEF Keeps

\* A process comes up or ends.
LEMMA KeepsProcess ==
    ASSUME Counts, Counts', Starts' = Starts, keys' = keys, Free' = Free,
           Contests' + Repairs' + crashes <= Contests + Repairs + crashes'
    PROVE  Keeps
<1>1. Due' + crashes <= Due + crashes'
  <2>1. \A j, c, f \in Nat : 2 * j + c + f = 2 * j + (c + f)
    OBVIOUS
  <2>2. \A j, x, x2, k, k2 \in Nat :
           x2 + k <= x + k2 => (2 * j + x2) + k <= (2 * j + x) + k2
    OBVIOUS
  <2>3. /\ Contests + Repairs \in Nat /\ Contests' + Repairs' \in Nat
        /\ crashes \in Nat /\ crashes' \in Nat /\ Starts \in Nat
    <3>1. \A c, f \in Nat : c + f \in Nat
      OBVIOUS
    <3> QED  BY <3>1 DEF Counts
  <2>4. /\ Due = 2 * Starts + (Contests + Repairs)
        /\ Due' = 2 * Starts + (Contests' + Repairs')
    BY <2>1 DEF Due, Counts
  <2> QED  BY <2>2, <2>3, <2>4
<1>2. Left' + crashes' = Left + crashes
  <2>1. \A x, y, n \in Nat : (x + (n - y)) + y = x + n
    OBVIOUS
  <2>2. \A k, m \in Nat : k <= m => 2 * (m - k) \in Nat
    OBVIOUS
  <2>3. 2 * (MaxKeys - keys) \in Nat
    BY <2>2, BoundsAssumption DEF Counts
  <2>4. Left' + crashes' = 2 * (MaxKeys - keys) + MaxCrashes
    <3>1. Left' = 2 * (MaxKeys - keys) + (MaxCrashes - crashes')
      BY Zenon DEF Left
    <3>2. crashes' \in Nat
      BY DEF Counts
    <3> QED  BY <2>1, <2>3, <3>1, <3>2, BoundsAssumption
  <2>5. Left + crashes = 2 * (MaxKeys - keys) + MaxCrashes
    BY <2>1, <2>3, BoundsAssumption DEF Left, Counts
  <2> QED  BY <2>4, <2>5
<1>3. crashes \in Nat /\ crashes' \in Nat
  BY DEF Counts
<1> QED  BY <1>1, <1>2, <1>3, DueAndLeft, KeepsCases DEF Keeps

LEMMA Fewer ==
    ASSUME NEW S \in SUBSET Pids, NEW T \in SUBSET S
    PROVE  Cardinality(T) <= Cardinality(S)
BY Counted, FS_Subset

LEMMA OneMore ==
    ASSUME NEW S \in SUBSET Pids, NEW p \in Pids, NEW T \in SUBSET (S \cup {p})
    PROVE  Cardinality(T) <= Cardinality(S) + 1
<1>1. IsFiniteSet(S) /\ Cardinality(S) \in Nat
  BY Counted
<1>2. Cardinality(S \cup {p})
        = IF p \in S THEN Cardinality(S) ELSE Cardinality(S) + 1
  BY <1>1, FS_AddElement, Zenon
<1>3. Cardinality(T) <= Cardinality(S \cup {p}) /\ Cardinality(T) \in Nat
  BY Fewer, Counted
<1> QED  BY <1>1, <1>2, <1>3

LEMMA OneLess ==
    ASSUME NEW S \in SUBSET Pids, NEW p \in S
    PROVE  Cardinality(S \ {p}) = Cardinality(S) - 1
BY Counted, FS_RemoveElement

\* A command that starts a process, and a failure of the unit, find one.
LEMMA Room ==
    ASSUME PanelInv, StartersIn(jobs) # {} \/ unit = "activating"
    PROVE  Unused # {}
<1>1. TypeOK /\ Due + Left <= Free /\ Counts
  BY CountsHold DEF PanelInv, Affords
<1>2. unit = "activating" => Repairs = 1
  BY DEF Repairs, Failing
<1>3. StartersIn(jobs) # {} => Starts # 0
  BY <1>1, StartersCounted, FS_EmptySet DEF TypeOK, JobsTypeOK, Starts
<1>4. \A j, c, f \in Nat : j # 0 \/ f = 1 => 2 * j + c + f > 0
  OBVIOUS
<1>5. Due > 0
  BY <1>1, <1>2, <1>3, <1>4 DEF Due, Counts
<1>6. Free # 0
  BY <1>1, <1>5, DueAndLeft
<1> QED  BY <1>6, FS_EmptySet DEF Free

\* Steps that neither start nor end a process.
LEMMA SameProcesses ==
    ASSUME PanelInv, TypeOK', UNCHANGED <<jobs, proc, unit, service, crashes>>,
           keys' >= keys
    PROVE  UnitFollowsServer' /\ Affords'
<1>1. UnitFollowsServer'
  BY DEF PanelInv, UnitFollowsServer, Living
<1>2. /\ StartersIn(jobs') = StartersIn(jobs) /\ Rivals' = Rivals
      /\ Repairs' = Repairs /\ Unused' = Unused
  BY DEF StartersIn, Rivals, Failing, Repairs, Unused, Locked
<1>3. Starts' = Starts /\ Contests' = Contests /\ Free' = Free
  BY <1>2, Zenon DEF Starts, Contests, Free
<1>4. Counts /\ Counts'
  BY CountsHold, CountsHoldAfter DEF PanelInv
<1>5. Starts' <= Starts /\ Contests' <= Contests /\ Repairs' <= Repairs
  BY <1>2, <1>3, <1>4 DEF Counts
<1>6. Keeps
  BY <1>3, <1>4, <1>5, KeepsQuiet
<1> QED  BY <1>1, <1>6, Afforded

\* Signals, and commands that move on without starting a process.
LEMMA NoneStarted ==
    ASSUME PanelInv, TypeOK', Follows', UNCHANGED <<service, crashes, keys>>,
           Unused' = Unused, Starting' \subseteq Starting, Locked' = Locked,
           unit' = "activating" => unit = "activating",
           unit' = "active" => unit = "active",
           Cardinality(StartersIn(jobs')) <= Cardinality(StartersIn(jobs))
    PROVE  Affords'
<1>1. Rivals' \subseteq Rivals
  BY DEF Rivals, Starting
<1>2. Failing' => Failing
  <2>1. unit' = "active" => service \in Pids
    <3>1. service' # 0 \/ unit' = "inactive"
      BY DEF Follows
    <3> QED  BY <3>1 DEF TypeOK, ProcessTypeOK
  <2> QED  BY <2>1 DEF Failing, Starting
<1>3. Repairs' <= Repairs
  BY <1>2, SMT DEF Repairs
<1>4. Contests' <= Contests
  BY <1>1, Fewer, Numbers DEF PanelInv, Contests
<1>5. Free' = Free /\ Starts' <= Starts
  BY DEF Free, Starts
<1>6. Counts /\ Counts'
  BY CountsHold, CountsHoldAfter DEF PanelInv
<1>7. keys' >= keys
  BY <1>6 DEF Counts
<1>8. Keeps
  BY <1>3, <1>4, <1>5, <1>6, <1>7, KeepsQuiet
<1> QED  BY <1>8, Afforded

-----------------------------------------------------------------------------
(* The steps.                                                              *)

\* The refreshes under way.
Total == collects + Len(samples) + ticks

\* One refresh for each cause; and those that no tick follows any more.
Steady == Total = 1 + extra
Ending == ticks = 0 /\ Total <= 1 + extra

LEMMA RefreshParts ==
    RefreshChains
       <=> quit \/ (watchMode /\ Steady) \/ (~watchMode /\ Ending)
BY Zenon DEF RefreshChains, Steady, Ending, Total

LEMMA RefreshPartsAfter ==
    RefreshChains'
       <=> quit' \/ (watchMode /\ Steady') \/ (~watchMode /\ Ending')
BY Zenon DEF RefreshChains, Steady, Ending, Total

LEMMA InitPanelInv == Init => PanelInv
<1> SUFFICES ASSUME Init PROVE PanelInv
  OBVIOUS
<1>1. PICK s \in {"up", "gone", "starting"} :
         /\ proc = [p \in Pids |-> IF p = 1 THEN s ELSE "none"]
         /\ unit \in {"inactive"} \cup IF s = "gone" THEN {} ELSE {"active"}
         /\ own = IF s = "starting" /\ unit # "active" THEN {1} ELSE {}
  BY Zenon DEF Init
<1>2. /\ ready = FALSE /\ svc = [status |-> "", pid |-> 0]
      /\ action = "" /\ quit = FALSE
  BY Zenon DEF Init
<1>3. /\ service = IF unit = "active" THEN 1 ELSE 0
      /\ collects = 1 /\ samples = <<>> /\ ticks = 0
      /\ clears = 0 /\ jobs = <<>>
      /\ crashes = 0 /\ keys = 0 /\ extra = 0
  BY Zenon DEF Init
<1>4. Len(<<>>) = 0 /\ <<>> \in Seq(Results) /\ <<>> \in Seq(Commands)
  OBVIOUS
<1>5. TypeOK
  <2>1. UiTypeOK
    <3>1. "" \in Actions /\ "" \in Statuses
      BY Zenon DEF Actions, Statuses
    <3>2. \A t \in Statuses : [status |-> t, pid |-> 0] \in Results
      BY DEF Results
    <3> QED  BY <1>2, <3>1, <3>2, Zenon DEF UiTypeOK
  <2>2. RefreshTypeOK /\ JobsTypeOK
    BY <1>3, <1>4, Zenon DEF RefreshTypeOK, JobsTypeOK
  <2>3. ProcessTypeOK
    BY <1>1, <1>3, PidFacts DEF ProcessTypeOK
  <2>4. CountTypeOK
    <3>1. 0 \in 0..MaxCrashes /\ 0 \in 0..MaxKeys /\ 0 \in Nat
      BY BoundsAssumption
    <3> QED  BY <1>3, <3>1, Zenon DEF CountTypeOK
  <2> QED  BY <2>1, <2>2, <2>3, <2>4 DEF TypeOK
<1>6. RefreshChains
  <2>1. Len(samples) = 0
    BY <1>3, <1>4, Zenon
  <2>2. 1 + 0 + 0 = 1 + 0 /\ 1 + 0 + 0 <= 1 + 0
    OBVIOUS
  <2>3. Steady /\ Ending
    BY <1>3, <2>1, <2>2, Zenon DEF Steady, Ending, Total
  <2> QED  BY <2>3, RefreshParts, Zenon
<1>7. KeysSpent
  <2>1. 0 + 0 <= 0
    OBVIOUS
  <2> QED  BY <1>3, <1>4, <2>1, Zenon DEF KeysSpent
<1>8. UnitFollowsServer
  <2>1. \A i \in 1..Len(jobs) : FALSE
    <3>1. \A i \in 1..0 : FALSE
      OBVIOUS
    <3> QED  BY <1>3, <1>4, <3>1, Zenon
  <2>2. service = 0 => unit = "inactive"
    BY <1>1, <1>3
  <2>3. ASSUME service # 0
        PROVE  /\ proc[service] # "none"
               /\ unit = "active" <=> service \in Living
    <3>1. service = 1 /\ unit = "active"
      BY <1>3, <2>3
    <3>2. s # "gone" /\ proc[1] = s
      BY <1>1, <3>1, PidFacts
    <3> QED  BY <3>1, <3>2, PidFacts DEF Living
  <2> QED  BY <2>1, <2>2, <2>3, Zenon DEF UnitFollowsServer
<1>9. Due + Left <= Free
  <2>1. Rivals = {}
    BY <1>1, <1>3 DEF Rivals
  <2>2. ~Failing
    BY <1>1, <1>3 DEF Failing, Locked
  <2>3. StartersIn(jobs) = {}
    <3>1. \A i \in 1..0 : FALSE
      OBVIOUS
    <3> QED  BY <1>3, <1>4, <3>1, Zenon DEF StartersIn
  <2>4. Unused = Pids \ {1}
    BY <1>1 DEF Unused
  <2>5. Free = 2 * MaxKeys + MaxCrashes
    <3>1. Cardinality(Pids \ {1}) = Cardinality(Pids) - 1
      BY PidFacts, OneLess
    <3> QED  BY <2>4, <3>1, PidFacts, BoundsAssumption DEF Free
  <2>6. Contests = 0 /\ Starts = 0
    BY <2>1, <2>3, FS_EmptySet DEF Contests, Starts
  <2>7. Due = 2 * 0 + 0 + 0 /\ Left = 2 * (MaxKeys - 0) + (MaxCrashes - 0)
    BY <1>3, <2>2, <2>6, Zenon DEF Due, Left, Repairs
  <2> QED  BY <2>5, <2>7, BoundsAssumption
<1> QED  BY <1>5, <1>6, <1>7, <1>8, <1>9 DEF PanelInv, Affords

LEMMA RefreshFacts ==
    ASSUME PanelInv
    PROVE  /\ collects \in Nat /\ ticks \in Nat /\ extra \in Nat
           /\ samples \in Seq(Results) /\ Len(samples) \in Nat
           /\ jobs \in Seq(Commands) /\ Len(jobs) \in Nat
           /\ TypeOK /\ RefreshChains /\ KeysSpent
<1>1. TypeOK /\ RefreshChains /\ KeysSpent
  BY DEF PanelInv
<1>2. samples \in Seq(Results) /\ jobs \in Seq(Commands)
  BY <1>1 DEF TypeOK, RefreshTypeOK, JobsTypeOK
<1>3. Len(samples) \in Nat /\ Len(jobs) \in Nat
  BY <1>2
<1> QED  BY <1>1, <1>2, <1>3 DEF TypeOK, RefreshTypeOK, CountTypeOK

LEMMA RefreshNats ==
    ASSUME PanelInv
    PROVE  collects \in Nat /\ ticks \in Nat /\ extra \in Nat
           /\ Len(samples) \in Nat
BY RefreshFacts

\* A refresh is as many as before, or one more with its cause.
LEMMA TotalNat == ASSUME PanelInv PROVE Total \in Nat /\ extra \in Nat
BY RefreshNats DEF Total

LEMMA Sums ==
    /\ \A c, s, t \in Nat : \A c2, s2, t2 \in Nat :
          /\ c2 + 1 = c /\ s2 = s + 1 => c2 + s2 + t = c + s + t
          /\ s2 + 1 = s /\ t2 = t + 1 => c + s2 + t2 = c + s + t
          /\ s2 + 1 = s => c + s2 + t <= c + s + t /\ c + s2 + t \in Nat
          /\ t2 + 1 = t /\ c2 = c + 1 => c2 + s + t2 = c + s + t
          /\ c2 = c + 1 => c2 + s + t = (c + s + t) + 1
OBVIOUS

LEMMA CollectInv ==
    ASSUME PanelInv, Collect
    PROVE  PanelInv'
<1>1. TypeOK /\ RefreshChains /\ KeysSpent
  BY RefreshFacts
<1>2. /\ samples' = Append(samples, serviceInfo)
      /\ collects > 0 /\ collects' = collects - 1
      /\ UNCHANGED <<ui, ticks, clears, jobs, processes, keys, extra>>
  BY Zenon DEF Collect
<1>3. /\ samples' \in Seq(Results) /\ Len(samples') = Len(samples) + 1
      /\ collects' \in Nat /\ collects' + 1 = collects
  BY <1>1, <1>2, Result, RefreshFacts
<1>4. TypeOK'
  BY <1>1, <1>2, <1>3 DEF TypeOK, UiTypeOK, RefreshTypeOK, JobsTypeOK,
  ProcessTypeOK, CountTypeOK, ui, processes, systemd
<1>5. (Steady => Steady') /\ (Ending => Ending')
  <2>1. Total' = Total
    BY <1>2, <1>3, RefreshNats, Sums DEF Total
  <2> QED  BY <1>2, <2>1, Zenon DEF Steady, Ending
<1>6. RefreshChains'
  BY <1>1, <1>2, <1>5, RefreshParts, RefreshPartsAfter, Zenon DEF ui
<1>7. KeysSpent'
  BY <1>1, <1>2, Zenon DEF KeysSpent
<1>8. UNCHANGED <<jobs, proc, unit, service, crashes>> /\ keys' >= keys
  BY <1>1, <1>2, Counters DEF processes, systemd
<1> QED  BY <1>4, <1>6, <1>7, <1>8, SameProcesses DEF PanelInv

LEMMA StatsMsgInv ==
    ASSUME PanelInv, NEW i \in 1..Len(samples), StatsMsg(i)
    PROVE  PanelInv'
<1>1. TypeOK /\ RefreshChains /\ KeysSpent
  BY RefreshFacts
<1>2. /\ svc' = samples[i] /\ ready' = TRUE
      /\ samples' = RemoveAt(samples, i)
      /\ watchMode => ticks' = ticks + 1
      /\ ~watchMode => ticks' = ticks
      /\ UNCHANGED <<action, quit, collects, clears, jobs, processes, keys,
                     extra>>
  BY Zenon DEF StatsMsg
<1>3. /\ samples' \in Seq(Results) /\ Len(samples') + 1 = Len(samples)
      /\ Len(samples') \in Nat /\ svc' \in Results
  <2>1. /\ RemoveAt(samples, i) \in Seq(Results)
        /\ Len(RemoveAt(samples, i)) = Len(samples) - 1
    BY RefreshFacts, Removed
  <2>2. /\ Len(samples) - 1 \in Nat
        /\ (Len(samples) - 1) + 1 = Len(samples)
        /\ samples[i] \in Results
    BY RefreshFacts
  <2> QED  BY <1>2, <2>1, <2>2, Zenon
<1>4. ticks' \in Nat /\ (ticks' = ticks + 1 \/ ticks' = ticks)
  BY <1>2, RefreshFacts
<1>5. TypeOK'
  BY <1>1, <1>2, <1>3, <1>4 DEF TypeOK, UiTypeOK, RefreshTypeOK, JobsTypeOK,
  ProcessTypeOK, CountTypeOK, processes, systemd
<1>6. /\ Steady /\ ticks' = ticks + 1 => Steady'
      /\ Ending /\ ticks' = ticks => Ending'
  <2>1. collects' = collects /\ extra' = extra
    BY <1>2, Zenon
  <2>2. /\ Len(samples') + 1 = Len(samples) /\ Len(samples') \in Nat
    BY <1>3
  <2>3. ticks' = ticks + 1 => Total' = Total
    BY <1>4, <2>1, <2>2, RefreshNats, Sums, SMTT(30) DEF Total
  <2>4. ticks' = ticks => Total' <= Total /\ Total' \in Nat
    BY <1>4, <2>1, <2>2, RefreshNats, Sums DEF Total
  <2> HIDE DEF Total
  <2>5. Ending /\ ticks' = ticks => Ending'
    BY <2>1, <2>4, TotalNat DEF Ending
  <2>6. Steady /\ ticks' = ticks + 1 => Steady'
    BY <2>1, <2>3 DEF Steady
  <2> QED  BY <2>5, <2>6
<1>7. RefreshChains'
  BY <1>1, <1>2, <1>6, RefreshParts, RefreshPartsAfter, Zenon
<1>8. KeysSpent'
  BY <1>1, <1>2, Zenon DEF KeysSpent
<1>9. UNCHANGED <<jobs, proc, unit, service, crashes>> /\ keys' >= keys
  BY <1>1, <1>2, Counters DEF processes, systemd
<1> QED  BY <1>5, <1>7, <1>8, <1>9, SameProcesses DEF PanelInv

LEMMA TickMsgInv ==
    ASSUME PanelInv, TickMsg
    PROVE  PanelInv'
<1>1. TypeOK /\ RefreshChains /\ KeysSpent
  BY RefreshFacts
<1>2. /\ ticks > 0 /\ ticks' = ticks - 1
      /\ collects' = collects + 1
      /\ UNCHANGED <<ui, samples, clears, jobs, processes, keys, extra>>
  BY Zenon DEF TickMsg
<1>3. /\ ticks' \in Nat /\ ticks' + 1 = ticks
      /\ collects' \in Nat /\ collects' = collects + 1
  BY <1>2, RefreshFacts
<1>4. TypeOK'
  BY <1>1, <1>2, <1>3 DEF TypeOK, UiTypeOK, RefreshTypeOK, JobsTypeOK,
  ProcessTypeOK, CountTypeOK, ui, processes, systemd
<1>5. (Steady => Steady') /\ ~Ending
  <2>1. samples' = samples /\ extra' = extra
    BY <1>2, Zenon
  <2>2. Total' = Total
    BY <1>3, <2>1, RefreshNats, Sums, SMTT(30) DEF Total
  <2>3. ticks # 0
    BY <1>2, RefreshNats
  <2> QED  BY <2>1, <2>2, <2>3, Zenon DEF Steady, Ending
<1>6. RefreshChains'
  BY <1>1, <1>2, <1>5, RefreshParts, RefreshPartsAfter, Zenon DEF ui
<1>7. KeysSpent'
  BY <1>1, <1>2, Zenon DEF KeysSpent
<1>8. UNCHANGED <<jobs, proc, unit, service, crashes>> /\ keys' >= keys
  BY <1>1, <1>2, Counters DEF processes, systemd
<1> QED  BY <1>4, <1>6, <1>7, <1>8, SameProcesses DEF PanelInv

\* What does not touch the refreshes.
LEMMA SameRefreshes ==
    ASSUME PanelInv, UNCHANGED <<quit, refresh, extra>>
    PROVE  RefreshChains'
<1>1. RefreshChains
  BY RefreshFacts
<1>2. /\ quit' = quit /\ collects' = collects /\ samples' = samples
      /\ ticks' = ticks /\ extra' = extra
  BY DEF refresh
<1>3. (quit => quit') /\ (Steady => Steady') /\ (Ending => Ending')
  <2>1. Total' = Total
    BY <1>2, Zenon DEF Total
  <2>2. Steady => Steady'
    BY <1>2, <2>1, Zenon DEF Steady
  <2>3. Ending => Ending'
    BY <1>2, <2>1, Zenon DEF Ending
  <2>4. quit => quit'
    OBVIOUS
  <2> QED  BY <2>2, <2>3, <2>4
<1>4. quit \/ (watchMode /\ Steady) \/ (~watchMode /\ Ending)
  BY <1>1, RefreshParts, Zenon
<1>5. quit' \/ (watchMode /\ Steady') \/ (~watchMode /\ Ending')
  BY <1>3, <1>4, Zenon
<1> QED  BY <1>5, RefreshPartsAfter, Zenon

LEMMA ClearActionMsgInv ==
    ASSUME PanelInv, ClearActionMsg
    PROVE  PanelInv'
<1>1. TypeOK /\ KeysSpent
  BY RefreshFacts
<1>2. clears > 0 /\ clears' = clears - 1
  BY Zenon DEF ClearActionMsg
<1>3. UNCHANGED <<ready, svc, quit, refresh, jobs, processes, keys, extra>>
  BY Zenon DEF ClearActionMsg
<1>4. action' \in Actions
  BY Zenon DEF ClearActionMsg, Actions
<1>5. clears' \in Nat
  <2>1. clears \in Nat
    BY <1>1 DEF TypeOK, JobsTypeOK
  <2> QED  BY <1>2, <2>1
<1>6. TypeOK'
  BY <1>1, <1>3, <1>4, <1>5 DEF TypeOK, UiTypeOK, RefreshTypeOK, JobsTypeOK,
  ProcessTypeOK, CountTypeOK, refresh, processes, systemd
<1>7. RefreshChains'
  BY <1>3, SameRefreshes
<1>8. KeysSpent'
  BY <1>1, <1>3, Zenon DEF KeysSpent
<1>9. UNCHANGED <<jobs, proc, unit, service, crashes>> /\ keys' >= keys
  BY <1>1, <1>3, Counters DEF processes, systemd
<1> QED  BY <1>6, <1>7, <1>8, <1>9, SameProcesses DEF PanelInv

LEMMA PressFacts ==
    ASSUME TypeOK, Press
    PROVE  keys' \in 0..MaxKeys /\ keys' = keys + 1
<1>1. keys \in 0..MaxKeys /\ keys < MaxKeys /\ keys' = keys + 1
  BY DEF TypeOK, CountTypeOK, Press
<1> QED  BY <1>1, BoundsAssumption

LEMMA KeyRefreshInv ==
    ASSUME PanelInv, KeyRefresh
    PROVE  PanelInv'
<1>1. TypeOK /\ RefreshChains /\ KeysSpent
  BY RefreshFacts
<1>2. /\ Press
      /\ collects' = collects + 1 /\ extra' = extra + 1
      /\ UNCHANGED <<ui, samples, ticks, clears, jobs, processes>>
  BY Zenon DEF KeyRefresh
<1>3. keys' \in 0..MaxKeys /\ keys' = keys + 1 /\ keys \in Nat
  BY <1>1, <1>2, PressFacts, Counters
<1>4. collects' \in Nat /\ extra' \in Nat
  BY <1>2, RefreshFacts
<1>5. TypeOK'
  BY <1>1, <1>2, <1>3, <1>4 DEF TypeOK, UiTypeOK, RefreshTypeOK, JobsTypeOK,
  ProcessTypeOK, CountTypeOK, ui, processes, systemd
<1>6. (Steady => Steady') /\ (Ending => Ending')
  <2>1. samples' = samples /\ ticks' = ticks
    BY <1>2, Zenon
  <2>2. Total' = Total + 1
    BY <1>2, <1>4, <2>1, RefreshNats, Sums DEF Total
  <2> HIDE DEF Total
  <2> QED  BY <1>2, <2>1, <2>2, TotalNat DEF Steady, Ending
<1>7. RefreshChains'
  BY <1>1, <1>2, <1>6, RefreshParts, RefreshPartsAfter, Zenon DEF ui
<1>8. KeysSpent'
  BY <1>1, <1>2, <1>3, RefreshFacts DEF KeysSpent
<1>9. UNCHANGED <<jobs, proc, unit, service, crashes>> /\ keys' >= keys
  BY <1>2, <1>3 DEF processes, systemd
<1> QED  BY <1>5, <1>7, <1>8, <1>9, SameProcesses DEF PanelInv

\* A key puts a command into the queue.
Queue(c) ==
    /\ Press
    /\ c.do # "restart unit"
    /\ jobs' = Append(jobs, c)
    /\ UNCHANGED <<quit, refresh, clears, processes, extra>>

LEMMA QueuedInv ==
    ASSUME PanelInv, NEW c \in Commands, Queue(c), UiTypeOK'
    PROVE  PanelInv'
<1>1. TypeOK /\ jobs \in Seq(Commands) /\ Len(jobs) \in Nat /\ extra \in Nat
  BY RefreshFacts
<1>2. keys' \in 0..MaxKeys /\ keys' = keys + 1 /\ keys \in Nat
  BY <1>1, PressFacts, Counters DEF Queue
<1>3. /\ jobs' \in Seq(Commands)
      /\ Len(jobs') = Len(jobs) + 1
      /\ \A i \in 1..Len(jobs) : jobs'[i] = jobs[i]
      /\ jobs'[Len(jobs) + 1] = c
      /\ Cardinality(StartersIn(jobs')) <= Cardinality(StartersIn(jobs)) + 1
  <2>1. jobs' = Append(jobs, c)
    BY DEF Queue
  <2> QED  BY <1>1, <2>1, Appended, Zenon
<1>4. TypeOK'
  BY <1>1, <1>2, <1>3 DEF Queue, TypeOK, RefreshTypeOK, JobsTypeOK,
  ProcessTypeOK, CountTypeOK, refresh, processes, systemd
<1>5. RefreshChains'
  BY SameRefreshes DEF Queue
<1>6. KeysSpent'
  <2>1. extra' = extra
    BY DEF Queue
  <2> QED  BY <1>1, <1>2, <1>3, <2>1, RefreshFacts DEF KeysSpent
<1>7. UnitFollowsServer'
  <2>1. ASSUME service = 0, NEW i \in 1..Len(jobs')
        PROVE  jobs'[i].do # "restart unit"
    <3>1. \A j \in 1..Len(jobs) : jobs[j].do # "restart unit"
      BY <2>1 DEF PanelInv, UnitFollowsServer
    <3>2. i \in 1..(Len(jobs) + 1)
      BY <1>3, <2>1, Zenon
    <3>3. i \in 1..Len(jobs) \/ i = Len(jobs) + 1
      BY <1>1, <3>2
    <3>4. c.do # "restart unit"
      BY Zenon DEF Queue
    <3> QED  BY <1>3, <3>1, <3>3, <3>4, Zenon
  <2> QED  BY <2>1 DEF Queue, PanelInv, UnitFollowsServer, Living, processes,
           systemd
<1>8. Affords'
  <2>1. /\ Rivals' = Rivals /\ Repairs' = Repairs /\ Unused' = Unused
        /\ crashes' = crashes
    BY DEF Queue, Rivals, Failing, Repairs, Unused, Locked, processes, systemd
  <2>2. Contests' = Contests /\ Free' = Free
    BY <2>1, Zenon DEF Contests, Free
  <2>3. Starts' <= Starts + 1
    BY <1>3 DEF Starts
  <2>4. Counts /\ Counts'
    BY <1>1, <1>4, CountsHold, CountsHoldAfter
  <2>5. Contests' <= Contests /\ Repairs' <= Repairs
    BY <2>1, <2>2, <2>4 DEF Counts
  <2>6. Keeps
    BY <1>2, <2>1, <2>2, <2>3, <2>4, <2>5, KeepsKey
  <2> QED  BY <1>4, <2>6, Afforded
<1> QED  BY <1>4, <1>5, <1>6, <1>7, <1>8 DEF PanelInv

LEMMA KeyToggleInv ==
    ASSUME PanelInv, KeyToggle
    PROVE  PanelInv'
<1>1. UiTypeOK
  BY DEF PanelInv, TypeOK
<1>2. PICK c \in Commands : c.do # "restart unit" /\ jobs' = Append(jobs, c)
  <2>1. svc.pid \in Pids \cup {0}
    BY <1>1 DEF UiTypeOK, Results
  <2> DEFINE c == IF svc.status = "running" THEN [do |-> "stop", pid |-> svc.pid]
                                            ELSE [do |-> "start", pid |-> 0]
  <2>2. c \in Commands /\ c.do # "restart unit"
    BY <2>1 DEF Commands, Starters
  <2>3. jobs' = Append(jobs, c)
    BY DEF KeyToggle
  <2> QED  BY <2>2, <2>3
<1>3. UiTypeOK'
  BY <1>1 DEF KeyToggle, ui, UiTypeOK
<1> QED  BY <1>2, <1>3, QueuedInv, Zenon DEF KeyToggle, Queue, ui

LEMMA KeyInstallInv ==
    ASSUME PanelInv, NEW what \in {"build", "upgrade"}, KeyInstall(what)
    PROVE  PanelInv'
<1>1. UiTypeOK
  BY DEF PanelInv, TypeOK
<1>2. [do |-> what, pid |-> 0] \in Commands /\ what # "restart unit"
  BY DEF Commands, Starters
<1>3. UiTypeOK'
  <2>1. what \in Actions
    BY Zenon DEF Actions
  <2> QED  BY <1>1, <2>1, Zenon DEF KeyInstall, UiTypeOK
<1> QED  BY <1>2, <1>3, QueuedInv, Zenon DEF KeyInstall, Queue

\* Nothing is refreshed any more, and only zombies change.
LEMMA QuitInv ==
    ASSUME PanelInv, Quit
    PROVE  PanelInv'
<1>1. TypeOK /\ KeysSpent
  BY RefreshFacts
<1>2. keys' \in 0..MaxKeys /\ keys' = keys + 1 /\ keys \in Nat
  BY <1>1, PressFacts, Counters DEF Quit
<1>3. /\ proc' \in [Pids -> {"none", "starting", "up", "exiting", "zombie",
                             "gone"}]
      /\ \A p \in Pids : \A s \in {"none", "starting", "up", "exiting"} :
            proc'[p] = s <=> proc[p] = s
  BY <1>1 DEF Quit, TypeOK, ProcessTypeOK
<1>4. TypeOK'
  BY <1>1, <1>2, <1>3 DEF Quit, TypeOK, UiTypeOK, RefreshTypeOK, JobsTypeOK,
  ProcessTypeOK, CountTypeOK, refresh, systemd
<1>5. RefreshChains'
  BY DEF Quit, RefreshChains
<1>6. KeysSpent'
  BY <1>1, <1>2, RefreshFacts DEF Quit, KeysSpent
<1>7. /\ Living' = Living /\ Unused' = Unused /\ Locked' = Locked
      /\ Rivals' = Rivals
  BY <1>3 DEF Quit, Living, Unused, Locked, Rivals, systemd
<1>8. service # 0 => service \in Pids
  BY <1>1 DEF TypeOK, ProcessTypeOK
<1>9. UnitFollowsServer'
  BY <1>3, <1>7, <1>8 DEF Quit, PanelInv, UnitFollowsServer, systemd
<1>10. Affords'
  <2>1. Repairs' = Repairs
    <3>1. unit = "active" => service # 0
      BY DEF PanelInv, UnitFollowsServer
    <3> QED  BY <1>3, <1>7, <1>8, <3>1 DEF Quit, Failing, Repairs, systemd
  <2>2. crashes' = crashes /\ jobs' = jobs
    BY DEF Quit
  <2>3. Contests' = Contests /\ Free' = Free /\ Starts' = Starts
    BY <1>7, <2>2 DEF Contests, Free, Starts
  <2>4. Counts /\ Counts'
    BY <1>1, <1>4, CountsHold, CountsHoldAfter
  <2>5. Contests' <= Contests /\ Repairs' <= Repairs /\ Starts' <= Starts + 1
    BY <2>1, <2>3, <2>4 DEF Counts
  <2>6. Keeps
    BY <1>2, <2>2, <2>3, <2>4, <2>5, KeepsKey
  <2> QED  BY <1>4, <2>6, Afforded
<1> QED  BY <1>4, <1>5, <1>6, <1>9, <1>10 DEF PanelInv

\* A command moves on.
LEMMA Moved ==
    ASSUME PanelInv, NEW i \in 1..Len(jobs),
           NEW what \in Starters \cup {"stop", "build", "done"},
           Becomes(i, what)
    PROVE  /\ jobs' \in Seq(Commands)
           /\ Len(jobs') = Len(jobs)
           /\ \A j \in 1..Len(jobs) :
                 jobs'[j].do = IF j = i THEN what ELSE jobs[j].do
           /\ (what \in Starters => jobs[i].do \in Starters) =>
                 Cardinality(StartersIn(jobs'))
                    <= Cardinality(StartersIn(jobs))
           /\ what \notin Starters /\ jobs[i].do \in Starters =>
                 Cardinality(StartersIn(jobs'))
                    = Cardinality(StartersIn(jobs)) - 1
<1>1. jobs \in Seq(Commands)
  BY RefreshFacts
<1>2. /\ jobs' \in Seq(Commands)
      /\ Len(jobs') = Len(jobs)
      /\ \A j \in 1..Len(jobs) :
            jobs'[j].do = IF j = i THEN what ELSE jobs[j].do
      /\ StartersIn(jobs') = IF what \in Starters THEN StartersIn(jobs) \cup {i}
                                                  ELSE StartersIn(jobs) \ {i}
  <2>1. jobs' = With(jobs, i, what)
    BY Zenon DEF Becomes, With
  <2> DEFINE r == With(jobs, i, what)
  <2>2. /\ r \in Seq(Commands)
        /\ Len(r) = Len(jobs)
        /\ \A j \in 1..Len(jobs) :
              r[j].do = IF j = i THEN what ELSE jobs[j].do
        /\ StartersIn(r) = IF what \in Starters THEN StartersIn(jobs) \cup {i}
                                                ELSE StartersIn(jobs) \ {i}
    BY <1>1, Changed
  <2>3. jobs' = r
    BY <2>1
  <2> HIDE DEF r
  <2> QED  BY <2>2, <2>3
<1>3. IsFiniteSet(StartersIn(jobs)) /\ Cardinality(StartersIn(jobs)) \in Nat
  BY <1>1, StartersCounted
<1>4. i \in StartersIn(jobs) <=> jobs[i].do \in Starters
  BY DEF StartersIn
<1>5. CASE what \in Starters
  <2>1. jobs[i].do \in Starters => StartersIn(jobs') = StartersIn(jobs)
    BY <1>2, <1>4, <1>5
  <2>2. jobs[i].do \in Starters =>
           Cardinality(StartersIn(jobs')) <= Cardinality(StartersIn(jobs))
    <3>1. Cardinality(StartersIn(jobs)) <= Cardinality(StartersIn(jobs))
      BY <1>3
    <3> QED  BY <2>1, <3>1, Zenon
  <2> QED  BY <1>2, <1>5, <2>2, Zenon
<1>6. CASE what \notin Starters
  <2>1. StartersIn(jobs') = StartersIn(jobs) \ {i}
    BY <1>2, <1>6
  <2>2. Cardinality(StartersIn(jobs) \ {i})
          = IF i \in StartersIn(jobs) THEN Cardinality(StartersIn(jobs)) - 1
                                      ELSE Cardinality(StartersIn(jobs))
    BY <1>3, FS_RemoveElement, Zenon
  <2> QED  BY <1>2, <1>3, <1>4, <1>6, <2>1, <2>2
<1> QED  BY <1>5, <1>6

\* What the steps of commands and processes have in common.
LEMMA JobStep ==
    ASSUME PanelInv, NEW q \in Seq(Commands), jobs' = q, Len(q) = Len(jobs),
           ProcessTypeOK', Follows',
           service' = 0 =>
              /\ service = 0
              /\ \A j \in 1..Len(q) : q[j].do = "restart unit" =>
                                         jobs[j].do = "restart unit",
           crashes' \in 0..MaxCrashes,
           UNCHANGED <<ui, refresh, clears, keys, extra>>
    PROVE  /\ TypeOK' /\ RefreshChains' /\ KeysSpent' /\ UnitFollowsServer'
<1>1. TypeOK /\ KeysSpent
  BY RefreshFacts
<1>2. TypeOK'
  BY <1>1 DEF TypeOK, UiTypeOK, RefreshTypeOK, JobsTypeOK, CountTypeOK, ui,
  refresh
<1>3. RefreshChains'
  BY SameRefreshes DEF ui
<1>4. KeysSpent'
  BY <1>1 DEF KeysSpent
<1>5. service = 0 => \A j \in 1..Len(jobs) : jobs[j].do # "restart unit"
  BY DEF PanelInv, UnitFollowsServer
<1>6. UnitFollowsServer'
  BY <1>5 DEF UnitFollowsServer, Follows
<1> QED  BY <1>2, <1>3, <1>4, <1>6

LEMMA InvFacts ==
    ASSUME PanelInv
    PROVE  /\ Follows
           /\ service # 0 => service \in Pids
           /\ service = 0 => unit = "inactive"
           /\ 0 \notin Pids
           /\ ProcessTypeOK
           /\ crashes \in 0..MaxCrashes /\ crashes \in Nat /\ keys \in Nat
BY PidFacts, Counters
DEF PanelInv, UnitFollowsServer, Follows, TypeOK, ProcessTypeOK, CountTypeOK

\* A command that signals servers, or none, and does not start one.
LEMMA SignalInv ==
    ASSUME PanelInv, NEW i \in 1..Len(jobs),
           NEW what \in Starters \cup {"stop", "build", "done"},
           Becomes(i, what), what \in Starters => jobs[i].do \in Starters,
           what = "restart unit" => unit = "active",
           UNCHANGED <<ui, refresh, clears, own, service, crashes, keys, extra>>,
           UNCHANGED <<proc, unit>> \/ \E S : Kill(S)
    PROVE  PanelInv'
<1>1. TypeOK /\ Follows
  BY InvFacts, RefreshFacts
<1>2. /\ proc' \in [Pids -> {"none", "starting", "up", "exiting", "zombie",
                             "gone"}]
      /\ unit' \in {"inactive", "active", "activating"}
      /\ Unused' = Unused
      /\ Starting' \subseteq Starting
      /\ Locked' = Locked
      /\ unit' = "activating" => unit = "activating"
      /\ unit' = "active" => unit = "active"
      /\ Follows'
  <2>1. CASE UNCHANGED <<proc, unit>>
    BY <1>1, <2>1, InvFacts DEF ProcessTypeOK, Unused, Starting, Locked,
    Follows, Living
  <2>2. CASE \E S : Kill(S)
    BY <1>1, <2>2, KillFacts
  <2> QED  BY <2>1, <2>2
<1>3. /\ jobs' \in Seq(Commands)
      /\ Len(jobs') = Len(jobs)
      /\ \A j \in 1..Len(jobs) :
            jobs'[j].do = IF j = i THEN what ELSE jobs[j].do
      /\ Cardinality(StartersIn(jobs')) <= Cardinality(StartersIn(jobs))
  BY Moved
<1>4. ProcessTypeOK' /\ crashes' \in 0..MaxCrashes
  BY <1>2, InvFacts DEF ProcessTypeOK
<1>5. service' = 0 =>
         /\ service = 0
         /\ \A j \in 1..Len(jobs') : jobs'[j].do = "restart unit" =>
                                        jobs[j].do = "restart unit"
  BY <1>3, InvFacts
<1>6. TypeOK' /\ RefreshChains' /\ KeysSpent' /\ UnitFollowsServer'
  BY <1>2, <1>3, <1>4, <1>5, JobStep
<1>7. Affords'
  BY <1>2, <1>3, <1>6, NoneStarted
<1> QED  BY <1>6, <1>7 DEF PanelInv

\* A command starts a server, which is not that of the unit.
LEMMA StartInv ==
    ASSUME PanelInv, NEW i \in 1..Len(jobs), jobs[i].do \in Starters,
           Spawn(Fresh), Becomes(i, "done"), own' \subseteq own \cup {Fresh},
           UNCHANGED <<ui, refresh, clears, systemd, crashes, keys, extra>>
    PROVE  PanelInv'
<1>1. TypeOK /\ Follows
  BY InvFacts, RefreshFacts
<1>2. Fresh \in Pids /\ proc[Fresh] = "none"
  <2>1. StartersIn(jobs) # {}
    BY DEF StartersIn
  <2> QED  BY <1>1, <2>1, Room, FreshFacts
<1> DEFINE p == Fresh
<1>3. p \in Pids /\ proc[p] = "none" /\ Spawn(p) /\ own' \subseteq own \cup {p}
  BY <1>2
<1> HIDE DEF p
<1>4. /\ proc' \in [Pids -> {"none", "starting", "up", "exiting", "zombie",
                             "gone"}]
      /\ Unused' = Unused \ {p}
      /\ Starting' = Starting \cup {p}
      /\ Locked' = Locked
      /\ Living' = Living \cup {p}
      /\ \A r \in Pids : r # p => proc'[r] = proc[r]
  BY <1>1, <1>3, SpawnFacts
<1>5. /\ jobs' \in Seq(Commands)
      /\ Len(jobs') = Len(jobs)
      /\ \A j \in 1..Len(jobs) :
            jobs'[j].do = IF j = i THEN "done" ELSE jobs[j].do
      /\ Cardinality(StartersIn(jobs')) = Cardinality(StartersIn(jobs)) - 1
  <2>1. "done" \notin Starters
    BY DEF Starters
  <2> QED  BY <2>1, Moved, Zenon
<1>6. service # 0 => service # p /\ proc[service] # "none"
  BY <1>1, <1>3 DEF Follows
<1>7. Follows'
  BY <1>1, <1>4, <1>6, InvFacts DEF Follows, systemd
<1>8. ProcessTypeOK' /\ crashes' \in 0..MaxCrashes
  BY <1>3, <1>4, InvFacts DEF ProcessTypeOK, systemd
<1>9. service' = 0 =>
         /\ service = 0
         /\ \A j \in 1..Len(jobs') : jobs'[j].do = "restart unit" =>
                                        jobs[j].do = "restart unit"
  BY <1>5 DEF systemd
<1>10. TypeOK' /\ RefreshChains' /\ KeysSpent' /\ UnitFollowsServer'
  BY <1>5, <1>7, <1>8, <1>9, JobStep
<1>11. Affords'
  <2>1. Rivals' \subseteq Rivals \cup {p}
    BY <1>4 DEF Rivals, systemd
  <2>2. Cardinality(Rivals') <= Cardinality(Rivals) + 1
    BY <1>1, <1>3, <2>1, OneMore, Numbers
  <2>3. Cardinality(Unused') = Cardinality(Unused) - 1
    <3>1. p \in Unused
      BY <1>3 DEF Unused
    <3> QED  BY <1>1, <1>4, <3>1, OneLess, Numbers
  <2>4. Repairs' = Repairs
    BY <1>4, <1>6, InvFacts DEF Failing, Repairs, systemd
  <2>5. Counts /\ Counts'
    BY <1>1, <1>10, CountsHold, CountsHoldAfter
  <2>6. Free' + 1 = Free /\ Starts' + 1 = Starts /\ Repairs' <= Repairs
    BY <1>5, <2>3, <2>4, <2>5 DEF Counts, Free, Starts
  <2>7. Contests' <= Contests + 1
    BY <2>2 DEF Contests
  <2>8. Keeps
    BY <2>5, <2>6, <2>7, KeepsStart
  <2> QED  BY <1>10, <2>8, Afforded
<1> QED  BY <1>10, <1>11 DEF PanelInv

\* systemd starts its server, which finds the database open or not.
LEMMA UnitSpawn ==
    ASSUME PanelInv, NEW p \in Pids, proc[p] = "none", Spawn(p),
           unit # "active", service # 0, unit' = "active", service' = p,
           UNCHANGED own
    PROVE  /\ ProcessTypeOK' /\ Follows' /\ service' # 0
           /\ Cardinality(Rivals') <= Cardinality(Rivals)
           /\ Cardinality(Unused') = Cardinality(Unused) - 1
           /\ Failing' <=> Locked # {}
<1>1. TypeOK /\ Follows /\ service \in Pids /\ p # 0
  BY InvFacts, RefreshFacts
<1>2. /\ proc' \in [Pids -> {"none", "starting", "up", "exiting", "zombie",
                             "gone"}]
      /\ Unused' = Unused \ {p}
      /\ Starting' = Starting \cup {p}
      /\ Locked' = Locked
      /\ Living' = Living \cup {p}
      /\ proc'[p] = "starting"
  BY <1>1, SpawnFacts
<1>3. ProcessTypeOK' /\ Follows' /\ service' # 0
  BY <1>1, <1>2, InvFacts DEF ProcessTypeOK, Follows
<1>4. service \notin Starting
  BY <1>1 DEF Follows, Living, Starting
<1>5. Rivals' \subseteq Rivals
  BY <1>1, <1>2, <1>4 DEF Rivals, Starting
<1>6. Cardinality(Rivals') <= Cardinality(Rivals)
  BY <1>1, <1>5, Fewer, Numbers
<1>7. Cardinality(Unused') = Cardinality(Unused) - 1
  <2>1. p \in Unused
    BY DEF Unused
  <2> QED  BY <1>1, <1>2, <2>1, OneLess, Numbers
<1>8. Failing' <=> Locked # {}
  BY <1>2 DEF Failing
<1> QED  BY <1>3, <1>6, <1>7, <1>8

LEMMA UnitStartInv ==
    ASSUME PanelInv, NEW i \in 1..Len(jobs), UnitStart(i)
    PROVE  PanelInv'
<1>1. TypeOK /\ jobs[i].do = "restart unit" /\ jobs[i].do \in Starters
  BY RefreshFacts DEF UnitStart, Starters
<1>2. CASE unit = "active" /\ UNCHANGED <<proc, systemd>>
  BY <1>2, SignalInv DEF UnitStart, systemd, Starters
<1>3. CASE /\ unit = "inactive" /\ Spawn(Fresh)
           /\ unit' = "active" /\ service' = Fresh
  <2>1. Fresh \in Pids /\ proc[Fresh] = "none"
    <3>1. StartersIn(jobs) # {}
      BY <1>1 DEF StartersIn
    <3> QED  BY <1>1, <3>1, Room, FreshFacts
  <2>2. service # 0
    BY <1>1 DEF PanelInv, UnitFollowsServer
  <2>3. /\ ProcessTypeOK' /\ Follows' /\ service' # 0
        /\ Cardinality(Rivals') <= Cardinality(Rivals)
        /\ Cardinality(Unused') = Cardinality(Unused) - 1
    BY <1>3, <2>1, <2>2, UnitSpawn DEF UnitStart
  <2>4. /\ jobs' \in Seq(Commands)
        /\ Len(jobs') = Len(jobs)
        /\ Cardinality(StartersIn(jobs')) = Cardinality(StartersIn(jobs)) - 1
    <3>1. Becomes(i, "done") /\ "done" \notin Starters
      BY DEF UnitStart, Starters
    <3> QED  BY <1>1, <3>1, Moved
  <2>5. TypeOK' /\ RefreshChains' /\ KeysSpent' /\ UnitFollowsServer'
    BY <2>3, <2>4, InvFacts, JobStep DEF UnitStart
  <2>6. Affords'
    <3>1. Repairs' <= 1
      BY DEF Repairs
    <3>2. crashes' = crashes /\ keys' = keys
      BY DEF UnitStart
    <3>3. Counts /\ Counts'
      BY <1>1, <2>5, CountsHold, CountsHoldAfter
    <3>4. Free' + 1 = Free /\ Starts' + 1 = Starts /\ Repairs' <= Repairs + 1
      BY <2>3, <2>4, <3>1, <3>3, SMTT(30) DEF Counts, Free, Starts
    <3>5. Contests' <= Contests
      BY <2>3 DEF Contests
    <3>6. Keeps
      BY <3>2, <3>3, <3>4, <3>5, KeepsStart
    <3> QED  BY <2>5, <3>6, Afforded
  <2> QED  BY <2>5, <2>6 DEF PanelInv
<1> QED  BY <1>2, <1>3 DEF UnitStart

LEMMA RestartInv ==
    ASSUME PanelInv, Restart
    PROVE  PanelInv'
<1>1. TypeOK /\ jobs \in Seq(Commands) /\ unit = "activating"
  BY RefreshFacts DEF Restart
<1>2. Fresh \in Pids /\ proc[Fresh] = "none"
  BY <1>1, Room, FreshFacts
<1>3. service # 0
  BY <1>1, InvFacts
<1>4. /\ ProcessTypeOK' /\ Follows' /\ service' # 0
      /\ Cardinality(Rivals') <= Cardinality(Rivals)
      /\ Cardinality(Unused') = Cardinality(Unused) - 1
      /\ ~Failing'
  BY <1>1, <1>2, <1>3, UnitSpawn DEF Restart
<1>5. TypeOK' /\ RefreshChains' /\ KeysSpent' /\ UnitFollowsServer'
  BY <1>1, <1>4, InvFacts, JobStep DEF Restart
<1>6. Affords'
  <2>1. Repairs = 1 /\ Repairs' = 0
    BY <1>1, <1>4 DEF Repairs, Failing
  <2>2. crashes' = crashes /\ keys' = keys /\ jobs' = jobs
    BY DEF Restart
  <2>3. Counts /\ Counts'
    BY <1>1, <1>5, CountsHold, CountsHoldAfter
  <2>4. Starts' = Starts
    BY <2>2, Zenon DEF Starts
  <2>5. Free' + 1 = Free /\ Starts' <= Starts /\ Repairs' + 1 = Repairs
    BY <1>4, <2>1, <2>3, <2>4 DEF Counts, Free
  <2>6. Contests' <= Contests
    BY <1>4 DEF Contests
  <2>7. Keeps
    BY <2>2, <2>3, <2>5, <2>6, KeepsStart
  <2> QED  BY <1>5, <2>7, Afforded
<1> QED  BY <1>5, <1>6 DEF PanelInv

LEMMA ActionDoneMsgInv ==
    ASSUME PanelInv, NEW i \in 1..Len(jobs), ActionDoneMsg(i)
    PROVE  PanelInv'
<1>1. TypeOK /\ RefreshChains /\ KeysSpent
  BY RefreshFacts
<1>2. /\ jobs' \in Seq(Commands)
      /\ Len(jobs') + 1 = Len(jobs) /\ Len(jobs') \in Nat
      /\ \A j \in 1..Len(jobs') :
            jobs'[j] = jobs[IF j < i THEN j ELSE j + 1]
      /\ Cardinality(StartersIn(jobs')) <= Cardinality(StartersIn(jobs))
  <2>1. jobs' = RemoveAt(jobs, i)
    BY DEF ActionDoneMsg
  <2> QED  BY <2>1, RefreshFacts, Removed, StartersRemoved
<1>3. /\ collects' \in Nat /\ collects' = collects + 1
      /\ extra' \in Nat /\ extra' = extra + 1
  BY RefreshNats DEF ActionDoneMsg
<1>4. clears' \in Nat
  BY <1>1 DEF ActionDoneMsg, TypeOK, JobsTypeOK
<1>5. UNCHANGED <<ready, svc, quit, samples, ticks, processes, keys>>
  BY DEF ActionDoneMsg
<1>6. TypeOK'
  <2>1. UiTypeOK'
    <3>1. action' \in Actions
      BY Zenon DEF ActionDoneMsg, Actions
    <3> QED  BY <1>1, <1>5, <3>1, Zenon DEF TypeOK, UiTypeOK
  <2>2. RefreshTypeOK' /\ JobsTypeOK'
    BY <1>1, <1>2, <1>3, <1>4, <1>5 DEF TypeOK, RefreshTypeOK, JobsTypeOK
  <2>3. ProcessTypeOK' /\ CountTypeOK'
    BY <1>1, <1>3, <1>5 DEF TypeOK, ProcessTypeOK, CountTypeOK, processes, systemd
  <2> QED  BY <2>1, <2>2, <2>3 DEF TypeOK
<1>7. RefreshChains'
  <2>1. samples' = samples /\ ticks' = ticks /\ quit' = quit
    BY <1>5
  <2>2. Total' = Total + 1
    BY <1>3, <2>1, RefreshNats, Sums DEF Total
  <2>3. (Steady => Steady') /\ (Ending => Ending')
    BY <1>3, <2>1, <2>2, TotalNat DEF Steady, Ending
  <2> QED  BY <1>1, <2>1, <2>3, RefreshParts, RefreshPartsAfter
<1>8. KeysSpent'
  <2>1. keys' = keys
    BY <1>5
  <2>2. \A e, l \in Nat : (e + 1) + l = e + (l + 1)
    OBVIOUS
  <2>3. /\ extra \in Nat /\ extra' = extra + 1
        /\ Len(jobs') \in Nat /\ Len(jobs') + 1 = Len(jobs)
    BY <1>2, <1>3, RefreshFacts
  <2>4. (extra + 1) + Len(jobs') = extra + (Len(jobs') + 1)
    BY <2>2, <2>3, Zenon
  <2>5. extra' + Len(jobs') = extra + Len(jobs)
    BY <2>3, <2>4, Zenon
  <2> QED  BY <1>1, <2>1, <2>5, Zenon DEF KeysSpent
<1>9. UnitFollowsServer'
  <2>1. ASSUME service = 0, NEW j \in 1..Len(jobs')
        PROVE  jobs'[j].do # "restart unit"
    <3>1. (IF j < i THEN j ELSE j + 1) \in 1..Len(jobs)
      BY <1>2, RefreshFacts
    <3> QED  BY <1>2, <2>1, <3>1 DEF PanelInv, UnitFollowsServer
  <2> QED  BY <2>1 DEF PanelInv, UnitFollowsServer, Living, ActionDoneMsg,
           processes, systemd
<1>10. Affords'
  <2>1. /\ UNCHANGED <<service, crashes, keys, proc, unit>>
        /\ Unused' = Unused /\ Starting' = Starting /\ Locked' = Locked
        /\ Follows'
    BY InvFacts DEF ActionDoneMsg, processes, systemd, Unused, Starting, Locked,
    Follows, Living
  <2> QED  BY <1>2, <1>6, <2>1, NoneStarted
<1> QED  BY <1>6, <1>7, <1>8, <1>9, <1>10 DEF PanelInv

LEMMA JobInv ==
    ASSUME PanelInv, NEW i \in 1..Len(jobs), Job(i)
    PROVE  PanelInv'
<1>1. CASE Stop(i)
  BY <1>1, SignalInv DEF Stop, Starters
<1>2. CASE Start(i)
  BY <1>2, StartInv DEF Start, Starters
<1>3. CASE Build(i)
  BY <1>3, SignalInv DEF Build, Starters, processes, systemd
<1>4. CASE UnitRestart(i)
  BY <1>4, SignalInv DEF UnitRestart, Starters
<1>5. CASE UnitStart(i)
  BY <1>5, UnitStartInv
<1>6. CASE UpgradeKill(i)
  BY <1>6, SignalInv DEF UpgradeKill, Starters
<1>7. CASE UpgradeStart(i)
  BY <1>7, StartInv DEF UpgradeStart, Starters
<1>8. CASE ActionDoneMsg(i)
  BY <1>8, ActionDoneMsgInv
<1> QED  BY <1>1, <1>2, <1>3, <1>4, <1>5, <1>6, <1>7, <1>8 DEF Job

\* Steps of processes leave the rest alone.
Alone == UNCHANGED <<ui, refresh, clears, jobs, service, keys, extra>>

LEMMA ProcessStep ==
    ASSUME PanelInv, ProcessTypeOK', Follows', crashes' \in 0..MaxCrashes, Alone,
           Unused' = Unused,
           Contests' + Repairs' + crashes <= Contests + Repairs + crashes'
    PROVE  PanelInv'
<1>1. TypeOK /\ jobs \in Seq(Commands)
  BY RefreshFacts
<1>2. TypeOK' /\ RefreshChains' /\ KeysSpent' /\ UnitFollowsServer'
  BY <1>1, JobStep DEF Alone
<1>3. Affords'
  <2>1. keys' = keys /\ Starts' = Starts /\ Free' = Free
    BY DEF Alone, Starts, Free
  <2>2. Counts /\ Counts'
    BY <1>1, <1>2, CountsHold, CountsHoldAfter
  <2>3. Keeps
    BY <2>1, <2>2, KeepsProcess
  <2> QED  BY <1>2, <2>3, Afforded
<1> QED  BY <1>2, <1>3 DEF PanelInv

LEMMA RepairsNat ==
    Repairs \in Nat /\ Repairs' \in Nat /\ Repairs <= 1 /\ Repairs' <= 1
BY DEF Repairs

Ends(p, clean) ==
    /\ End(p, clean)
    /\ Alone
    /\ own' = own
    /\ crashes' \in 0..MaxCrashes
    /\ crashes' = crashes \/ crashes' = crashes + 1
    /\ \/ clean
       \/ crashes' = crashes + 1
       \/ proc[p] = "starting" /\ Locked # {}

LEMMA EndInv ==
    ASSUME PanelInv, NEW p \in Living, NEW clean \in BOOLEAN, Ends(p, clean)
    PROVE  PanelInv'
<1>1. TypeOK /\ Follows
  BY InvFacts, RefreshFacts
<1>2. /\ proc' \in [Pids -> {"none", "starting", "up", "exiting", "zombie",
                             "gone"}]
      /\ unit' = IF p # service THEN unit
                 ELSE IF clean THEN "inactive" ELSE "activating"
      /\ Unused' = Unused
      /\ Starting' = Starting \ {p}
      /\ Locked' = Locked \ {p}
      /\ Follows'
  <2>1. End(p, clean) /\ service' = service
    BY DEF Ends, Alone
  <2> QED  BY <1>1, <2>1, EndFacts
<1>3. ProcessTypeOK'
  <2>1. own' = own /\ service' = service
    BY DEF Ends, Alone
  <2> QED  BY <1>2, <2>1, InvFacts DEF ProcessTypeOK
<1>4. Contests' <= Contests
  <2>1. Rivals' \subseteq Rivals
    BY <1>2 DEF Ends, Alone, Rivals, Starting
  <2> QED  BY <1>1, <2>1, Fewer, Numbers DEF Contests
<1>5. Failing' => Failing \/ crashes' = crashes + 1
  <2>1. CASE p # service
    <3>1. service # 0 => (service \in Starting' => service \in Starting)
      BY <1>2
    <3>2. unit = "active" => service \in Pids
      BY InvFacts
    <3>3. service' = service
      BY DEF Ends, Alone
    <3> QED  BY <1>2, <2>1, <3>1, <3>2, <3>3 DEF Failing, Starting
  <2>2. CASE p = service /\ clean
    BY <1>2, <2>2 DEF Failing
  <2>3. CASE p = service /\ ~clean
    <3>1. unit = "active"
      BY <1>1, <2>3, InvFacts DEF Follows, Living
    <3> QED  BY <2>3, <3>1 DEF Ends, Failing
  <2> QED  BY <2>1, <2>2, <2>3
<1>6. crashes' = crashes => Repairs' <= Repairs
  <2>1. crashes # crashes + 1
    BY InvFacts
  <2>2. crashes' = crashes => (Failing' => Failing)
    BY <1>5, <2>1
  <2> QED  BY <2>2 DEF Repairs
<1>7. Contests' + Repairs' + crashes <= Contests + Repairs + crashes'
  <2>1. Contests \in Nat /\ Contests' \in Nat
    <3>1. Rivals' \in SUBSET Pids
      BY DEF Rivals
    <3> QED  BY <1>1, <3>1, Numbers, Counted DEF Contests
  <2>2. crashes \in Nat /\ (crashes' = crashes \/ crashes' = crashes + 1)
    BY InvFacts DEF Ends
  <2> QED  BY <1>4, <1>6, <2>1, <2>2, RepairsNat
<1> QED  BY <1>2, <1>3, <1>7, ProcessStep DEF Ends

\* A server comes up: it is that of the unit, which does not fail then, or
\* another one that makes it fail.
Opens(p) ==
    /\ proc[p] = "starting"
    /\ Locked = {}
    /\ proc' = [proc EXCEPT ![p] = "up"]
    /\ Alone
    /\ UNCHANGED <<own, unit, crashes>>

LEMMA UpInv ==
    ASSUME PanelInv, NEW p \in Pids, Opens(p)
    PROVE  PanelInv'
<1>1. TypeOK /\ Follows
  BY InvFacts, RefreshFacts
<1>2. /\ proc' \in [Pids -> {"none", "starting", "up", "exiting", "zombie",
                             "gone"}]
      /\ proc'[p] = "up"
      /\ \A r \in Pids : r # p => proc'[r] = proc[r]
  BY InvFacts DEF Opens, ProcessTypeOK
<1>3. Unused' = Unused /\ Living' = Living
  BY <1>2 DEF Opens, Unused, Living
<1>4. /\ service' = service /\ unit' = unit /\ own' = own /\ crashes' = crashes
      /\ proc[p] = "starting" /\ Alone
  BY DEF Opens, Alone
<1>5. ProcessTypeOK' /\ Follows'
  BY <1>1, <1>2, <1>3, <1>4, InvFacts DEF ProcessTypeOK, Follows
<1>6. Contests \in Nat /\ Contests' \in Nat
  <2>1. Rivals' \in SUBSET Pids
    BY DEF Rivals
  <2> QED  BY <1>1, <2>1, Numbers, Counted DEF Contests
<1>7. Contests' + Repairs' <= Contests + Repairs
  <2>1. CASE p \in Rivals
    <3>1. Rivals' = Rivals \ {p}
      BY <1>2, <1>4 DEF Rivals
    <3>2. Contests' = Contests - 1
      BY <1>1, <2>1, <3>1, OneLess, Numbers DEF Contests
    <3>3. \A c, f, c2, f2 \in Nat :
             c2 + 1 = c /\ f2 <= 1 => c2 + f2 <= c + f
      OBVIOUS
    <3>4. Contests' + 1 = Contests
      BY <1>6, <3>2
    <3> QED  BY <1>6, <3>3, <3>4, RepairsNat
  <2>2. CASE p \notin Rivals
    <3>1. Rivals' = Rivals
      BY <1>2, <1>4, <2>2 DEF Rivals
    <3>2. ~Failing'
      <4>1. service = 0 \/ p = service
        BY <1>4, <2>2 DEF Rivals
      <4>2. CASE service = 0
        BY <1>4, <4>2, InvFacts DEF Failing
      <4>3. CASE p = service
        <5>1. unit = "active"
          BY <1>1, <1>4, <4>3, InvFacts DEF Follows, Living
        <5> QED  BY <1>2, <1>4, <4>3, <5>1 DEF Failing
      <4> QED  BY <4>1, <4>2, <4>3
    <3>3. Repairs' = 0 /\ Contests' = Contests
      BY <3>1, <3>2 DEF Repairs, Contests
    <3> QED  BY <1>6, <3>3, RepairsNat
  <2> QED  BY <2>1, <2>2
<1>8. Contests' + Repairs' + crashes <= Contests + Repairs + crashes'
  <2>1. \A c, f, c2, f2, k \in Nat :
           c2 + f2 <= c + f => c2 + f2 + k <= c + f + k
    OBVIOUS
  <2>2. crashes \in Nat /\ crashes' = crashes
    BY <1>4, InvFacts
  <2> QED  BY <1>6, <1>7, <2>1, <2>2, RepairsNat
<1>9. crashes' \in 0..MaxCrashes
  BY <1>4, InvFacts
<1> QED  BY <1>3, <1>4, <1>5, <1>8, <1>9, ProcessStep

LEMMA ServerInv ==
    ASSUME PanelInv, NEW p \in Pids, Boot(p) \/ Exit(p) \/ Crash(p)
    PROVE  PanelInv'
<1>1. CASE Boot(p) /\ Locked = {}
  <2>1. Opens(p)
    BY <1>1 DEF Boot, Opens, Alone
  <2> QED  BY <2>1, UpInv
<1>2. CASE Boot(p) /\ Locked # {}
  <2>1. p \in Living
    BY <1>2 DEF Boot, Living
  <2>2. Ends(p, FALSE)
    BY <1>2, InvFacts DEF Boot, Ends, Alone
  <2> QED  BY <2>1, <2>2, EndInv
<1>3. CASE Exit(p)
  <2>1. p \in Living
    BY <1>3 DEF Exit, Living
  <2>2. CASE UNCHANGED crashes /\ End(p, TRUE)
    <3>1. Ends(p, TRUE)
      BY <1>3, <2>2, InvFacts DEF Exit, Ends, Alone
    <3> QED  BY <2>1, <3>1, EndInv
  <2>3. CASE Fail /\ End(p, Awaited)
    <3>1. Awaited \in BOOLEAN
      BY DEF Awaited
    <3>2. crashes' \in 0..MaxCrashes /\ crashes' = crashes + 1
      BY <2>3, InvFacts, BoundsAssumption DEF Fail
    <3>3. Ends(p, Awaited)
      BY <1>3, <2>3, <3>2 DEF Exit, Ends, Alone
    <3> QED  BY <2>1, <3>1, <3>2, <3>3, EndInv
  <2> QED  BY <1>3, <2>2, <2>3 DEF Exit
<1>4. CASE Crash(p)
  <2>1. p \in Living
    BY <1>4 DEF Crash, Living
  <2>2. crashes' \in 0..MaxCrashes /\ crashes' = crashes + 1
    BY <1>4, InvFacts, BoundsAssumption DEF Crash, Fail
  <2>3. Ends(p, FALSE)
    BY <1>4, <2>2 DEF Crash, Ends, Alone
  <2> QED  BY <2>1, <2>3, EndInv
<1> QED  BY <1>1, <1>2, <1>3, <1>4

LEMMA NextPanelInv == PanelInv /\ [Next]_vars => PanelInv'
<1> SUFFICES ASSUME PanelInv, [Next]_vars
             PROVE  PanelInv'
  OBVIOUS
<1>1. CASE Collect
  BY <1>1, CollectInv
<1>2. ASSUME NEW i \in 1..Len(samples), StatsMsg(i)
      PROVE  PanelInv'
  BY <1>2, StatsMsgInv
<1>3. CASE TickMsg
  BY <1>3, TickMsgInv
<1>4. CASE KeyRefresh
  BY <1>4, KeyRefreshInv
<1>5. CASE KeyToggle
  BY <1>5, KeyToggleInv
<1>6. ASSUME NEW what \in {"build", "upgrade"}, KeyInstall(what)
      PROVE  PanelInv'
  BY <1>6, KeyInstallInv
<1>7. CASE Quit
  BY <1>7, QuitInv
<1>8. ASSUME NEW i \in 1..Len(jobs), Job(i)
      PROVE  PanelInv'
  BY <1>8, JobInv
<1>9. CASE ClearActionMsg
  BY <1>9, ClearActionMsgInv
<1>10. ASSUME NEW p \in Pids, Boot(p) \/ Exit(p) \/ Crash(p)
       PROVE  PanelInv'
  BY <1>10, ServerInv
<1>11. CASE Restart
  BY <1>11, RestartInv
<1>12. CASE UNCHANGED vars
  <2>1. TypeOK /\ RefreshChains /\ KeysSpent
    BY RefreshFacts
  <2>2. /\ UNCHANGED <<ui, refresh, clears, jobs, own, proc, unit, service,
                       crashes, keys, extra>>
        /\ keys' >= keys
    BY <1>12, Counters DEF vars, processes, systemd, PanelInv
  <2>3. TypeOK'
    BY <2>1, <2>2 DEF TypeOK, UiTypeOK, RefreshTypeOK, JobsTypeOK,
    ProcessTypeOK, CountTypeOK, ui, refresh
  <2>4. RefreshChains'
    BY <2>2, SameRefreshes DEF ui
  <2>5. KeysSpent'
    BY <2>1, <2>2, Zenon DEF KeysSpent
  <2> QED  BY <2>2, <2>3, <2>4, <2>5, SameProcesses DEF PanelInv
<1> QED  BY <1>1, <1>2, <1>3, <1>4, <1>5, <1>6, <1>7, <1>8, <1>9, <1>10,
         <1>11, <1>12 DEF Next

-----------------------------------------------------------------------------
(* The theorems.                                                           *)

\* For any keys and crashes: systemd knows its server, a key is the cause of one
\* command or one refresh, and what can still be started does not exceed the
\* processes there are.
THEOREM PanelInvariance == Spec => []PanelInv
BY InitPanelInv, NextPanelInv, PTL DEF Spec

\* In watch mode there is always exactly one refresh under way for the start,
\* for each "r" and for each command that ended, however results, ticks and
\* commands overlap; outside watch mode no tick is started.
THEOREM RefreshesGoOn == Spec => []RefreshChains
<1>1. PanelInv => RefreshChains
  BY DEF PanelInv
<1> QED  BY <1>1, PanelInvariance, PTL

\* What waits at once: every place of a queue that a result or a command can
\* have is one FairSpec is fair to.
Attended ==
    /\ Len(jobs) <= MaxKeys
    /\ ~quit => Len(samples) <= MaxKeys + 1

\* However often results, ticks and commands overlap, no more of them wait than
\* keys were pressed, and one refresh: Update falls behind by no more.
THEOREM WorkIsBounded == Spec => []Attended
<1>1. PanelInv => Attended
  <2> SUFFICES ASSUME PanelInv PROVE Attended
    OBVIOUS
  <2>1. keys \in Nat /\ keys <= MaxKeys /\ MaxKeys \in Nat
    BY CountsHold, BoundsAssumption DEF PanelInv, Counts
  <2>2. extra + Len(jobs) <= keys
    BY DEF PanelInv, KeysSpent
  <2>3. Len(jobs) <= MaxKeys /\ extra <= MaxKeys
    BY <2>1, <2>2, RefreshFacts
  <2>4. ASSUME ~quit PROVE Total <= 1 + extra
    <3>1. (watchMode /\ Steady) \/ (~watchMode /\ Ending)
      BY <2>4, RefreshFacts, RefreshParts
    <3>2. Steady => Total <= 1 + extra
      BY TotalNat DEF Steady
    <3> QED  BY <3>1, <3>2 DEF Ending
  <2>5. Len(samples) <= Total
    BY RefreshNats DEF Total
  <2>6. Total <= 1 + extra => Len(samples) <= MaxKeys + 1
    BY <2>1, <2>3, <2>5, TotalNat, RefreshNats
  <2> QED  BY <2>3, <2>4, <2>6 DEF Attended
<1> QED  BY <1>1, PanelInvariance, PTL

\* A command that starts a server, or a unit that systemd restarts.
Startable == StartersIn(jobs) # {} \/ unit = "activating"

\* Whenever a command or systemd can start a server, one is left in the model:
\* the bound on processes cuts off no behaviour.
THEOREM ProcessesSuffice == Spec => [](Startable => Fresh \in Unused)
<1>1. PanelInv /\ Startable => Fresh \in Unused
  <2> SUFFICES ASSUME PanelInv, Startable
               PROVE  Fresh \in Unused
    OBVIOUS
  <2>1. Unused # {} /\ TypeOK
    BY Room, RefreshFacts DEF Startable
  <2>2. Fresh \in Pids /\ proc[Fresh] = "none"
    BY <2>1, FreshFacts
  <2> QED  BY <2>2 DEF Unused
<1> QED  BY <1>1, PanelInvariance, PTL

=============================================================================
