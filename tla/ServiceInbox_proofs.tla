-------------------------- MODULE ServiceInbox_proofs --------------------------
(***************************************************************************)
(* For every number of requests, keys, phones, restarts and file faults,   *)
(* the safety properties of the inbox of notifications.  What stands in    *)
(* the file is never reserved for nothing, also when it drops old keys;    *)
(* that a key works once takes a file with room for every key.             *)
(***************************************************************************)
EXTENDS ServiceInbox, FiniteSetTheorems, TLAPS

(* The file of the code keeps ten thousand keys.                           *)
RoomForAll ==
  /\ IsFiniteSet(Key) /\ IsFiniteSet(Request)
  /\ Cardinality(Key) <= Keep

Distinct(keys) == \A i, j \in DOMAIN keys : keys[i] = keys[j] => i = j

Held == {"working", "ok", "lost"}
Holders(k) == {r \in Request : KeyOf[r] = k /\ stage[r] \in Held}
Informed(k, n) == {r \in Holders(k) : told[r] >= n}

(* A key that is not reserved has no holder, but for the file's faults.    *)
HoldersBounded ==
  \A k \in Key : Cardinality(Holders(k)) <= faults + (IF In(k, reserved) THEN 1 ELSE 0)

(* Every notification is due to a request that failed or to one that holds *)
(* the key and has come as far.                                            *)
SentAccounted ==
  \A k \in Key : \A n \in 0 .. Phones :
    sent[k][n] <= Cardinality(Of(k, "failed")) + Cardinality(Informed(k, n))

(* A new request has told nobody, one that works has not told everybody.   *)
ToldInStage ==
  \A r \in Request :
    /\ stage[r] = "new" => told[r] = 0
    /\ stage[r] = "working" => told[r] < Phones

ReasonsCounted == IsFiniteSet(HeldForNothing) /\ ReservedForAReason

(* What holds however small the file is, and what takes room for all.      *)
FileInv ==
  /\ TypeOK
  /\ Distinct(reserved)
  /\ ToldInStage
  /\ ReasonsCounted

IInv ==
  /\ FileInv
  /\ HoldersBounded
  /\ SentAccounted

---------------------------------------------------------------------------
(* The file.                                                               *)

LEMMA HasRoom ==
  ASSUME RoomForAll, NEW s \in Seq(Key), Distinct(s), NEW k \in Key, ~In(k, s)
  PROVE  Len(s) < Keep
<1>1. s \in Injection(1 .. Len(s), Key \ {k})
  BY DEF Distinct, In, Injection, IsInjective
<1>2. IsFiniteSet(Key \ {k}) /\ Cardinality(Key \ {k}) = Cardinality(Key) - 1
  BY FS_RemoveElement DEF RoomForAll
<1>3. Cardinality(1 .. Len(s)) <= Cardinality(Key \ {k})
  BY <1>1, <1>2, FS_Injection
<1>4. Cardinality(1 .. Len(s)) = Len(s)
  <2>1. Len(s) \in Nat /\ Len(s) \in Int /\ 1 \in Int
    OBVIOUS
  <2>2. Cardinality(1 .. Len(s)) = IF 1 > Len(s) THEN 0 ELSE Len(s) - 1 + 1
    BY <2>1, FS_Interval
  <2> QED
    BY <2>1, <2>2
<1>5. Cardinality(Key) \in Nat
  BY FS_CardinalityType DEF RoomForAll
<1> QED
  BY <1>2, <1>3, <1>4, <1>5, InboxAssumption DEF RoomForAll

LEMMA AppendIs ==
  ASSUME NEW s \in Seq(Key), Distinct(s), NEW k \in Key, ~In(k, s)
  PROVE  /\ Append(s, k) \in Seq(Key) /\ Distinct(Append(s, k))
         /\ \A x \in Key : In(x, Append(s, k)) <=> x = k \/ In(x, s)
         /\ Front(Append(s, k)) = s
<1> DEFINE t == Append(s, k)
<1>2. /\ t \in Seq(Key) /\ Len(t) = Len(s) + 1 /\ t[Len(s) + 1] = k
      /\ \A i \in 1 .. Len(s) : t[i] = s[i]
  OBVIOUS
<1>3. SubSeq(t, 1, Len(t) - 1) = s
  OBVIOUS
<1> HIDE DEF t
<1>4. Distinct(t)
  BY <1>2 DEF Distinct, In
<1>5. ASSUME NEW x \in Key
      PROVE  In(x, t) <=> x = k \/ In(x, s)
  <2>1. In(k, t)
    BY <1>2 DEF In
  <2>2. In(x, s) => In(x, t)
    BY <1>2 DEF In
  <2>3. In(x, t) => x = k \/ In(x, s)
    BY <1>2 DEF In
  <2> QED
    BY <2>1, <2>2, <2>3
<1> QED
  BY <1>2, <1>3, <1>4, <1>5 DEF t, Front

LEMMA TailIs ==
  ASSUME NEW s \in Seq(Key), Distinct(s), s # <<>>
  PROVE  /\ Tail(s) \in Seq(Key) /\ Distinct(Tail(s))
         /\ \A x \in Key : In(x, Tail(s)) => In(x, s)
<1> DEFINE t == Tail(s)
<1>1. /\ t \in Seq(Key) /\ Len(s) \in Nat /\ Len(t) = Len(s) - 1
      /\ \A i \in 1 .. Len(t) : i + 1 \in 1 .. Len(s) /\ t[i] = s[i + 1]
  OBVIOUS
<1> HIDE DEF t
<1>2. Distinct(t)
  <2> SUFFICES ASSUME NEW i \in DOMAIN t, NEW j \in DOMAIN t, t[i] = t[j]
               PROVE  i = j
    BY DEF Distinct
  <2>1. i \in Nat /\ j \in Nat /\ i + 1 \in DOMAIN s /\ j + 1 \in DOMAIN s /\ s[i + 1] = s[j + 1]
    BY <1>1
  <2>2. i + 1 = j + 1
    BY <2>1 DEF Distinct
  <2> QED
    BY <2>1, <2>2
<1>3. ASSUME NEW x \in Key, In(x, t)
      PROVE  In(x, s)
  BY <1>1, <1>3 DEF In
<1> QED
  BY <1>1, <1>2, <1>3 DEF t

LEMMA ReserveIs ==
  ASSUME RoomForAll, NEW s \in Seq(Key), Distinct(s), NEW k \in Key, ~In(k, s)
  PROVE  /\ Reserve(s, k) \in Seq(Key) /\ Distinct(Reserve(s, k))
         /\ \A x \in Key : In(x, Reserve(s, k)) <=> x = k \/ In(x, s)
         /\ Front(Reserve(s, k)) = s
<1>1. Reserve(s, k) = Append(s, k)
  BY HasRoom DEF Reserve
<1> QED
  BY <1>1, AppendIs

(* A file that is full drops its oldest key.                               *)
LEMMA ReserveAdds ==
  ASSUME NEW s \in Seq(Key), Distinct(s), NEW k \in Key, ~In(k, s)
  PROVE  /\ Reserve(s, k) \in Seq(Key) /\ Distinct(Reserve(s, k))
         /\ Front(Reserve(s, k)) \in Seq(Key) /\ Distinct(Front(Reserve(s, k)))
         /\ \A x \in Key : In(x, Reserve(s, k)) => x = k \/ In(x, s)
         /\ \A x \in Key : In(x, Front(Reserve(s, k))) => In(x, s)
<1> DEFINE t == IF Len(s) < Keep THEN s ELSE Tail(s)
<1>1. Reserve(s, k) = Append(t, k)
  BY DEF Reserve
<1>2. /\ t \in Seq(Key) /\ Distinct(t)
      /\ \A x \in Key : In(x, t) => In(x, s)
  <2>1. CASE Len(s) < Keep
    BY <2>1
  <2>2. CASE ~(Len(s) < Keep)
    <3>1. s # <<>>
      BY <2>2, InboxAssumption
    <3> QED
      BY <2>2, <3>1, TailIs
  <2> QED
    BY <2>1, <2>2
<1> HIDE DEF t
<1> QED
  BY <1>1, <1>2, AppendIs

LEMMA EmptyIs ==
  /\ <<>> \in Seq(Key) /\ Distinct(<<>>)
  /\ \A x \in Key : ~In(x, <<>>)
  BY DEF Distinct, In

LEMMA RemoveIs ==
  ASSUME NEW s \in Seq(Key), Distinct(s), NEW i \in DOMAIN s
  PROVE  /\ RemoveAt(s, i) \in Seq(Key) /\ Distinct(RemoveAt(s, i))
         /\ \A x \in Key : In(x, RemoveAt(s, i)) <=> In(x, s) /\ x # s[i]
<1> DEFINE t == RemoveAt(s, i)
<1>1. /\ t \in Seq(Key) /\ Len(t) = Len(s) - 1
      /\ \A j \in 1 .. Len(t) : t[j] = IF j < i THEN s[j] ELSE s[j + 1]
  <2> DEFINE a == SubSeq(s, 1, i - 1)
             b == SubSeq(s, i + 1, Len(s))
  <2>1. /\ a \in Seq(Key) /\ Len(a) = i - 1
        /\ \A j \in 1 .. i - 1 : a[j] = s[j]
    OBVIOUS
  <2>2. /\ b \in Seq(Key) /\ Len(b) = Len(s) - i
        /\ \A j \in 1 .. Len(s) - i : b[j] = s[i + j]
    OBVIOUS
  <2>3. t = a \o b
    BY DEF RemoveAt
  <2> HIDE DEF a, b
  <2>4. i \in Int /\ Len(s) \in Nat
    OBVIOUS
  <2>5. ASSUME NEW j \in 1 .. Len(s) - 1
        PROVE  (a \o b)[j] = IF j < i THEN s[j] ELSE s[j + 1]
    <3>1. CASE j < i
      BY <2>1, <2>2, <2>4, <3>1
    <3>2. CASE ~(j < i)
      <4>1. j - (i - 1) \in 1 .. Len(s) - i
        BY <2>4, <3>2
      <4>2. (a \o b)[j] = b[j - (i - 1)]
        BY <2>1, <2>2, <2>4, <3>2
      <4>3. i + (j - (i - 1)) = j + 1
        BY <2>4
      <4> QED
        BY <2>2, <3>2, <4>1, <4>2, <4>3
    <3> QED
      BY <3>1, <3>2
  <2>6. a \o b \in Seq(Key) /\ Len(a \o b) = Len(s) - 1
    BY <2>1, <2>2, <2>4
  <2> HIDE DEF t
  <2> QED
    BY <2>3, <2>4, <2>5, <2>6
<1> HIDE DEF t
<1>2. Distinct(t)
  <2> SUFFICES ASSUME NEW j \in DOMAIN t, NEW m \in DOMAIN t, t[j] = t[m]
               PROVE  j = m
    BY DEF Distinct
  <2> DEFINE Old(n) == IF n < i THEN n ELSE n + 1
  <2>1. Old(j) \in DOMAIN s /\ Old(m) \in DOMAIN s /\ t[j] = s[Old(j)] /\ t[m] = s[Old(m)]
    BY <1>1
  <2>2. Old(j) = Old(m)
    BY <2>1 DEF Distinct
  <2> QED
    BY <1>1, <2>2
<1>3. ASSUME NEW x \in Key, In(x, t)
      PROVE  In(x, s) /\ x # s[i]
  BY <1>1, <1>3 DEF Distinct, In
<1>4. ASSUME NEW x \in Key, In(x, s), x # s[i]
      PROVE  In(x, t)
  <2>1. PICK j \in DOMAIN s : s[j] = x
    BY <1>4 DEF In
  <2>2. CASE j < i
    BY <1>1, <2>1, <2>2 DEF In
  <2>3. CASE j > i
    <3>1. j - 1 \in 1 .. Len(t) /\ t[j - 1] = x
      BY <1>1, <2>1, <2>3
    <3> QED
      BY <1>1, <3>1 DEF In
  <2> QED
    BY <1>4, <2>1, <2>2, <2>3
<1> QED
  BY <1>1, <1>2, <1>3, <1>4 DEF t

---------------------------------------------------------------------------
(* Sets of requests that differ in one request.                            *)

LEMMA DifferAt ==
  ASSUME IsFiniteSet(Request), NEW r \in Request,
         NEW S \in SUBSET Request, NEW T \in SUBSET Request,
         \A q \in Request \ {r} : q \in S <=> q \in T
  PROVE  /\ Cardinality(S) \in Nat /\ Cardinality(T) \in Nat
         /\ r \in S /\ r \notin T => Cardinality(T) = Cardinality(S) - 1
         /\ r \notin S /\ r \in T => Cardinality(T) = Cardinality(S) + 1
         /\ (r \in S <=> r \in T) => T = S
<1>1. IsFiniteSet(S) /\ IsFiniteSet(T)
  BY FS_Subset
<1>2. Cardinality(S) \in Nat /\ Cardinality(T) \in Nat
  BY <1>1, FS_CardinalityType
<1>3. ASSUME r \in S, r \notin T
      PROVE  Cardinality(T) = Cardinality(S) - 1
  <2>1. T = S \ {r}
    BY <1>3
  <2> QED
    BY <1>1, <1>3, <2>1, FS_RemoveElement
<1>4. ASSUME r \notin S, r \in T
      PROVE  Cardinality(T) = Cardinality(S) + 1
  <2>1. T = S \cup {r}
    BY <1>4
  <2> QED
    BY <1>1, <1>4, <2>1, FS_AddElement
<1>5. (r \in S <=> r \in T) => T = S
  OBVIOUS
<1> QED
  BY <1>2, <1>3, <1>4, <1>5

---------------------------------------------------------------------------
(* What a change of the stage of one request does to the counts.           *)

LEMMA Progresses ==
  ASSUME TypeOK, NEW r \in Request, NEW st \in Stage, Becomes(r, st)
  PROVE  /\ stage' \in [Request -> Stage]
         /\ stage'[r] = st
         /\ \A q \in Request \ {r} : stage'[q] = stage[q]
  BY DEF TypeOK, Becomes

LEMMA HoldersMove ==
  ASSUME TypeOK, RoomForAll, NEW r \in Request, NEW st \in Stage, Becomes(r, st), NEW k \in Key
  PROVE  /\ Cardinality(Holders(k)) \in Nat /\ Cardinality(Holders(k)') \in Nat
         /\ r \in Holders(k) <=> KeyOf[r] = k /\ stage[r] \in Held
         /\ r \in Holders(k)' <=> KeyOf[r] = k /\ st \in Held
         /\ r \in Holders(k) /\ r \notin Holders(k)' => Cardinality(Holders(k)') = Cardinality(Holders(k)) - 1
         /\ r \notin Holders(k) /\ r \in Holders(k)' => Cardinality(Holders(k)') = Cardinality(Holders(k)) + 1
         /\ (r \in Holders(k) <=> r \in Holders(k)') => Holders(k)' = Holders(k)
<1>1. /\ Holders(k) \in SUBSET Request /\ Holders(k)' \in SUBSET Request
      /\ \A q \in Request \ {r} : q \in Holders(k) <=> q \in Holders(k)'
      /\ r \in Holders(k) <=> KeyOf[r] = k /\ stage[r] \in Held
      /\ r \in Holders(k)' <=> KeyOf[r] = k /\ st \in Held
  BY Progresses DEF Holders
<1> QED
  BY <1>1, DifferAt DEF RoomForAll

LEMMA FailedMove ==
  ASSUME RoomForAll, NEW r \in Request, stage[r] # "failed",
         \A q \in Request \ {r} : stage'[q] = stage[q], NEW k \in Key
  PROVE  /\ Cardinality(Of(k, "failed")) \in Nat
         /\ Cardinality(Of(k, "failed")') =
              Cardinality(Of(k, "failed")) + (IF KeyOf[r] = k /\ stage'[r] = "failed" THEN 1 ELSE 0)
<1> DEFINE F == Of(k, "failed")
           G == {q \in Request : KeyOf[q] = k /\ stage'[q] = "failed"}
<1>1. /\ F \in SUBSET Request /\ G \in SUBSET Request
      /\ \A q \in Request \ {r} : q \in F <=> q \in G
      /\ r \notin F /\ (r \in G <=> KeyOf[r] = k /\ stage'[r] = "failed")
  BY DEF Of
<1>2. Of(k, "failed")' = G
  BY DEF Of
<1> HIDE DEF F, G
<1>3. /\ Cardinality(F) \in Nat /\ Cardinality(G) \in Nat
      /\ r \in G => Cardinality(G) = Cardinality(F) + 1
      /\ r \notin G => G = F
  BY <1>1, DifferAt DEF RoomForAll
<1>4. Cardinality(G) = Cardinality(F) + (IF KeyOf[r] = k /\ stage'[r] = "failed" THEN 1 ELSE 0)
  BY <1>1, <1>3
<1> QED
  BY <1>2, <1>3, <1>4 DEF F

LEMMA InformedMove ==
  ASSUME RoomForAll, NEW r \in Request,
         \A q \in Request \ {r} : stage'[q] = stage[q] /\ told'[q] = told[q],
         NEW k \in Key, NEW n \in 0 .. Phones
  PROVE  /\ Cardinality(Informed(k, n)) \in Nat /\ Cardinality(Informed(k, n)') \in Nat
         /\ r \in Informed(k, n) /\ r \notin Informed(k, n)'
              => Cardinality(Informed(k, n)') = Cardinality(Informed(k, n)) - 1
         /\ r \notin Informed(k, n) /\ r \in Informed(k, n)'
              => Cardinality(Informed(k, n)') = Cardinality(Informed(k, n)) + 1
         /\ (r \in Informed(k, n) <=> r \in Informed(k, n)')
              => Cardinality(Informed(k, n)') = Cardinality(Informed(k, n))
<1>1. /\ Informed(k, n) \in SUBSET Request /\ Informed(k, n)' \in SUBSET Request
      /\ \A q \in Request \ {r} : q \in Informed(k, n) <=> q \in Informed(k, n)'
  BY DEF Informed, Holders
<1> QED
  BY <1>1, DifferAt DEF RoomForAll

---------------------------------------------------------------------------
(* What claim and release do to the file.                                  *)

LEMMA ClaimedIs ==
  ASSUME TypeOK, Distinct(reserved), RoomForAll, NEW k \in Key, Claimed(k)
  PROVE  /\ reserved' \in Seq(Key) /\ Distinct(reserved)' /\ faults' \in 0 .. MaxFaults
         /\ \/ /\ faults' = faults /\ ~In(k, reserved)
               /\ \A x \in Key : In(x, reserved)' <=> x = k \/ In(x, reserved)
            \/ /\ faults' = faults + 1
               /\ \A x \in Key : In(x, reserved)' <=> x = k
<1>0. reserved \in Seq(Key) /\ faults \in 0 .. MaxFaults
  BY DEF TypeOK
<1>1. CASE FileWorks /\ ~In(k, reserved) /\ reserved' = Reserve(reserved, k)
  BY <1>0, <1>1, ReserveIs DEF FileWorks
<1>2. CASE FileFails /\ reserved' = Reserve(<<>>, k)
  <2>1. /\ reserved' \in Seq(Key) /\ Distinct(reserved')
        /\ \A x \in Key : In(x, reserved') <=> x = k
    BY <1>2, EmptyIs, ReserveIs
  <2> QED
    BY <1>0, <1>2, <2>1, InboxAssumption DEF FileFails
<1> QED
  BY <1>1, <1>2 DEF Claimed

LEMMA ClaimedAdds ==
  ASSUME TypeOK, Distinct(reserved), NEW k \in Key, Claimed(k)
  PROVE  /\ reserved' \in Seq(Key) /\ Distinct(reserved)'
         /\ faults' \in 0 .. MaxFaults /\ faults' >= faults
         /\ \A x \in Key : In(x, reserved)' => x = k \/ In(x, reserved)
<1>0. reserved \in Seq(Key) /\ faults \in 0 .. MaxFaults
  BY DEF TypeOK
<1>1. CASE FileWorks /\ ~In(k, reserved) /\ reserved' = Reserve(reserved, k)
  BY <1>0, <1>1, ReserveAdds DEF FileWorks
<1>2. CASE FileFails /\ reserved' = Reserve(<<>>, k)
  <2>1. /\ reserved' \in Seq(Key) /\ Distinct(reserved')
        /\ \A x \in Key : In(x, reserved') => x = k
    BY <1>2, EmptyIs, ReserveAdds
  <2> QED
    BY <1>0, <1>2, <2>1, InboxAssumption DEF FileFails
<1> QED
  BY <1>1, <1>2 DEF Claimed

LEMMA ReleaseIs ==
  ASSUME TypeOK, Distinct(reserved), NEW k \in Key, Release(k)
  PROVE  /\ reserved' \in Seq(Key) /\ Distinct(reserved)' /\ faults' \in 0 .. MaxFaults
         /\ \/ /\ faults' = faults
               /\ \A x \in Key : In(x, reserved)' <=> In(x, reserved) /\ x # k
            \/ faults' = faults + 1 /\ reserved' = reserved
<1>0. reserved \in Seq(Key) /\ faults \in 0 .. MaxFaults
  BY DEF TypeOK
<1>1. CASE FileWorks /\ ~In(k, reserved) /\ reserved' = reserved
  BY <1>0, <1>1 DEF FileWorks
<1>2. CASE FileWorks /\ \E i \in DOMAIN reserved : reserved[i] = k /\ reserved' = RemoveAt(reserved, i)
  BY <1>0, <1>2, RemoveIs DEF FileWorks
<1>3. CASE FileFails /\ reserved' = reserved
  BY <1>0, <1>3, InboxAssumption DEF FileFails
<1> QED
  BY <1>1, <1>2, <1>3 DEF Release

(* A key that is held for nothing has no holder.                           *)
LEMMA ForNothingIs ==
  /\ HeldForNothing \in SUBSET Key
  /\ \A k \in Key : k \in HeldForNothing <=> In(k, reserved) /\ Holders(k) = {}
  BY DEF HeldForNothing, Holders, Held, Of

LEMMA AtMostOneMore ==
  ASSUME NEW S, IsFiniteSet(S), NEW T, NEW k
  PROVE  /\ Cardinality(S) \in Nat
         /\ T \subseteq S => IsFiniteSet(T) /\ Cardinality(T) <= Cardinality(S)
         /\ T \subseteq S \cup {k} => IsFiniteSet(T) /\ Cardinality(T) <= Cardinality(S) + 1
<1>1. Cardinality(S) \in Nat
  BY FS_CardinalityType
<1>2. T \subseteq S => IsFiniteSet(T) /\ Cardinality(T) <= Cardinality(S)
  BY FS_Subset
<1>3. IsFiniteSet(S \cup {k}) /\ Cardinality(S \cup {k}) <= Cardinality(S) + 1
  BY <1>1, FS_AddElement
<1>4. ASSUME T \subseteq S \cup {k}
      PROVE  IsFiniteSet(T) /\ Cardinality(T) <= Cardinality(S) + 1
  <2>1. IsFiniteSet(T) /\ Cardinality(T) <= Cardinality(S \cup {k})
    BY <1>3, <1>4, FS_Subset
  <2>2. Cardinality(T) \in Nat /\ Cardinality(S \cup {k}) \in Nat
    BY <1>3, <2>1, FS_CardinalityType
  <2> QED
    BY <1>1, <1>3, <2>1, <2>2
<1> QED
  BY <1>1, <1>2, <1>4

(* The keys held for nothing grow by one at most, and only with a fault of *)
(* the file.                                                               *)
LEMMA ReasonKept ==
  ASSUME FileInv, NEW k, faults' \in Nat,
         \/ faults' >= faults /\ HeldForNothing' \subseteq HeldForNothing
         \/ faults' >= faults + 1 /\ HeldForNothing' \subseteq HeldForNothing \cup {k}
  PROVE  ReasonsCounted'
<1> DEFINE H == HeldForNothing
           G == HeldForNothing'
<1>1. faults \in Nat /\ IsFiniteSet(H) /\ Cardinality(H) <= faults
  BY DEF FileInv, TypeOK, ReasonsCounted, ReservedForAReason
<1>2. \/ faults' >= faults /\ G \subseteq H
      \/ faults' >= faults + 1 /\ G \subseteq H \cup {k}
  OBVIOUS
<1>3. ReasonsCounted' <=> IsFiniteSet(G) /\ Cardinality(G) <= faults'
  BY DEF ReasonsCounted, ReservedForAReason
<1> HIDE DEF G, H
<1>4. IsFiniteSet(G) /\ Cardinality(G) \in Nat
  BY <1>1, <1>2, AtMostOneMore, FS_CardinalityType
<1>5. Cardinality(H) \in Nat
  BY <1>1, FS_CardinalityType
<1>6. CASE faults' >= faults /\ G \subseteq H
  <2>1. Cardinality(G) <= Cardinality(H)
    BY <1>1, <1>6, AtMostOneMore
  <2> QED
    BY <1>1, <1>3, <1>4, <1>5, <1>6, <2>1
<1>7. CASE faults' >= faults + 1 /\ G \subseteq H \cup {k}
  <2>1. Cardinality(G) <= Cardinality(H) + 1
    BY <1>1, <1>7, AtMostOneMore
  <2> QED
    BY <1>1, <1>3, <1>4, <1>5, <1>7, <2>1
<1> QED
  BY <1>2, <1>6, <1>7

LEMMA PutRow ==
  ASSUME NEW S, NEW R, NEW f \in [S -> R], NEW x \in S, NEW row \in R
  PROVE  /\ [f EXCEPT ![x] = row] \in [S -> R]
         /\ \A k \in S : [f EXCEPT ![x] = row][k] = IF k = x THEN row ELSE f[k]
  OBVIOUS

(* Each notification sent adds to the requests that account for it.        *)
LEMMA SentType ==
  ASSUME TypeOK, NEW r \in Request, NEW t \in 0 .. Phones, Notify(r, t)
  PROVE  /\ sent' \in [Key -> [0 .. Phones -> Nat]]
         /\ \A k \in Key : \A n \in 0 .. Phones :
              sent'[k][n] = sent[k][n] + (IF k = KeyOf[r] /\ n = t THEN 1 ELSE 0)
<1> DEFINE x == KeyOf[r]
           Targets == 0 .. Phones
           old == sent[x]
           row == [old EXCEPT ![t] = @ + 1]
<1>1. x \in Key
  BY InboxAssumption
<1>2. sent \in [Key -> [Targets -> Nat]] /\ sent' = [sent EXCEPT ![x] = row]
  BY DEF TypeOK, Notify
<1> HIDE DEF x
<1>3. t \in Targets
  BY DEF Targets
<1> HIDE DEF Targets
<1>7. old \in [Targets -> Nat]
  BY <1>1, <1>2
<1>8. \A n \in Targets : old[n] = sent[x][n]
  OBVIOUS
<1> HIDE DEF old
<1>4. /\ row \in [Targets -> Nat]
      /\ \A n \in Targets : row[n] = old[n] + (IF n = t THEN 1 ELSE 0)
  BY <1>3, <1>7
<1> HIDE DEF row
<1>5. /\ sent' \in [Key -> [Targets -> Nat]]
      /\ \A k \in Key : sent'[k] = IF k = x THEN row ELSE sent[k]
  BY <1>1, <1>2, <1>4, PutRow
<1>6. \A k \in Key : \A n \in Targets :
        sent'[k][n] = sent[k][n] + (IF k = x /\ n = t THEN 1 ELSE 0)
  <2> SUFFICES ASSUME NEW k \in Key, NEW n \in Targets
               PROVE  sent'[k][n] = sent[k][n] + (IF k = x /\ n = t THEN 1 ELSE 0)
    OBVIOUS
  <2>1. sent[k][n] \in Nat
    BY <1>2
  <2> QED
    BY <1>4, <1>5, <1>8, <2>1
<1> QED
  BY <1>5, <1>6 DEF x, Targets

---------------------------------------------------------------------------
(* The actions.                                                            *)

LEMMA ClaimFile ==
  ASSUME FileInv, NEW r \in Request, Claim(r)
  PROVE  FileInv'
<1> DEFINE key == KeyOf[r]
           st == IF 0 = Phones THEN "ok" ELSE "working"
<1>1. /\ TypeOK /\ Distinct(reserved) /\ key \in Key /\ st \in Stage /\ st \in Held /\ Becomes(r, st)
      /\ stage[r] = "new" /\ stage[r] \notin Held /\ told[r] = 0 /\ 0 \in 0 .. Phones
      /\ told' = told /\ crashes' = crashes /\ Notify(r, 0) /\ faults \in Nat
  BY InboxAssumption DEF FileInv, TypeOK, ToldInStage, Claim, Progress, Stage, Held
<1>3. /\ reserved' \in Seq(Key) /\ Distinct(reserved)'
      /\ faults' \in 0 .. MaxFaults /\ faults' >= faults
      /\ \A x \in Key : In(x, reserved)' => x = key \/ In(x, reserved)
  BY <1>1, ClaimedAdds DEF Claim
<1> HIDE DEF key, st
<1>4. TypeOK'
  BY <1>1, <1>3, Progresses, SentType DEF TypeOK
<1>5. ToldInStage'
  <2>1. stage'[r] = st /\ \A q \in Request \ {r} : stage'[q] = stage[q]
    BY <1>1, Progresses
  <2>2. st # "new" /\ (st = "working" => 0 < Phones)
    BY InboxAssumption DEF st
  <2> QED
    BY <1>1, <2>1, <2>2 DEF FileInv, ToldInStage
<1>6. ReasonsCounted'
  <2>1. ASSUME NEW k \in HeldForNothing'
        PROVE  k \in HeldForNothing
    <3>1. k \in Key /\ In(k, reserved)' /\ Holders(k)' = {}
      BY ForNothingIs DEF HeldForNothing, Holders, Held, Of
    <3>2. r \in Holders(key)'
      BY <1>1, Progresses DEF Holders, key
    <3>3. k # key
      BY <3>1, <3>2
    <3>4. Holders(k)' = Holders(k)
      BY <1>1, <3>3, Progresses DEF Holders, key
    <3> QED
      BY <1>3, <3>1, <3>3, <3>4, ForNothingIs
  <2>2. faults' >= faults /\ faults' \in Nat
    BY <1>1, <1>3
  <2> QED
    BY <2>1, <2>2, ReasonKept
<1> QED
  BY <1>3, <1>4, <1>5, <1>6 DEF FileInv

LEMMA ClaimKeeps ==
  ASSUME IInv, RoomForAll, FileInv', NEW r \in Request, Claim(r)
  PROVE  IInv'
<1> DEFINE key == KeyOf[r]
           st == IF 0 = Phones THEN "ok" ELSE "working"
<1>1. /\ TypeOK /\ Distinct(reserved) /\ key \in Key /\ st \in Stage /\ st \in Held /\ Becomes(r, st)
      /\ stage[r] = "new" /\ stage[r] \notin Held /\ told[r] = 0 /\ 0 \in 0 .. Phones
      /\ told' = told /\ crashes' = crashes /\ Notify(r, 0) /\ faults \in Nat
  BY InboxAssumption DEF IInv, FileInv, TypeOK, ToldInStage, Claim, Progress, Stage, Held
<1>3. /\ reserved' \in Seq(Key) /\ Distinct(reserved)' /\ faults' \in 0 .. MaxFaults
      /\ \/ /\ faults' = faults /\ ~In(key, reserved)
            /\ \A x \in Key : In(x, reserved)' <=> x = key \/ In(x, reserved)
         \/ /\ faults' = faults + 1
            /\ \A x \in Key : In(x, reserved)' <=> x = key
  BY <1>1, ClaimedIs DEF Claim
<1> HIDE DEF key, st
<1>6. HoldersBounded'
  <2> SUFFICES ASSUME NEW k \in Key
               PROVE  Cardinality(Holders(k)') <= faults' + (IF In(k, reserved)' THEN 1 ELSE 0)
    BY DEF HoldersBounded
  <2>1. Cardinality(Holders(k)) <= faults + (IF In(k, reserved) THEN 1 ELSE 0)
    BY DEF IInv, HoldersBounded
  <2>2. CASE k = key
    <3>1. r \notin Holders(k) /\ r \in Holders(k)'
      BY <1>1, <2>2, HoldersMove DEF key
    <3>2. Cardinality(Holders(k)) \in Nat /\ Cardinality(Holders(k)') = Cardinality(Holders(k)) + 1
      BY <1>1, <3>1, HoldersMove
    <3> QED
      BY <1>1, <1>3, <2>1, <2>2, <3>2
  <2>3. CASE k # key
    <3>1. Holders(k)' = Holders(k)
      BY <1>1, <2>3, HoldersMove DEF key
    <3>2. Cardinality(Holders(k)) \in Nat
      BY <1>1, HoldersMove
    <3> QED
      BY <1>1, <1>3, <2>1, <2>3, <3>1, <3>2
  <2> QED
    BY <2>2, <2>3
<1>8. SentAccounted'
  <2> SUFFICES ASSUME NEW k \in Key, NEW n \in 0 .. Phones
               PROVE  sent'[k][n] <= Cardinality(Of(k, "failed")') + Cardinality(Informed(k, n)')
    BY DEF SentAccounted
  <2>1. sent[k][n] <= Cardinality(Of(k, "failed")) + Cardinality(Informed(k, n))
    BY DEF IInv, SentAccounted
  <2>2. sent[k][n] \in Nat
    BY <1>1 DEF TypeOK
  <2>3. sent'[k][n] = sent[k][n] + (IF k = KeyOf[r] /\ n = 0 THEN 1 ELSE 0)
    BY <1>1, SentType
  <2>4. /\ Cardinality(Of(k, "failed")) \in Nat
        /\ Cardinality(Of(k, "failed")') = Cardinality(Of(k, "failed"))
    <3>1. /\ stage[r] # "failed" /\ stage'[r] # "failed"
          /\ \A q \in Request \ {r} : stage'[q] = stage[q]
      BY <1>1, Progresses DEF Held
    <3> QED
      BY <1>1, <3>1, FailedMove
  <2>5. /\ Cardinality(Informed(k, n)) \in Nat
        /\ r \notin Informed(k, n)
        /\ r \in Informed(k, n)' <=> KeyOf[r] = k /\ 0 >= n
        /\ r \in Informed(k, n)' => Cardinality(Informed(k, n)') = Cardinality(Informed(k, n)) + 1
        /\ r \notin Informed(k, n)' => Cardinality(Informed(k, n)') = Cardinality(Informed(k, n))
    <3>1. r \notin Informed(k, n) /\ (r \in Informed(k, n)' <=> KeyOf[r] = k /\ 0 >= n)
      BY <1>1, Progresses DEF Informed, Holders
    <3>2. \A q \in Request \ {r} : stage'[q] = stage[q] /\ told'[q] = told[q]
      BY <1>1, Progresses
    <3> QED
      BY <3>1, <3>2, InformedMove
  <2>6. 0 >= n <=> n = 0
    OBVIOUS
  <2> QED
    BY <2>1, <2>2, <2>3, <2>4, <2>5, <2>6
<1> QED
  BY <1>6, <1>8 DEF IInv

LEMMA ClaimFailsAdds ==
  ASSUME FileInv, NEW r \in Request, ClaimFails(r) \/ ClaimRaises(r)
  PROVE  /\ reserved' \in Seq(Key) /\ Distinct(reserved)' /\ faults' \in 0 .. MaxFaults
         /\ \/ faults' = faults /\ \A x \in Key : In(x, reserved)' => In(x, reserved)
            \/ faults' > faults /\ \A x \in Key : In(x, reserved)' => x = KeyOf[r] \/ In(x, reserved)
<1> DEFINE key == KeyOf[r]
<1>1. /\ reserved \in Seq(Key) /\ Distinct(reserved) /\ key \in Key /\ faults \in 0 .. MaxFaults
  BY InboxAssumption DEF FileInv, TypeOK
<1>2. CASE FileWorks /\ ~In(key, reserved) /\ reserved' = Front(Reserve(reserved, key))
  BY <1>1, <1>2, ReserveAdds DEF FileWorks
<1>3. CASE FileFails /\ reserved' = <<>>
  BY <1>1, <1>3, EmptyIs, InboxAssumption DEF FileFails
<1>4. CASE FileFails /\ ~In(key, reserved) /\ reserved' = Reserve(reserved, key)
  <2>1. reserved' \in Seq(Key) /\ Distinct(reserved') /\ \A x \in Key : In(x, reserved') => x = key \/ In(x, reserved)
    BY <1>1, <1>4, ReserveAdds
  <2> QED
    BY <1>1, <1>4, <2>1, InboxAssumption DEF FileFails
<1>5. CASE faults + 2 <= MaxFaults /\ faults' = faults + 2 /\ reserved' = Reserve(<<>>, key)
  <2>1. reserved' \in Seq(Key) /\ Distinct(reserved') /\ \A x \in Key : In(x, reserved') => x = key
    BY <1>1, <1>5, EmptyIs, ReserveAdds
  <2> QED
    BY <1>1, <1>5, <2>1, InboxAssumption
<1>6. CASE ClaimRaises(r)
  BY <1>1, <1>6, InboxAssumption DEF ClaimRaises, FileFails
<1> QED
  BY <1>2, <1>3, <1>4, <1>5, <1>6 DEF ClaimFails

LEMMA ClaimFailsFile ==
  ASSUME FileInv, NEW r \in Request, ClaimFails(r) \/ ClaimRaises(r)
  PROVE  FileInv'
<1>1. /\ TypeOK /\ KeyOf[r] \in Key /\ "failed" \in Stage /\ Becomes(r, "failed")
      /\ stage[r] = "new" /\ 0 \in 0 .. Phones
      /\ (Notify(r, 0) \/ sent' = sent)
      /\ told' = told /\ crashes' = crashes /\ faults \in Nat
  BY InboxAssumption DEF FileInv, TypeOK, ClaimFails, ClaimRaises, Stage
<1>2. /\ reserved' \in Seq(Key) /\ Distinct(reserved)' /\ faults' \in 0 .. MaxFaults
      /\ \/ faults' = faults /\ \A x \in Key : In(x, reserved)' => In(x, reserved)
         \/ faults' > faults /\ \A x \in Key : In(x, reserved)' => x = KeyOf[r] \/ In(x, reserved)
  BY ClaimFailsAdds
<1>3. /\ stage' \in [Request -> Stage] /\ stage'[r] = "failed"
      /\ \A q \in Request \ {r} : stage'[q] = stage[q] /\ told'[q] = told[q]
  BY <1>1, Progresses
<1>4. TypeOK'
  BY <1>1, <1>2, <1>3, SentType DEF TypeOK
<1>5. ToldInStage'
  BY <1>1, <1>3 DEF FileInv, ToldInStage
<1>6. ASSUME NEW k \in Key
      PROVE  Holders(k)' = Holders(k)
  <2>1. \A q \in Request : stage'[q] \in Held <=> stage[q] \in Held
    BY <1>1, <1>3 DEF Held
  <2> QED
    BY <2>1 DEF Holders
<1>7. ReasonsCounted'
  <2>1. HeldForNothing' \in SUBSET Key
    BY DEF HeldForNothing
  <2>2. \A k \in Key : k \in HeldForNothing' <=> In(k, reserved)' /\ Holders(k) = {}
    BY <1>6 DEF HeldForNothing, Holders, Held, Of
  <2>3. faults' \in Nat /\ faults' >= faults
    BY <1>1, <1>2
  <2>4. CASE faults' = faults /\ \A x \in Key : In(x, reserved)' => In(x, reserved)
    BY <2>1, <2>2, <2>3, <2>4, ForNothingIs, ReasonKept
  <2>5. CASE faults' > faults /\ \A x \in Key : In(x, reserved)' => x = KeyOf[r] \/ In(x, reserved)
    <3>1. HeldForNothing' \subseteq HeldForNothing \cup {KeyOf[r]}
      BY <2>1, <2>2, <2>5, ForNothingIs
    <3>2. faults' >= faults + 1
      BY <1>1, <2>3, <2>5
    <3> QED
      BY <2>3, <3>1, <3>2, ReasonKept
  <2> QED
    BY <1>2, <2>4, <2>5
<1> QED
  BY <1>2, <1>4, <1>5, <1>7 DEF FileInv

LEMMA FileSays ==
  ASSUME FileInv
  PROVE  /\ TypeOK /\ Distinct(reserved) /\ ToldInStage
         /\ faults \in Nat /\ told \in [Request -> 0 .. Phones]
  BY InboxAssumption DEF FileInv, TypeOK

LEMMA ClaimFailsKeeps ==
  ASSUME IInv, RoomForAll, FileInv', NEW r \in Request, ClaimFails(r) \/ ClaimRaises(r)
  PROVE  IInv'
<1>0. /\ TypeOK /\ Distinct(reserved) /\ ToldInStage
      /\ faults \in Nat /\ told \in [Request -> 0 .. Phones]
  BY FileSays DEF IInv
<1>1. /\ TypeOK /\ KeyOf[r] \in Key /\ "failed" \in Stage /\ Becomes(r, "failed")
      /\ stage[r] = "new" /\ 0 \in 0 .. Phones
      /\ (Notify(r, 0) \/ sent' = sent)
      /\ told' = told /\ crashes' = crashes /\ faults \in Nat
  BY <1>0, InboxAssumption DEF ClaimFails, ClaimRaises, Stage
<1>2. /\ faults' \in Nat
      /\ (faults' = faults /\ reserved' = reserved) \/ faults' > faults
  <2>1. reserved \in Seq(Key) /\ Distinct(reserved)
    BY DEF IInv, FileInv, TypeOK
  <2> QED
    BY <1>1, <2>1, ReserveIs DEF ClaimFails, ClaimRaises, FileWorks, FileFails
<1>3. /\ stage' \in [Request -> Stage] /\ stage'[r] = "failed"
      /\ \A q \in Request \ {r} : stage'[q] = stage[q] /\ told'[q] = told[q]
  BY <1>1, Progresses
<1>6. ASSUME NEW k \in Key
      PROVE  Holders(k)' = Holders(k)
  <2>1. \A q \in Request : stage'[q] \in Held <=> stage[q] \in Held
    BY <1>1, <1>3 DEF Held
  <2> QED
    BY <2>1 DEF Holders
<1>7. HoldersBounded'
  <2> SUFFICES ASSUME NEW k \in Key
               PROVE  Cardinality(Holders(k)') <= faults' + (IF In(k, reserved)' THEN 1 ELSE 0)
    BY DEF HoldersBounded
  <2>1. Cardinality(Holders(k)) <= faults + (IF In(k, reserved) THEN 1 ELSE 0)
    BY DEF IInv, HoldersBounded
  <2>2. Cardinality(Holders(k)) \in Nat
    BY <1>1, HoldersMove
  <2>3. Holders(k)' = Holders(k)
    BY <1>6
  <2> QED
    BY <1>1, <1>2, <2>1, <2>2, <2>3
<1>9. SentAccounted'
  <2> SUFFICES ASSUME NEW k \in Key, NEW n \in 0 .. Phones
               PROVE  sent'[k][n] <= Cardinality(Of(k, "failed")') + Cardinality(Informed(k, n)')
    BY DEF SentAccounted
  <2>1. sent[k][n] \in Nat /\ sent[k][n] <= Cardinality(Of(k, "failed")) + Cardinality(Informed(k, n))
    BY DEF IInv, FileInv, SentAccounted, TypeOK
  <2>2. sent'[k][n] = sent[k][n] \/ sent'[k][n] = sent[k][n] + (IF k = KeyOf[r] /\ n = 0 THEN 1 ELSE 0)
    BY <1>1, SentType
  <2>3. /\ Cardinality(Of(k, "failed")) \in Nat
        /\ Cardinality(Of(k, "failed")') = Cardinality(Of(k, "failed")) + (IF KeyOf[r] = k THEN 1 ELSE 0)
    BY <1>1, <1>3, FailedMove
  <2>4. Cardinality(Informed(k, n)) \in Nat /\ Informed(k, n)' = Informed(k, n)
    <3>1. Informed(k, n)' = Informed(k, n)
      BY <1>1, <1>6 DEF Informed
    <3> QED
      BY <1>3, <3>1, InformedMove
  <2> QED
    BY <2>1, <2>2, <2>3, <2>4
<1> QED
  BY <1>7, <1>9 DEF IInv

LEMMA SendTextFile ==
  ASSUME FileInv, NEW r \in Request, SendText(r)
  PROVE  FileInv'
<1> DEFINE m == told[r] + 1
           st == IF m = Phones THEN "ok" ELSE "working"
<1>1. /\ TypeOK /\ stage[r] = "working" /\ told[r] < Phones /\ Phones \in Nat
      /\ told[r] \in Nat /\ m \in 0 .. Phones /\ st \in Stage /\ Becomes(r, st)
      /\ told' = [told EXCEPT ![r] = m] /\ Notify(r, m)
      /\ reserved' = reserved /\ faults' = faults /\ crashes' = crashes /\ faults \in Nat
  BY InboxAssumption DEF FileInv, TypeOK, ToldInStage, SendText, Progress, Stage
<1> HIDE DEF st
<1>2. /\ stage' \in [Request -> Stage] /\ stage'[r] = st
      /\ told' \in [Request -> 0 .. Phones] /\ told'[r] = m
      /\ \A q \in Request \ {r} : stage'[q] = stage[q] /\ told'[q] = told[q]
  <2> HIDE DEF m
  <2> QED
    BY <1>1, Progresses DEF TypeOK
<1>3. TypeOK'
  <2> HIDE DEF m
  <2> QED
    BY <1>1, <1>2, SentType DEF TypeOK
<1>4. ToldInStage'
  <2>1. st # "new" /\ (st = "working" => m < Phones)
    BY <1>1 DEF st
  <2> HIDE DEF m
  <2> QED
    BY <1>2, <2>1 DEF FileInv, ToldInStage
<1>5. \A q \in Request : stage'[q] \in Held <=> stage[q] \in Held
  BY <1>1, <1>2 DEF Held, st
<1>6. ASSUME NEW k \in Key
      PROVE  Holders(k)' = Holders(k)
  BY <1>5 DEF Holders
<1>7. ReasonsCounted'
  <2>1. HeldForNothing' \in SUBSET Key
    BY DEF HeldForNothing
  <2>2. \A k \in Key : k \in HeldForNothing' <=> In(k, reserved)' /\ Holders(k) = {}
    BY <1>6 DEF HeldForNothing, Holders, Held, Of
  <2>3. HeldForNothing' \subseteq HeldForNothing
    BY <1>1, <2>1, <2>2, ForNothingIs
  <2> QED
    BY <1>1, <2>3, ReasonKept
<1> QED
  BY <1>1, <1>3, <1>4, <1>7 DEF FileInv, Distinct

LEMMA SendTextKeeps ==
  ASSUME IInv, RoomForAll, FileInv', NEW r \in Request, SendText(r)
  PROVE  IInv'
<1> DEFINE m == told[r] + 1
           st == IF m = Phones THEN "ok" ELSE "working"
<1>1. /\ TypeOK /\ stage[r] = "working" /\ told[r] < Phones /\ Phones \in Nat
      /\ told[r] \in Nat /\ m \in 0 .. Phones /\ st \in Stage /\ Becomes(r, st)
      /\ told' = [told EXCEPT ![r] = m] /\ Notify(r, m)
      /\ reserved' = reserved /\ faults' = faults /\ crashes' = crashes /\ faults \in Nat
  <2>1. /\ TypeOK /\ faults \in Nat /\ Phones \in Nat
        /\ \A q \in Request : told[q] \in 0 .. Phones /\ (stage[q] = "working" => told[q] < Phones)
    BY FileSays, InboxAssumption DEF IInv, ToldInStage
  <2>2. /\ stage[r] = "working" /\ told' = [told EXCEPT ![r] = m] /\ Notify(r, m) /\ Becomes(r, st)
        /\ reserved' = reserved /\ faults' = faults /\ crashes' = crashes
    BY DEF SendText, Progress
  <2>3. told[r] < Phones /\ told[r] \in Nat /\ m \in 0 .. Phones /\ st \in Stage
    BY <2>1, <2>2 DEF Stage
  <2> QED
    BY <2>1, <2>2, <2>3
<1> HIDE DEF st
<1>2. /\ stage' \in [Request -> Stage] /\ stage'[r] = st
      /\ told' \in [Request -> 0 .. Phones] /\ told'[r] = m
      /\ \A q \in Request \ {r} : stage'[q] = stage[q] /\ told'[q] = told[q]
  <2> HIDE DEF m
  <2> QED
    BY <1>1, Progresses DEF TypeOK
<1>5. \A q \in Request : stage'[q] \in Held <=> stage[q] \in Held
  BY <1>1, <1>2 DEF Held, st
<1>6. ASSUME NEW k \in Key
      PROVE  Holders(k)' = Holders(k)
  BY <1>5 DEF Holders
<1>7. HoldersBounded'
  BY <1>1, <1>6 DEF IInv, HoldersBounded
<1>9. SentAccounted'
  <2> SUFFICES ASSUME NEW k \in Key, NEW n \in 0 .. Phones
               PROVE  sent'[k][n] <= Cardinality(Of(k, "failed")') + Cardinality(Informed(k, n)')
    BY DEF SentAccounted
  <2>1. sent[k][n] \in Nat /\ sent[k][n] <= Cardinality(Of(k, "failed")) + Cardinality(Informed(k, n))
    BY DEF IInv, FileInv, SentAccounted, TypeOK
  <2>2. sent'[k][n] = sent[k][n] + (IF k = KeyOf[r] /\ n = m THEN 1 ELSE 0)
    <3> HIDE DEF m
    <3> QED
      BY <1>1, SentType
  <2>3. /\ Cardinality(Of(k, "failed")) \in Nat
        /\ Cardinality(Of(k, "failed")') = Cardinality(Of(k, "failed"))
    <3>1. stage'[r] # "failed" /\ stage[r] # "failed"
      BY <1>1, <1>2 DEF st
    <3> QED
      BY <1>2, <3>1, FailedMove
  <2>4. /\ r \in Informed(k, n) <=> KeyOf[r] = k /\ told[r] >= n
        /\ r \in Informed(k, n)' <=> KeyOf[r] = k /\ m >= n
    <3>1. r \in Holders(k) <=> KeyOf[r] = k
      BY <1>1 DEF Holders, Held
    <3>2. r \in Informed(k, n)' <=> r \in Holders(k)' /\ told'[r] >= n
      BY DEF Informed
    <3> QED
      BY <1>2, <1>6, <3>1, <3>2 DEF Informed
  <2>5. /\ Cardinality(Informed(k, n)) \in Nat /\ Cardinality(Informed(k, n)') \in Nat
        /\ r \notin Informed(k, n) /\ r \in Informed(k, n)'
             => Cardinality(Informed(k, n)') = Cardinality(Informed(k, n)) + 1
        /\ (r \in Informed(k, n) <=> r \in Informed(k, n)')
             => Cardinality(Informed(k, n)') = Cardinality(Informed(k, n))
    BY <1>2, InformedMove
  <2>6. n \in Nat /\ (m >= n <=> told[r] >= n \/ n = m)  /\ (n = m => ~(told[r] >= n))
    BY <1>1
  <2> HIDE DEF m
  <2>7. CASE k = KeyOf[r] /\ n = m
    BY <2>1, <2>2, <2>3, <2>4, <2>5, <2>6, <2>7
  <2>8. CASE ~(k = KeyOf[r] /\ n = m)
    BY <2>1, <2>2, <2>3, <2>4, <2>5, <2>6, <2>8
  <2> QED
    BY <2>7, <2>8
<1> QED
  BY <1>7, <1>9 DEF IInv

LEMMA SendFailsFile ==
  ASSUME FileInv, NEW r \in Request, SendFails(r)
  PROVE  FileInv'
<1> DEFINE key == KeyOf[r]
           m == told[r] + 1
<1>1. /\ TypeOK /\ Distinct(reserved) /\ stage[r] = "working" /\ told[r] < Phones
      /\ told[r] \in Nat /\ m \in 0 .. Phones /\ key \in Key /\ "failed" \in Stage /\ Becomes(r, "failed")
      /\ (Notify(r, m) \/ sent' = sent) /\ Release(key)
      /\ told' = told /\ crashes' = crashes /\ faults \in Nat
  <2>1. /\ stage[r] = "working" /\ Becomes(r, "failed") /\ Release(key)
        /\ (Notify(r, m) \/ sent' = sent) /\ told' = told /\ crashes' = crashes
    BY DEF SendFails
  <2>2. told[r] < Phones /\ told[r] \in Nat /\ Phones \in Nat
    BY <2>1, InboxAssumption DEF FileInv, TypeOK, ToldInStage
  <2>3. m \in 0 .. Phones
    BY <2>2
  <2>4. TypeOK /\ Distinct(reserved) /\ key \in Key /\ "failed" \in Stage /\ faults \in Nat
    BY InboxAssumption DEF FileInv, TypeOK, Stage
  <2> QED
    BY <2>1, <2>2, <2>3, <2>4
<1> HIDE DEF m, key
<1>2. /\ reserved' \in Seq(Key) /\ Distinct(reserved)' /\ faults' \in 0 .. MaxFaults
      /\ \/ /\ faults' = faults
            /\ \A x \in Key : In(x, reserved)' <=> In(x, reserved) /\ x # key
         \/ faults' = faults + 1 /\ reserved' = reserved
  BY <1>1, ReleaseIs
<1>3. /\ stage' \in [Request -> Stage] /\ stage'[r] = "failed"
      /\ \A q \in Request \ {r} : stage'[q] = stage[q] /\ told'[q] = told[q]
  BY <1>1, Progresses
<1>4. TypeOK'
  BY <1>1, <1>2, <1>3, SentType DEF TypeOK
<1>5. ToldInStage'
  BY <1>1, <1>3 DEF FileInv, ToldInStage
<1>7. ASSUME NEW k \in Key, k # key
      PROVE  Holders(k)' = Holders(k)
  BY <1>1, <1>3, <1>7 DEF Holders, key
<1>9. ReasonsCounted'
  <2>1. /\ HeldForNothing' \in SUBSET Key
        /\ \A k \in Key : k \in HeldForNothing' <=> In(k, reserved)' /\ Holders(k)' = {}
    BY DEF HeldForNothing, Holders, Held, Of
  <2>2. \A k \in Key : k # key /\ k \in HeldForNothing' => k \in HeldForNothing
    BY <1>2, <1>7, <2>1, ForNothingIs
  <2>3. CASE faults' = faults /\ \A x \in Key : In(x, reserved)' <=> In(x, reserved) /\ x # key
    <3>1. HeldForNothing' \subseteq HeldForNothing
      BY <2>1, <2>2, <2>3
    <3> QED
      BY <1>1, <2>3, <3>1, ReasonKept
  <2>4. CASE faults' = faults + 1
    <3>1. HeldForNothing' \subseteq HeldForNothing \cup {key}
      BY <2>1, <2>2
    <3>2. faults' >= faults + 1 /\ faults' \in Nat
      BY <1>1, <2>4
    <3> QED
      BY <3>1, <3>2, ReasonKept
  <2> QED
    BY <1>2, <2>3, <2>4
<1> QED
  BY <1>2, <1>4, <1>5, <1>9 DEF FileInv

LEMMA SendFailsKeeps ==
  ASSUME IInv, RoomForAll, FileInv', NEW r \in Request, SendFails(r)
  PROVE  IInv'
<1> DEFINE key == KeyOf[r]
           m == told[r] + 1
<1>0. /\ TypeOK /\ Distinct(reserved) /\ ToldInStage
      /\ faults \in Nat /\ told \in [Request -> 0 .. Phones]
  BY FileSays DEF IInv
<1>1. /\ TypeOK /\ Distinct(reserved) /\ stage[r] = "working" /\ told[r] < Phones
      /\ told[r] \in Nat /\ m \in 0 .. Phones /\ key \in Key /\ "failed" \in Stage /\ Becomes(r, "failed")
      /\ (Notify(r, m) \/ sent' = sent) /\ Release(key)
      /\ told' = told /\ crashes' = crashes /\ faults \in Nat
  <2>1. /\ stage[r] = "working" /\ Becomes(r, "failed") /\ Release(key)
        /\ (Notify(r, m) \/ sent' = sent) /\ told' = told /\ crashes' = crashes
    BY DEF SendFails
  <2>2. told[r] < Phones /\ told[r] \in Nat /\ Phones \in Nat
    BY <1>0, <2>1, InboxAssumption DEF ToldInStage
  <2>3. m \in 0 .. Phones
    BY <2>2
  <2>4. TypeOK /\ Distinct(reserved) /\ key \in Key /\ "failed" \in Stage /\ faults \in Nat
    BY <1>0, InboxAssumption DEF Stage
  <2> QED
    BY <2>1, <2>2, <2>3, <2>4
<1> HIDE DEF m, key
<1>2. /\ reserved' \in Seq(Key) /\ Distinct(reserved)' /\ faults' \in 0 .. MaxFaults
      /\ \/ /\ faults' = faults
            /\ \A x \in Key : In(x, reserved)' <=> In(x, reserved) /\ x # key
         \/ faults' = faults + 1 /\ reserved' = reserved
  BY <1>1, ReleaseIs
<1>3. /\ stage' \in [Request -> Stage] /\ stage'[r] = "failed"
      /\ \A q \in Request \ {r} : stage'[q] = stage[q] /\ told'[q] = told[q]
  BY <1>1, Progresses
<1>6. r \notin Holders(key)' /\ r \in Holders(key)
  BY <1>1, <1>3 DEF Holders, Held, key
<1>7. ASSUME NEW k \in Key, k # key
      PROVE  Holders(k)' = Holders(k)
  BY <1>1, <1>3, <1>7 DEF Holders, key
<1>8. HoldersBounded'
  <2> SUFFICES ASSUME NEW k \in Key
               PROVE  Cardinality(Holders(k)') <= faults' + (IF In(k, reserved)' THEN 1 ELSE 0)
    BY DEF HoldersBounded
  <2>1. Cardinality(Holders(k)) <= faults + (IF In(k, reserved) THEN 1 ELSE 0)
    BY DEF IInv, HoldersBounded
  <2>2. Cardinality(Holders(k)) \in Nat
    BY <1>1, HoldersMove
  <2>3. CASE k = key
    <3>1. Cardinality(Holders(k)') = Cardinality(Holders(k)) - 1
      BY <1>1, <1>6, <2>3, HoldersMove
    <3> QED
      BY <1>1, <1>2, <2>1, <2>2, <2>3, <3>1
  <2>4. CASE k # key
    <3>1. Holders(k)' = Holders(k)
      BY <1>7, <2>4
    <3> QED
      BY <1>1, <1>2, <2>1, <2>2, <2>4, <3>1
  <2> QED
    BY <2>3, <2>4
<1>10. SentAccounted'
  <2> SUFFICES ASSUME NEW k \in Key, NEW n \in 0 .. Phones
               PROVE  sent'[k][n] <= Cardinality(Of(k, "failed")') + Cardinality(Informed(k, n)')
    BY DEF SentAccounted
  <2>1. sent[k][n] \in Nat /\ sent[k][n] <= Cardinality(Of(k, "failed")) + Cardinality(Informed(k, n))
    BY DEF IInv, FileInv, SentAccounted, TypeOK
  <2>2. sent'[k][n] = sent[k][n] \/ sent'[k][n] = sent[k][n] + (IF k = KeyOf[r] /\ n = m THEN 1 ELSE 0)
    BY <1>1, SentType
  <2>3. /\ Cardinality(Of(k, "failed")) \in Nat
        /\ Cardinality(Of(k, "failed")') = Cardinality(Of(k, "failed")) + (IF KeyOf[r] = k THEN 1 ELSE 0)
    BY <1>1, <1>3, FailedMove
  <2>4. /\ r \in Informed(k, n) <=> KeyOf[r] = k /\ told[r] >= n
        /\ r \notin Informed(k, n)'
    BY <1>1, <1>3 DEF Informed, Holders, Held
  <2>5. /\ Cardinality(Informed(k, n)) \in Nat /\ Cardinality(Informed(k, n)') \in Nat
        /\ r \in Informed(k, n) /\ r \notin Informed(k, n)'
             => Cardinality(Informed(k, n)') = Cardinality(Informed(k, n)) - 1
        /\ (r \in Informed(k, n) <=> r \in Informed(k, n)')
             => Cardinality(Informed(k, n)') = Cardinality(Informed(k, n))
    BY <1>3, InformedMove
  <2>6. n = m => ~(told[r] >= n)
    BY <1>1 DEF m
  <2>7. CASE KeyOf[r] = k /\ told[r] >= n
    BY <2>1, <2>2, <2>3, <2>4, <2>5, <2>6, <2>7
  <2>8. CASE ~(KeyOf[r] = k /\ told[r] >= n)
    BY <2>1, <2>2, <2>3, <2>4, <2>5, <2>8
  <2> QED
    BY <2>7, <2>8
<1> QED
  BY <1>8, <1>10 DEF IInv

(* A duplicate, or a restart: the stages change without moving a request   *)
(* into or out of the sets of the invariant.                               *)
LEMMA SameSetsFile ==
  ASSUME FileInv, TypeOK', UNCHANGED <<reserved, told, sent, faults>>,
         \A r \in Request :
           /\ stage'[r] \in Held <=> stage[r] \in Held
           /\ stage'[r] = "failed" <=> stage[r] = "failed"
           /\ stage'[r] \in {"new", "working"} => stage'[r] = stage[r]
  PROVE  FileInv'
<1>1. ASSUME NEW k \in Key
      PROVE  Holders(k)' = Holders(k)
  BY DEF Holders
<1>2. HeldForNothing' = HeldForNothing
  <2>1. /\ HeldForNothing' \in SUBSET Key
        /\ \A k \in Key : k \in HeldForNothing' <=> In(k, reserved)' /\ Holders(k)' = {}
    BY DEF HeldForNothing, Holders, Held, Of
  <2> QED
    BY <1>1, <2>1, ForNothingIs
<1> QED
  BY <1>2 DEF FileInv, ToldInStage, Distinct, ReasonsCounted, ReservedForAReason

LEMMA SameSetsKeep ==
  ASSUME IInv, FileInv', UNCHANGED <<reserved, told, sent, faults>>,
         \A r \in Request :
           /\ stage'[r] \in Held <=> stage[r] \in Held
           /\ stage'[r] = "failed" <=> stage[r] = "failed"
           /\ stage'[r] \in {"new", "working"} => stage'[r] = stage[r]
  PROVE  IInv'
<1>1. ASSUME NEW k \in Key
      PROVE  Holders(k)' = Holders(k) /\ Of(k, "failed")' = Of(k, "failed")
  BY DEF Holders, Of
<1>2. HoldersBounded'
  BY <1>1 DEF IInv, HoldersBounded
<1>3. SentAccounted'
  BY <1>1 DEF IInv, SentAccounted, Informed
<1> QED
  BY <1>2, <1>3 DEF IInv

LEMMA StagesOnly ==
  ASSUME TypeOK, Restart \/ (\E r \in Request : Duplicate(r)) \/ UNCHANGED vars
  PROVE  /\ TypeOK'
         /\ UNCHANGED <<reserved, told, sent, faults>>
         /\ \A r \in Request :
              /\ stage'[r] \in Held <=> stage[r] \in Held
              /\ stage'[r] = "failed" <=> stage[r] = "failed"
              /\ stage'[r] \in {"new", "working"} => stage'[r] = stage[r]
<1>1. CASE Restart
  <2>1. \A r \in Request : stage'[r] = IF stage[r] = "working" THEN "lost" ELSE stage[r]
    BY <1>1 DEF Restart
  <2>2. TypeOK'
    BY <1>1, InboxAssumption DEF Restart, TypeOK, Stage
  <2> QED
    BY <1>1, <2>1, <2>2 DEF Restart, Held
<1>2. ASSUME NEW r \in Request, Duplicate(r)
      PROVE  /\ TypeOK' /\ UNCHANGED <<reserved, told, sent, faults>>
             /\ stage[r] = "new" /\ stage'[r] = "duplicate"
             /\ \A q \in Request \ {r} : stage'[q] = stage[q]
  <2>1. "duplicate" \in Stage /\ Becomes(r, "duplicate") /\ stage[r] = "new"
    BY <1>2 DEF Duplicate, Stage
  <2> QED
    BY <1>2, <2>1, Progresses DEF Duplicate, TypeOK
<1>3. CASE UNCHANGED vars
  BY <1>3 DEF vars, TypeOK
<1> QED
  BY <1>1, <1>2, <1>3 DEF Held

LEMMA FileKept ==
  ASSUME FileInv, [Next]_vars
  PROVE  FileInv'
<1>1. CASE Restart \/ (\E r \in Request : Duplicate(r)) \/ UNCHANGED vars
  BY <1>1, StagesOnly, SameSetsFile DEF FileInv
<1> QED
  BY <1>1, ClaimFile, ClaimFailsFile, SendTextFile, SendFailsFile DEF Next

LEMMA NextKeeps ==
  ASSUME IInv, RoomForAll, [Next]_vars
  PROVE  IInv'
<1>1. FileInv' /\ TypeOK
  BY FileKept DEF IInv, FileInv
<1>2. CASE Restart \/ (\E r \in Request : Duplicate(r)) \/ UNCHANGED vars
  BY <1>1, <1>2, StagesOnly, SameSetsKeep
<1> QED
  BY <1>1, <1>2, ClaimKeeps, ClaimFailsKeeps, SendTextKeeps, SendFailsKeeps DEF Next

LEMMA FileInit ==
  ASSUME Init
  PROVE  FileInv
<1>1. TypeOK /\ Distinct(reserved) /\ ToldInStage
  BY InboxAssumption DEF Init, TypeOK, Stage, Distinct, ToldInStage
<1>2. HeldForNothing = {}
  BY DEF Init, HeldForNothing, In
<1> QED
  BY <1>1, <1>2, FS_EmptySet DEF Init, FileInv, ReasonsCounted, ReservedForAReason

LEMMA InitHolds ==
  ASSUME Init
  PROVE  IInv
<1>2. ASSUME NEW k \in Key
      PROVE  Holders(k) = {} /\ Of(k, "failed") = {}
  BY DEF Init, Holders, Of, Held
<1>3. Cardinality({}) = 0
  BY FS_EmptySet
<1>4. HoldersBounded
  <2>1. ASSUME NEW k \in Key
        PROVE  Cardinality(Holders(k)) = 0
    BY <1>2, <1>3
  <2>2. faults = 0
    BY DEF Init
  <2> QED
    BY <2>1, <2>2 DEF HoldersBounded
<1>5. SentAccounted
  <2>1. ASSUME NEW k \in Key, NEW n \in 0 .. Phones
        PROVE  Informed(k, n) = {}
    BY <1>2 DEF Informed
  <2>2. ASSUME NEW k \in Key, NEW n \in 0 .. Phones
        PROVE  sent[k][n] = 0 /\ Cardinality(Of(k, "failed")) = 0 /\ Cardinality(Informed(k, n)) = 0
    BY <1>2, <1>3, <2>1 DEF Init
  <2> QED
    BY <2>2 DEF SentAccounted
<1> QED
  BY FileInit, <1>4, <1>5 DEF IInv

---------------------------------------------------------------------------
(* What the invariant says.                                                *)

LEMMA WorkersFew ==
  ASSUME IInv, RoomForAll
  PROVE  OneWorkerPerKey
<1> SUFFICES ASSUME NEW k \in Key
             PROVE  Cardinality(Of(k, "working") \cup Of(k, "ok")) <= 1 + faults
  BY DEF OneWorkerPerKey
<1>1. Of(k, "working") \cup Of(k, "ok") \subseteq Holders(k) /\ Holders(k) \subseteq Request
  BY DEF Of, Holders, Held
<1>2. IsFiniteSet(Holders(k))
  BY <1>1, FS_Subset DEF RoomForAll
<1>3. IsFiniteSet(Of(k, "working") \cup Of(k, "ok"))
  BY <1>1, <1>2, FS_Subset
<1>4. Cardinality(Of(k, "working") \cup Of(k, "ok")) <= Cardinality(Holders(k))
  BY <1>1, <1>2, FS_Subset
<1>5. Cardinality(Holders(k)) <= 1 + faults
  BY FS_CardinalityType, <1>2 DEF IInv, FileInv, HoldersBounded, TypeOK
<1>6. Cardinality(Holders(k)) \in Nat /\ Cardinality(Of(k, "working") \cup Of(k, "ok")) \in Nat
  BY <1>2, <1>3, FS_CardinalityType
<1> QED
  BY <1>4, <1>5, <1>6 DEF IInv, FileInv, TypeOK

LEMMA RepeatsFew ==
  ASSUME IInv, RoomForAll
  PROVE  RepeatsNeedFailures
<1> SUFFICES ASSUME NEW k \in Key, NEW n \in 0 .. Phones
             PROVE  sent[k][n] <= 1 + Cardinality(Of(k, "failed")) + faults
  BY DEF RepeatsNeedFailures
<1>1. Informed(k, n) \subseteq Holders(k) /\ Holders(k) \subseteq Request /\ Of(k, "failed") \subseteq Request
  BY DEF Informed, Of, Holders
<1>2. IsFiniteSet(Holders(k)) /\ IsFiniteSet(Of(k, "failed"))
  BY <1>1, FS_Subset DEF RoomForAll
<1>3. IsFiniteSet(Informed(k, n)) /\ Cardinality(Informed(k, n)) <= Cardinality(Holders(k))
  BY <1>1, <1>2, FS_Subset
<1>4. /\ Cardinality(Holders(k)) \in Nat /\ Cardinality(Informed(k, n)) \in Nat
      /\ Cardinality(Of(k, "failed")) \in Nat
  BY <1>2, <1>3, FS_CardinalityType
<1>5. Cardinality(Holders(k)) <= faults + (IF In(k, reserved) THEN 1 ELSE 0)
  BY DEF IInv, HoldersBounded
<1>6. Cardinality(Holders(k)) <= faults + 1
  BY <1>4, <1>5 DEF IInv, FileInv, TypeOK
<1>7. sent[k][n] \in Nat /\ faults \in Nat
      /\ sent[k][n] <= Cardinality(Of(k, "failed")) + Cardinality(Informed(k, n))
  <2>1. sent \in [Key -> [0 .. Phones -> Nat]] /\ faults \in 0 .. MaxFaults
    BY DEF IInv, FileInv, TypeOK
  <2>2. sent[k] \in [0 .. Phones -> Nat]
    BY <2>1
  <2>3. sent[k][n] \in Nat /\ faults \in Nat
    BY <2>1, <2>2
  <2> QED
    BY <2>3 DEF IInv, SentAccounted
<1> QED
  BY <1>3, <1>4, <1>6, <1>7

---------------------------------------------------------------------------
(* The theorems.                                                           *)

(* However few keys the file keeps, its invariant holds.                   *)
THEOREM FileHolds == Spec => []FileInv
<1>1. FileInv /\ [Next]_vars => FileInv'
  BY FileKept
<1> QED
  BY <1>1, FileInit, PTL DEF Spec

(* With room for every key, so do the counts of holders and notifications. *)
THEOREM InvariantHolds == ASSUME RoomForAll PROVE Spec => []IInv
<1>1. Init => IInv
  BY InitHolds
<1>2. IInv /\ [Next]_vars => IInv'
  BY NextKeeps
<1> QED
  BY <1>1, <1>2, PTL DEF Spec

(* The state has its type; told phones stay within the list.               *)
THEOREM TypeCorrect == Spec => []TypeOK
<1>1. FileInv => TypeOK
  BY DEF FileInv
<1> QED
  BY <1>1, FileHolds, PTL

(* release is called whenever the work raised: no key stays reserved for   *)
(* nothing, but for a file that could not be read or written back, also    *)
(* when the file is full.                                                  *)
THEOREM ReasonsHold == Spec => []ReservedForAReason
<1>1. FileInv => ReservedForAReason
  BY DEF FileInv, ReasonsCounted
<1> QED
  BY <1>1, FileHolds, PTL

(* Two requests never work on one key, nor one after another's success,    *)
(* but for faults of the file.                                             *)
THEOREM WorkersBounded == ASSUME RoomForAll PROVE Spec => []OneWorkerPerKey
<1>1. IInv => OneWorkerPerKey
  BY WorkersFew
<1> QED
  BY <1>1, InvariantHolds, PTL

(* A target is notified as often as requests failed and the file failed,   *)
(* and once more, at most.                                                 *)
THEOREM RepeatsBounded == ASSUME RoomForAll PROVE Spec => []RepeatsNeedFailures
<1>1. IInv => RepeatsNeedFailures
  BY RepeatsFew
<1> QED
  BY <1>1, InvariantHolds, PTL
=============================================================================
