--------------------------- MODULE EventLog_proofs ---------------------------
(***************************************************************************)
(* Theorems of EventLog, for any number of threads and kinds, any length   *)
(* of the cache and the log, and every order of the calls on them.         *)
(***************************************************************************)
EXTENDS EventLog, SequenceTheorems, FiniteSetTheorems, TLAPS

(* A thread that will check the length of the cache again: it is not about *)
(* to raise.                                                               *)
WillCheck(t) ==
  \/ pc[t] = "move" /\ In(cache, kind[t])
  \/ pc[t] \in {"check", "open"}
  \/ pc[t] = "iterate" /\ t \notin stale /\ cache # <<>>
  \/ pc[t] = "evict" /\ In(cache, oldkey[t])

CacheTypeOK ==
  /\ cache \in Seq(Kinds)
  /\ pc \in [Threads -> {"idle", "patch", "create", "store", "move", "check", "open", "iterate",
                         "evict", "log"}]
  /\ kind \in [Threads -> Kinds \cup {NoKind}]
  /\ \A t \in Threads : pc[t] # "idle" => kind[t] \in Kinds
  /\ DOMAIN oldkey = Threads
  /\ stale \subseteq Iterating

OverIsChecked == Len(cache) > CacheLen => \E t \in Threads : WillCheck(t)

CacheInv == CacheTypeOK /\ OverIsChecked

-----------------------------------------------------------------------------
(* A key that is there leaves a shorter sequence of keys.                  *)
LEMMA WithoutType ==
  ASSUME NEW S, NEW s \in Seq(S), NEW x, In(s, x)
  PROVE  Without(s, x) \in Seq(S)
<1> DEFINE i == CHOOSE j \in DOMAIN s : s[j] = x
<1>1. i \in 1..Len(s)
  BY DEF In
<1> HIDE DEF i
<1>2. SubSeq(s, 1, i-1) \in Seq(S)
  BY <1>1, SubSeqProperties
<1>3. SubSeq(s, i+1, Len(s)) \in Seq(S)
  BY <1>1, SubSeqProperties
<1> QED
  BY <1>2, <1>3, ConcatProperties DEF Without, RemoveAt, i

LEMMA AppendedIsIn ==
  ASSUME NEW S, NEW s \in Seq(S), NEW x \in S
  PROVE  Append(s, x) \in Seq(S) /\ In(Append(s, x), x)
<1>1. Append(s, x) \in Seq(S) /\ Append(s, x)[Len(s)+1] = x /\ Len(s)+1 \in DOMAIN Append(s, x)
  BY AppendProperties
<1> QED
  BY <1>1 DEF In

LEMMA HeadIsIn ==
  ASSUME NEW S, NEW s \in Seq(S), Len(s) > 0
  PROVE  Head(s) \in S /\ In(s, Head(s))
<1>1. 1 \in DOMAIN s /\ Head(s) = s[1]
  OBVIOUS
<1> QED
  BY <1>1 DEF In

-----------------------------------------------------------------------------
(* A step of one thread that leaves the cache alone keeps the promise of   *)
(* every other.                                                            *)
LEMMA QuietStep ==
  ASSUME CacheInv, NEW t \in Threads, ~WillCheck(t), UNCHANGED cache,
         stale' \subseteq stale,
         \A u \in Threads \ {t} :
            pc'[u] = pc[u] /\ kind'[u] = kind[u] /\ oldkey'[u] = oldkey[u]
  PROVE  OverIsChecked'
BY DEF CacheInv, OverIsChecked, WillCheck, In

(* The length is checked after every change of the cache.                  *)
LEMMA BusyStep ==
  ASSUME NEW t \in Threads, WillCheck(t)'
  PROVE  OverIsChecked'
BY DEF OverIsChecked

LEMMA InitInv == Init => CacheInv
<1> USE EventLogAssumption
<1>1. Init => CacheTypeOK
  BY DEF Init, CacheTypeOK
<1>2. Init => OverIsChecked
  BY DEF Init, OverIsChecked
<1> QED
  BY <1>1, <1>2 DEF CacheInv

(* The call and the API server.                                            *)
LEMMA CallInv ==
  ASSUME CacheInv, NEW t \in Threads,
         (\E k \in Kinds : Call(t, k)) \/ PatchEvent(t) \/ CreateSucceeds(t)
  PROVE  CacheInv'
<1> USE DEF CacheInv
<1>1. CacheTypeOK'
  BY DEF Call, PatchEvent, CreateSucceeds, Goto, CacheTypeOK, Iterating
<1>2. OverIsChecked'
  BY QuietStep DEF Call, PatchEvent, CreateSucceeds, Goto, CacheTypeOK, WillCheck
<1> QED
  BY <1>1, <1>2

(* Returning, after the log was told, a last failure or a race on a key.   *)
LEMMA ReturnInv ==
  ASSUME CacheInv, NEW t \in Threads, ~WillCheck(t), Return(t), UNCHANGED cache
  PROVE  CacheInv'
<1> USE DEF CacheInv
<1>1. CacheTypeOK'
  BY DEF Return, Goto, CacheTypeOK, Iterating
<1>2. OverIsChecked'
  BY QuietStep DEF Return, Goto, CacheTypeOK
<1> QED
  BY <1>1, <1>2

LEMMA StepInv ==
  ASSUME CacheInv, NEW t \in Threads, Step(t)
  PROVE  CacheInv'
<1> USE EventLogAssumption DEF CacheInv
<1>1. CASE PatchEvent(t) \/ CreateSucceeds(t)
  BY <1>1, CallInv
<1>2. CASE CreateFails(t)
  <2>1. CASE UNCHANGED <<pc, kind, oldkey, stale>>
    BY <1>2, <2>1 DEF CreateFails, CacheTypeOK, OverIsChecked, WillCheck, Iterating
  <2>2. CASE Return(t)
    <3>1. ~WillCheck(t) /\ UNCHANGED cache
      BY <1>2 DEF CreateFails, WillCheck
    <3> QED
      BY <2>2, <3>1, ReturnInv
  <2> QED
    BY <1>2, <2>1, <2>2 DEF CreateFails
<1>3. CASE Store(t)
  <2>1. CASE In(cache, kind[t])
    <3>1. WillCheck(t)'
      BY <1>3, <2>1 DEF Store, Goto, CacheTypeOK, WillCheck
    <3>2. CacheTypeOK'
      BY <1>3, <2>1 DEF Store, Goto, CacheTypeOK, Iterating
    <3> QED
      BY <3>1, <3>2, BusyStep
  <2>2. CASE ~In(cache, kind[t])
    <3>1. cache' \in Seq(Kinds) /\ In(cache', kind[t])
      <4>1. cache \in Seq(Kinds) /\ kind[t] \in Kinds /\ cache' = Append(cache, kind[t])
        BY <1>3, <2>2 DEF Store, CacheTypeOK
      <4> QED
        BY <4>1, AppendedIsIn
    <3>2. WillCheck(t)'
      BY <1>3, <3>1 DEF Store, Goto, CacheTypeOK, WillCheck
    <3>3. CacheTypeOK'
      BY <1>3, <2>2, <3>1 DEF Store, Goto, CacheTypeOK, Iterating
    <3> QED
      BY <3>2, <3>3, BusyStep
  <2> QED
    BY <2>1, <2>2
<1>4. CASE MoveToEnd(t)
  <2>1. Without(cache, kind[t]) \in Seq(Kinds)
    BY <1>4, WithoutType DEF MoveToEnd, CacheTypeOK
  <2>2. cache' \in Seq(Kinds)
    BY <1>4, <2>1, AppendedIsIn DEF MoveToEnd, CacheTypeOK
  <2>3. CacheTypeOK'
    BY <1>4, <2>2 DEF MoveToEnd, Goto, CacheTypeOK, Iterating
  <2>4. WillCheck(t)'
    BY <1>4 DEF MoveToEnd, Goto, CacheTypeOK, WillCheck
  <2> QED
    BY <2>3, <2>4, BusyStep
<1>5. CASE CheckLength(t)
  <2>1. CacheTypeOK'
    BY <1>5 DEF CheckLength, Goto, CacheTypeOK, Iterating
  <2>2. CASE Len(cache) > CacheLen
    <3>1. WillCheck(t)'
      BY <1>5, <2>2 DEF CheckLength, Goto, CacheTypeOK, WillCheck
    <3> QED
      BY <2>1, <3>1, BusyStep
  <2>3. CASE ~(Len(cache) > CacheLen)
    BY <1>5, <2>1, <2>3 DEF CheckLength, OverIsChecked
  <2> QED
    BY <2>2, <2>3
<1>6. CASE FindOldest(t)
  <2>1. Head(cache) \in Kinds /\ In(cache, Head(cache))
    <3>1. cache \in Seq(Kinds) /\ Len(cache) > 0
      BY <1>6 DEF FindOldest, CacheTypeOK
    <3> QED
      BY <3>1, HeadIsIn
  <2>2. CacheTypeOK'
    BY <1>6, <2>1 DEF FindOldest, Goto, CacheTypeOK, Iterating
  <2>3. WillCheck(t)'
    BY <1>6, <2>1 DEF FindOldest, Goto, CacheTypeOK, WillCheck
  <2> QED
    BY <2>2, <2>3, BusyStep
<1>7. CASE Evict(t)
  <2>1. cache' \in Seq(Kinds)
    BY <1>7, WithoutType DEF Evict, CacheTypeOK
  <2>2. CacheTypeOK'
    BY <1>7, <2>1 DEF Evict, Goto, CacheTypeOK, Iterating
  <2>3. WillCheck(t)'
    BY <1>7 DEF Evict, Goto, CacheTypeOK, WillCheck
  <2> QED
    BY <2>2, <2>3, BusyStep
<1>8. CASE CacheRaises(t)
  <2>1. ~WillCheck(t) /\ Return(t) /\ UNCHANGED cache
    BY <1>8 DEF CacheRaises, WillCheck, CacheTypeOK, Iterating
  <2> QED
    BY <2>1, ReturnInv
<1>9. CASE LogEvent(t)
  <2>1. ~WillCheck(t) /\ Return(t) /\ UNCHANGED cache
    BY <1>9 DEF LogEvent, WillCheck
  <2> QED
    BY <2>1, ReturnInv
<1>10. CASE OpenIterator(t)
  <2>1. CacheTypeOK'
    BY <1>10 DEF OpenIterator, Goto, CacheTypeOK, Iterating
  <2>2. CASE cache = <<>>
    BY <1>10, <2>1, <2>2 DEF OpenIterator, OverIsChecked
  <2>3. CASE cache # <<>>
    <3>1. WillCheck(t)'
      BY <1>10, <2>3 DEF OpenIterator, Goto, CacheTypeOK, Iterating, WillCheck
    <3> QED
      BY <2>1, <3>1, BusyStep
  <2> QED
    BY <2>2, <2>3
<1> QED
  BY <1>1, <1>2, <1>3, <1>4, <1>5, <1>6, <1>7, <1>8, <1>9, <1>10 DEF Step

LEMMA NextInv == CacheInv /\ [Next]_vars => CacheInv'
<1> SUFFICES ASSUME CacheInv, [Next]_vars PROVE CacheInv'
  OBVIOUS
<1>1. CASE Next
  BY <1>1, StepInv, CallInv DEF Next
<1>2. CASE UNCHANGED vars
  BY <1>2 DEF vars, locals, CacheInv, CacheTypeOK, OverIsChecked, WillCheck, Iterating
<1> QED
  BY <1>1, <1>2

-----------------------------------------------------------------------------
(* The event cache (CacheDict.__setitem__, without a lock) never stays     *)
(* over its length: a thread is still on its way to the check.             *)
THEOREM CacheIsBounded == Spec => []CacheStaysBounded
<1>1. CacheInv => CacheStaysBounded
  BY DEF CacheInv, OverIsChecked, WillCheck, CacheStaysBounded
<1> QED
  BY InitInv, NextInv, <1>1, PTL DEF Spec

-----------------------------------------------------------------------------
(* What the log is told, and what it makes of it: lemmas about sequences.  *)

Entries == [kind : Kinds, count : Nat \ {0}]

LEMMA RemoveAtProperties ==
  ASSUME NEW S, NEW s \in Seq(S), NEW i \in 1..Len(s)
  PROVE  /\ RemoveAt(s, i) \in Seq(S)
         /\ Len(RemoveAt(s, i)) = Len(s) - 1
         /\ \A j \in 1..(Len(s)-1) : RemoveAt(s, i)[j] = IF j < i THEN s[j] ELSE s[j+1]
<1> DEFINE a == SubSeq(s, 1, i-1)
           b == SubSeq(s, i+1, Len(s))
<1>1. a \in Seq(S) /\ Len(a) = i-1 /\ \A j \in 1..(i-1) : a[j] = s[j]
  BY SubSeqProperties
<1>2. b \in Seq(S) /\ Len(b) = Len(s)-i /\ \A j \in 1..(Len(s)-i) : b[j] = s[i+j]
  <2>1. \A j \in (i+1)..Len(s) : s[j] \in S
    OBVIOUS
  <2>2. Len(s) - (i+1) + 1 = Len(s) - i
    OBVIOUS
  <2>3. /\ b \in Seq(S)
        /\ Len(b) = IF i+1 <= Len(s) THEN Len(s)-(i+1)+1 ELSE 0
        /\ \A j \in 1..(Len(s)-(i+1)+1) : b[j] = s[i+1+j-1]
    BY <2>1, SubSeqProperties
  <2> HIDE DEF b
  <2>4. Len(b) = Len(s) - i
    <3>1. Len(s) \in Nat /\ i \in Nat /\ i <= Len(s)
      OBVIOUS
    <3>2. Len(b) = IF i+1 <= Len(s) THEN Len(s)-(i+1)+1 ELSE 0
      BY <2>3
    <3> QED
      BY <3>1, <3>2
  <2>5. \A j \in 1..(Len(s)-i) : i+1+j-1 = i+j
    OBVIOUS
  <2>6. \A j \in 1..(Len(s)-i) : b[j] = s[i+j]
    BY <2>2, <2>3, <2>5
  <2> QED
    BY <2>3, <2>4, <2>6
<1> HIDE DEF a, b
<1>3. /\ a \o b \in Seq(S)
      /\ Len(a \o b) = Len(a) + Len(b)
      /\ \A j \in 1..(Len(a)+Len(b)) : (a \o b)[j] = IF j <= Len(a) THEN a[j] ELSE b[j - Len(a)]
  BY <1>1, <1>2, ConcatProperties
<1>4. RemoveAt(s, i) = a \o b
  BY DEF RemoveAt, a, b
<1>5. ASSUME NEW j \in 1..(Len(s)-1)
      PROVE  (a \o b)[j] = IF j < i THEN s[j] ELSE s[j+1]
  <2>1. CASE j < i
    BY <1>1, <1>2, <1>3, <2>1
  <2>2. CASE ~(j < i)
    <3>1. (a \o b)[j] = b[j-(i-1)] /\ j-(i-1) \in 1..(Len(s)-i)
      BY <1>1, <1>2, <1>3, <2>2
    <3>2. b[j-(i-1)] = s[i+(j-(i-1))]
      BY <1>2, <3>1
    <3>3. i+(j-(i-1)) = j+1
      OBVIOUS
    <3> QED
      BY <2>2, <3>1, <3>2, <3>3
  <2> QED
    BY <2>1, <2>2
<1> QED
  BY <1>1, <1>2, <1>3, <1>4, <1>5

(* The last place of a kind in a sequence.                                 *)
IsLast(r, k, i) == i \in DOMAIN r /\ r[i] = k /\ \A j \in DOMAIN r : r[j] = k => j <= i

HasLast(r) == \A k \in ToSet(r) : \E i \in DOMAIN r : IsLast(r, k, i)

LEMMA LastUnique ==
  ASSUME NEW S, NEW r \in Seq(S), NEW k, NEW i, IsLast(r, k, i)
  PROVE  LastIn(r, k) = i /\ i \in 1..Len(r)
<1>1. \E j \in DOMAIN r : r[j] = k /\ \A h \in DOMAIN r : r[h] = k => h <= j
  BY DEF IsLast
<1>2. LastIn(r, k) \in DOMAIN r /\ r[LastIn(r, k)] = k /\ \A h \in DOMAIN r : r[h] = k => h <= LastIn(r, k)
  BY <1>1 DEF LastIn
<1>3. i \in Nat /\ LastIn(r, k) \in Nat /\ i \in 1..Len(r)
  BY <1>2 DEF IsLast
<1>4. LastIn(r, k) <= i /\ i <= LastIn(r, k)
  BY <1>2 DEF IsLast
<1> QED
  BY <1>3, <1>4

LEMMA ToSetAppend ==
  ASSUME NEW S, NEW r \in Seq(S), NEW k \in S
  PROVE  ToSet(Append(r, k)) = ToSet(r) \cup {k}
<1>1. DOMAIN r = 1..Len(r) /\ Len(r) \in Nat
  OBVIOUS
<1>2. DOMAIN Append(r, k) = 1..(Len(r)+1)
  BY AppendProperties
<1>3. \A i \in 1..Len(r) : Append(r, k)[i] = r[i]
  BY AppendProperties
<1>4. Append(r, k)[Len(r)+1] = k
  BY AppendProperties
<1> QED
  BY <1>1, <1>2, <1>3, <1>4 DEF ToSet

LEMMA LastAppend ==
  ASSUME NEW S, NEW r \in Seq(S), NEW k \in S, HasLast(r)
  PROVE  /\ HasLast(Append(r, k))
         /\ LastIn(Append(r, k), k) = Len(r) + 1
         /\ \A g \in ToSet(r) \ {k} : LastIn(Append(r, k), g) = LastIn(r, g)
         /\ \A g \in ToSet(r) : LastIn(r, g) \in 1..Len(r)
<1> DEFINE q == Append(r, k)
<1>1. /\ q \in Seq(S) /\ Len(q) = Len(r)+1 /\ q[Len(r)+1] = k
      /\ \A i \in 1..Len(r) : q[i] = r[i]
      /\ DOMAIN q = 1..(Len(r)+1) /\ DOMAIN r = 1..Len(r) /\ Len(r) \in Nat
  BY AppendProperties
<1>2. ToSet(q) = ToSet(r) \cup {k}
  BY ToSetAppend
<1> HIDE DEF q
<1>3. IsLast(q, k, Len(r)+1)
  BY <1>1 DEF IsLast
<1>4. ASSUME NEW g \in ToSet(r), g # k, NEW i \in DOMAIN r, IsLast(r, g, i)
      PROVE  IsLast(q, g, i)
  BY <1>1, <1>4 DEF IsLast
<1>5. HasLast(q)
  <2> SUFFICES ASSUME NEW g \in ToSet(q) PROVE \E i \in DOMAIN q : IsLast(q, g, i)
    BY DEF HasLast
  <2>1. CASE g = k
    BY <1>1, <1>3, <2>1
  <2>2. CASE g # k
    <3>1. PICK i \in DOMAIN r : IsLast(r, g, i)
      BY <1>2, <2>2 DEF HasLast
    <3>2. IsLast(q, g, i) /\ i \in DOMAIN q
      BY <1>1, <1>2, <1>4, <2>2, <3>1
    <3> QED
      BY <3>2
  <2> QED
    BY <2>1, <2>2
<1>6. LastIn(q, k) = Len(r)+1
  BY <1>1, <1>3, LastUnique
<1>7. ASSUME NEW g \in ToSet(r)
      PROVE  LastIn(r, g) \in 1..Len(r) /\ (g # k => LastIn(q, g) = LastIn(r, g))
  <2>1. PICK i \in DOMAIN r : IsLast(r, g, i)
    BY DEF HasLast
  <2>2. LastIn(r, g) = i /\ i \in 1..Len(r)
    BY <2>1, LastUnique
  <2>3. g # k => LastIn(q, g) = i
    BY <1>1, <1>4, <2>1, LastUnique
  <2> QED
    BY <2>2, <2>3
<1> QED
  BY <1>5, <1>6, <1>7 DEF q

LEMMA TimesAppend ==
  ASSUME NEW S, NEW r \in Seq(S), NEW k \in S
  PROVE  /\ Times(Append(r, k), k) = Times(r, k) + 1
         /\ \A g : g # k => Times(Append(r, k), g) = Times(r, g)
         /\ \A g : Times(r, g) \in Nat
         /\ k \notin ToSet(r) => Times(r, k) = 0
<1> DEFINE q == Append(r, k)
           At(s, g) == {i \in DOMAIN s : s[i] = g}
<1>1. /\ q[Len(r)+1] = k /\ \A i \in 1..Len(r) : q[i] = r[i]
      /\ DOMAIN q = 1..(Len(r)+1) /\ DOMAIN r = 1..Len(r) /\ Len(r) \in Nat
  BY AppendProperties
<1>2. \A g : IsFiniteSet(At(r, g)) /\ Cardinality(At(r, g)) \in Nat
  <2> TAKE g
  <2>1. IsFiniteSet(1..Len(r))
    BY <1>1, FS_Interval
  <2>2. At(r, g) \in SUBSET (1..Len(r))
    BY <1>1
  <2>3. IsFiniteSet(At(r, g))
    BY <2>1, <2>2, FS_Subset
  <2> QED
    BY <2>3, FS_CardinalityType
<1> HIDE DEF q
<1>3. At(q, k) = At(r, k) \cup {Len(r)+1} /\ Len(r)+1 \notin At(r, k)
  BY <1>1
<1>4. \A g : g # k => At(q, g) = At(r, g)
  BY <1>1
<1>5. Cardinality(At(q, k)) = Cardinality(At(r, k)) + 1
  <2>1. IsFiniteSet(At(r, k))
    BY <1>2
  <2> HIDE DEF At
  <2> QED
    BY <1>3, <2>1, FS_AddElement
<1>6. k \notin ToSet(r) => At(r, k) = {}
  BY DEF ToSet
<1>7. \A s, g : Times(s, g) = Cardinality(At(s, g))
  BY DEF Times
<1>8. k \notin ToSet(r) => Times(r, k) = 0
  BY <1>6, <1>7, FS_EmptySet
<1> HIDE DEF At
<1> QED
  BY <1>2, <1>4, <1>5, <1>7, <1>8 DEF q

(* A logged event alike moves to the front, and nothing else changes.      *)
LEMMA PushOld ==
  ASSUME NEW l \in Seq(Entries), NEW k \in Kinds, IsLogged(l, k)
  PROVE  \E i \in 1..Len(l) :
           /\ l[i].kind = k
           /\ Push(l, k) \in Seq(Entries) /\ Len(Push(l, k)) = Len(l)
           /\ Push(l, k)[1] = [kind |-> k, count |-> l[i].count + 1]
           /\ \A j \in 2..Len(l) : Push(l, k)[j] = IF j <= i THEN l[j-1] ELSE l[j]
<1> DEFINE i == CHOOSE j \in DOMAIN l : l[j].kind = k
           e == Counted(l[i])
           q == RemoveAt(l, i)
<1>1. i \in 1..Len(l) /\ l[i].kind = k
  BY DEF IsLogged
<1>2. Push(l, k) = <<e>> \o q
  BY DEF Push
<1> HIDE DEF i
<1>3. l[i] \in Entries /\ Len(l) \in Nat
  BY <1>1
<1>4. e = [kind |-> k, count |-> l[i].count + 1] /\ e \in Entries
  BY <1>1, <1>3 DEF Entries, Counted
<1>5. /\ q \in Seq(Entries) /\ Len(q) = Len(l) - 1
      /\ \A j \in 1..(Len(l)-1) : q[j] = IF j < i THEN l[j] ELSE l[j+1]
  BY <1>1, RemoveAtProperties
<1> HIDE DEF e, q
<1> DEFINE p == <<e>> \o q
<1>6. <<e>> \in Seq(Entries) /\ Len(<<e>>) = 1 /\ <<e>>[1] = e
  BY <1>4
<1>7. /\ p \in Seq(Entries) /\ Len(p) = 1 + Len(q)
      /\ \A j \in 1..(1+Len(q)) : p[j] = IF j <= 1 THEN <<e>>[j] ELSE q[j-1]
  BY <1>5, <1>6, ConcatProperties
<1>8. Len(p) = Len(l) /\ p[1] = e
  BY <1>1, <1>3, <1>5, <1>6, <1>7
<1>9. \A j \in 2..Len(l) : p[j] = IF j <= i THEN l[j-1] ELSE l[j]
  <2> TAKE j \in 2..Len(l)
  <2>1. p[j] = q[j-1] /\ j-1 \in 1..(Len(l)-1)
    BY <1>3, <1>5, <1>7
  <2>2. (j-1 < i <=> j <= i) /\ (j-1)+1 = j
    BY <1>1
  <2> QED
    BY <1>5, <2>1, <2>2
<1>10. Push(l, k) = p
  BY <1>2
<1> HIDE DEF p
<1> QED
  BY <1>1, <1>4, <1>7, <1>8, <1>9, <1>10

(* A new one is put in front; one more than fit drops out at the end.      *)
LEMMA PushNew ==
  ASSUME NEW l \in Seq(Entries), NEW k \in Kinds, ~IsLogged(l, k)
  PROVE  /\ Push(l, k) \in Seq(Entries)
         /\ Len(Push(l, k)) = IF Len(l) < LogLen THEN Len(l) + 1 ELSE LogLen
         /\ Push(l, k)[1] = [kind |-> k, count |-> 1]
         /\ \A j \in 2..Len(Push(l, k)) : j-1 \in 1..Len(l) /\ Push(l, k)[j] = l[j-1]
<1> DEFINE e == [kind |-> k, count |-> 1]
           s == <<e>> \o l
           n == IF Len(s) < LogLen THEN Len(s) ELSE LogLen
<1>1. e \in Entries /\ <<e>> \in Seq(Entries) /\ Len(<<e>>) = 1 /\ <<e>>[1] = e
  BY DEF Entries
<1>2. /\ s \in Seq(Entries) /\ Len(s) = 1 + Len(l)
      /\ \A i \in 1..(1+Len(l)) : s[i] = IF i <= 1 THEN <<e>>[i] ELSE l[i-1]
  <2> HIDE DEF e
  <2> QED
    BY <1>1, ConcatProperties
<1>3. s[1] = e /\ \A i \in 2..Len(s) : s[i] = l[i-1] /\ i-1 \in 1..Len(l)
  BY <1>1, <1>2
<1> HIDE DEF s, e
<1>4. n \in 1..Len(s) /\ Len(s) \in Nat /\ n = IF Len(l) < LogLen THEN Len(l)+1 ELSE LogLen
  BY <1>2, EventLogAssumption
<1> HIDE DEF n
<1>5. \A i \in 1..n : s[i] \in Entries
  BY <1>2, <1>4, ElementOfSeq
<1>6. /\ SubSeq(s, 1, n) \in Seq(Entries)
      /\ Len(SubSeq(s, 1, n)) = IF 1 <= n THEN n - 1 + 1 ELSE 0
      /\ \A i \in 1..(n - 1 + 1) : SubSeq(s, 1, n)[i] = s[1+i-1]
  BY <1>4, <1>5, SubSeqProperties
<1>7. Push(l, k) = SubSeq(s, 1, n)
  BY DEF Push, Truncated, s, n, e
<1> DEFINE p == SubSeq(s, 1, n)
<1>8. p \in Seq(Entries) /\ Len(p) = n
  BY <1>4, <1>6
<1>9. \A i \in 1..n : p[i] = s[i]
  <2> TAKE i \in 1..n
  <2>1. n-1+1 = n /\ 1+i-1 = i
    BY <1>4
  <2> QED
    BY <1>6, <2>1
<1> HIDE DEF p
<1>10. Push(l, k) = p
  BY <1>7 DEF p
<1>11. p[1] = e
  BY <1>3, <1>4, <1>9
<1>12. \A j \in 2..n : j-1 \in 1..Len(l) /\ p[j] = l[j-1]
  BY <1>2, <1>3, <1>4, <1>9
<1> QED
  BY <1>4, <1>8, <1>10, <1>11, <1>12 DEF e

(* A sequence of different kinds shows as many as it is long.              *)
LEMMA ShownCardinality ==
  ASSUME NEW l \in Seq(Entries),
         \A i, j \in DOMAIN l : i < j => l[i].kind # l[j].kind
  PROVE  LET shown == {l[i].kind : i \in DOMAIN l}
         IN  IsFiniteSet(shown) /\ Cardinality(shown) = Len(l)
<1> DEFINE shown == {l[i].kind : i \in DOMAIN l}
           f == [i \in 1..Len(l) |-> l[i].kind]
<1>1. DOMAIN l = 1..Len(l) /\ Len(l) \in Nat
  OBVIOUS
<1>2. f \in [1..Len(l) -> shown] /\ \A g \in shown : \E i \in 1..Len(l) : f[i] = g
  BY <1>1
<1>3. \A i, j \in 1..Len(l) : f[i] = f[j] => i = j
  BY <1>1
<1>4. f \in Bijection(1..Len(l), shown)
  <2> HIDE DEF f, shown
  <2> QED
    BY <1>2, <1>3 DEF Bijection, Injection, Surjection, IsInjective
<1> HIDE DEF f, shown
<1>5. ExistsBijection(1..Len(l), shown)
  BY <1>4 DEF ExistsBijection
<1>6. IsFiniteSet(1..Len(l)) /\ Cardinality(1..Len(l)) = Len(l)
  BY <1>1, FS_Interval
<1>7. IsFiniteSet(shown) /\ Cardinality(shown) = Cardinality(1..Len(l))
  BY <1>5, <1>6, FS_Bijection
<1> QED
  BY <1>6, <1>7 DEF shown

LEMMA ToSetFinite ==
  ASSUME NEW S, NEW r \in Seq(S)
  PROVE  IsFiniteSet(ToSet(r)) /\ Cardinality(ToSet(r)) \in Nat
<1> DEFINE f == [i \in 1..Len(r) |-> r[i]]
<1>1. DOMAIN r = 1..Len(r) /\ Len(r) \in Nat
  OBVIOUS
<1>2. f \in Surjection(1..Len(r), ToSet(r))
  BY <1>1 DEF Surjection, ToSet
<1>3. IsFiniteSet(1..Len(r))
  BY <1>1, FS_Interval
<1> HIDE DEF f
<1>4. IsFiniteSet(ToSet(r))
  BY <1>2, <1>3, FS_Surjection
<1> QED
  BY <1>4, FS_CardinalityType

-----------------------------------------------------------------------------
(* Recording a kind that is shown.                                         *)
LEMMA ShowsOld ==
  ASSUME NEW l \in Seq(Entries), NEW r \in Seq(Kinds), NEW k \in Kinds,
         HasLast(r), ShowsTheLatest(l, r), IsLogged(l, k)
  PROVE  ShowsTheLatest(Push(l, k), Append(r, k))
<1> DEFINE p == Push(l, k)
           q == Append(r, k)
           all == ToSet(r)
           shown == {l[i].kind : i \in DOMAIN l}
<1>1. PICK i \in 1..Len(l) :
        /\ l[i].kind = k
        /\ p \in Seq(Entries) /\ Len(p) = Len(l)
        /\ p[1] = [kind |-> k, count |-> l[i].count + 1]
        /\ \A j \in 2..Len(l) : p[j] = IF j <= i THEN l[j-1] ELSE l[j]
  BY PushOld
<1>2. /\ LastIn(q, k) = Len(r) + 1
      /\ \A g \in all \ {k} : LastIn(q, g) = LastIn(r, g)
      /\ \A g \in all : LastIn(r, g) \in 1..Len(r)
  BY LastAppend
<1>3. DOMAIN l = 1..Len(l) /\ DOMAIN p = 1..Len(l) /\ Len(l) \in Nat /\ Len(r) \in Nat
  BY <1>1
<1>4. shown \subseteq all /\ k \in shown /\ k \in all
  BY <1>1, <1>3 DEF ShowsTheLatest
<1>5. ToSet(q) = all
  <2>1. ToSet(q) = ToSet(r) \cup {k}
    BY ToSetAppend
  <2> QED
    BY <1>4, <2>1
<1>6. \A h, j \in 1..Len(l) : h < j => LastIn(r, l[h].kind) > LastIn(r, l[j].kind)
  BY <1>3 DEF ShowsTheLatest
<1>7. \A j \in 1..Len(l) : l[j].kind \in all /\ (l[j].kind = k => j = i)
  <2> TAKE j \in 1..Len(l)
  <2>1. l[j].kind \in all
    BY <1>3, <1>4
  <2>2. CASE l[j].kind = k
    <3>1. ~(i < j) /\ ~(j < i)
      BY <1>1, <1>2, <1>4, <1>6, <2>2
    <3> QED
      BY <2>1, <3>1
  <2> QED
    BY <2>1, <2>2
<1> HIDE DEF p, q, all
<1> DEFINE from(j) == IF j <= i THEN j-1 ELSE j
<1>8. \A j \in 2..Len(l) : /\ from(j) \in 1..Len(l) /\ from(j) # i /\ p[j] = l[from(j)]
                           /\ p[j].kind # k /\ p[j].kind \in all
  <2> TAKE j \in 2..Len(l)
  <2>1. from(j) \in 1..Len(l) /\ from(j) # i
    BY <1>3
  <2>2. p[j] = l[from(j)]
    BY <1>1
  <2> QED
    BY <1>7, <2>1, <2>2
<1>9. p[1].kind = k /\ p[1].count = l[i].count + 1
  BY <1>1
<1>10. {p[j].kind : j \in DOMAIN p} = shown
  <2>1. \A j \in DOMAIN p : p[j].kind \in shown
    <3> TAKE j \in DOMAIN p
    <3>1. CASE j = 1
      BY <1>4, <1>9, <3>1
    <3>2. CASE j # 1
      BY <1>3, <1>8, <3>2
    <3> QED
      BY <3>1, <3>2
  <2>2. \A j \in DOMAIN l : \E h \in DOMAIN p : p[h].kind = l[j].kind
    <3> TAKE j \in DOMAIN l
    <3>1. CASE j = i
      BY <1>1, <1>3, <1>9, <3>1
    <3>2. CASE j < i
      <4>1. j+1 \in 2..Len(l) /\ from(j+1) = j
        BY <1>3, <3>2
      <4> QED
        BY <1>3, <1>8, <4>1
    <3>3. CASE j > i
      <4>1. j \in 2..Len(l) /\ from(j) = j
        BY <1>3, <3>3
      <4> QED
        BY <1>3, <1>8, <4>1
    <3> QED
      BY <1>3, <3>1, <3>2, <3>3
  <2> QED
    BY <2>1, <2>2
<1>11. \A h, j \in DOMAIN p : h < j => LastIn(q, p[h].kind) > LastIn(q, p[j].kind)
  <2> TAKE h, j \in DOMAIN p
  <2> HAVE h < j
  <2>1. j \in 2..Len(l) /\ h \in 1..Len(l)
    BY <1>3
  <2>2. LastIn(q, p[j].kind) = LastIn(r, l[from(j)].kind)
    BY <1>2, <1>8, <2>1
  <2>3. CASE h = 1
    <3>1. LastIn(r, l[from(j)].kind) \in 1..Len(r)
      BY <1>2, <1>8, <2>1
    <3> QED
      BY <1>2, <1>3, <1>9, <2>2, <2>3, <3>1
  <2>4. CASE h # 1
    <3>1. h \in 2..Len(l)
      BY <2>1, <2>4
    <3>2. LastIn(q, p[h].kind) = LastIn(r, l[from(h)].kind)
      BY <1>2, <1>8, <3>1
    <3>3. from(h) < from(j)
      BY <1>8, <2>1, <3>1
    <3> QED
      BY <1>6, <1>8, <2>1, <2>2, <3>1, <3>2, <3>3
  <2> QED
    BY <2>3, <2>4
<1>12. \A m \in shown, g \in all \ shown : LastIn(q, m) > LastIn(q, g)
  <2> TAKE m \in shown, g \in all \ shown
  <2>1. LastIn(q, g) = LastIn(r, g) /\ LastIn(r, g) \in 1..Len(r)
    BY <1>2, <1>4
  <2>2. CASE m = k
    BY <1>2, <1>3, <2>1, <2>2
  <2>3. CASE m # k
    <3>1. LastIn(r, m) > LastIn(r, g)
      BY DEF ShowsTheLatest, all
    <3>2. LastIn(q, m) = LastIn(r, m)
      BY <1>2, <1>4, <2>3
    <3> QED
      BY <2>1, <3>1, <3>2
  <2> QED
    BY <2>2, <2>3
<1>13. Cardinality(all) <= LogLen => \A j \in DOMAIN p : p[j].count = Times(q, p[j].kind)
  <2> SUFFICES ASSUME Cardinality(all) <= LogLen, NEW j \in DOMAIN p
               PROVE  p[j].count = Times(q, p[j].kind)
    OBVIOUS
  <2>1. \A h \in 1..Len(l) : l[h].count = Times(r, l[h].kind)
    BY <1>3 DEF ShowsTheLatest, all
  <2>2. Times(q, k) = Times(r, k) + 1 /\ \A g : g # k => Times(q, g) = Times(r, g)
    BY TimesAppend DEF q
  <2>3. CASE j = 1
    BY <1>1, <1>9, <2>1, <2>2, <2>3
  <2>4. CASE j # 1
    <3>1. j \in 2..Len(l)
      BY <1>3, <2>4
    <3> QED
      BY <1>8, <2>1, <2>2, <3>1
  <2> QED
    BY <2>3, <2>4
<1>14. Len(p) = IF Cardinality(all) < LogLen THEN Cardinality(all) ELSE LogLen
  BY <1>1 DEF ShowsTheLatest, all
<1>15. ShowsTheLatest(p, q)
  <2> HIDE DEF shown, from
  <2> QED
    BY <1>4, <1>5, <1>10, <1>11, <1>12, <1>13, <1>14 DEF ShowsTheLatest
<1> QED
  BY <1>15 DEF p, q

(* Recording a kind that is not: it is new, or was pushed out before.      *)
LEMMA ShowsNew ==
  ASSUME NEW l \in Seq(Entries), NEW r \in Seq(Kinds), NEW k \in Kinds,
         HasLast(r), ShowsTheLatest(l, r), ~IsLogged(l, k)
  PROVE  ShowsTheLatest(Push(l, k), Append(r, k))
<1> DEFINE p == Push(l, k)
           q == Append(r, k)
           all == ToSet(r)
           shown == {l[i].kind : i \in DOMAIN l}
           told == all \cup {k}
           seen == {p[i].kind : i \in DOMAIN p}
<1>1. /\ p \in Seq(Entries)
      /\ Len(p) = IF Len(l) < LogLen THEN Len(l) + 1 ELSE LogLen
      /\ p[1] = [kind |-> k, count |-> 1]
      /\ \A j \in 2..Len(p) : j-1 \in 1..Len(l) /\ p[j] = l[j-1]
  BY PushNew
<1>2. /\ LastIn(q, k) = Len(r) + 1
      /\ \A g \in all \ {k} : LastIn(q, g) = LastIn(r, g)
      /\ \A g \in all : LastIn(r, g) \in 1..Len(r)
  BY LastAppend
<1>3. DOMAIN l = 1..Len(l) /\ DOMAIN p = 1..Len(p) /\ Len(l) \in Nat /\ Len(p) \in Nat /\ Len(r) \in Nat
  BY <1>1
<1>4. shown \subseteq all /\ k \notin shown
  BY DEF ShowsTheLatest, IsLogged
<1>5. ToSet(q) = told
  BY ToSetAppend
<1>6. \A h, j \in 1..Len(l) : h < j => LastIn(r, l[h].kind) > LastIn(r, l[j].kind)
  BY <1>3 DEF ShowsTheLatest
<1>7. \A j \in 1..Len(l) : l[j].kind \in all \ {k} /\ l[j].kind \in shown
  BY <1>3, <1>4
<1>8. p[1].kind = k /\ p[1].count = 1
  BY <1>1
<1>9. Len(l) = IF Cardinality(all) < LogLen THEN Cardinality(all) ELSE LogLen
  BY DEF ShowsTheLatest
<1>10. IsFiniteSet(all) /\ Cardinality(all) \in Nat
  BY ToSetFinite
<1>11. k \in all => Cardinality(all) > LogLen
  <2> SUFFICES ASSUME k \in all, Cardinality(all) <= LogLen PROVE FALSE
    BY <1>10, EventLogAssumption
  <2>1. Len(l) = Cardinality(all)
    BY <1>9, <1>10, EventLogAssumption
  <2>2. \A i, j \in DOMAIN l : i < j => l[i].kind # l[j].kind
    <3> TAKE i, j \in DOMAIN l
    <3> HAVE i < j
    <3>1. LastIn(r, l[i].kind) > LastIn(r, l[j].kind) /\ LastIn(r, l[j].kind) \in 1..Len(r)
      BY <1>2, <1>3, <1>6, <1>7
    <3> QED
      BY <3>1
  <2>3. Cardinality(shown) = Len(l)
    BY <2>2, ShownCardinality
  <2> HIDE DEF shown, all
  <2>4. shown = all
    BY <1>4, <1>10, <2>1, <2>3, FS_Subset
  <2> QED
    BY <1>4, <2>4
<1>12. IsFiniteSet(told) /\ Cardinality(told) = IF k \in all THEN Cardinality(all) ELSE Cardinality(all) + 1
  <2> HIDE DEF all
  <2> QED
    BY <1>10, FS_AddElement
<1> HIDE DEF p, q, all
<1>13. Len(p) = IF Cardinality(told) < LogLen THEN Cardinality(told) ELSE LogLen
  <2> HIDE DEF told
  <2> QED
    BY <1>1, <1>9, <1>10, <1>11, <1>12, EventLogAssumption
<1>14. Len(p) >= 1
  BY <1>1, <1>3, EventLogAssumption
<1>15. seen \subseteq told /\ k \in seen /\ \A j \in 1..(Len(p)-1) : l[j].kind \in seen
  <2>1. \A j \in DOMAIN p : p[j].kind \in told
    <3> TAKE j \in DOMAIN p
    <3>1. CASE j = 1
      BY <1>8, <3>1
    <3>2. CASE j # 1
      <4>1. j \in 2..Len(p)
        BY <1>3, <3>2
      <4>2. p[j] = l[j-1] /\ j-1 \in 1..Len(l)
        BY <1>1, <4>1
      <4> QED
        BY <1>7, <4>2
    <3> QED
      BY <3>1, <3>2
  <2>2. k \in seen
    BY <1>3, <1>8, <1>14
  <2>3. ASSUME NEW j \in 1..(Len(p)-1) PROVE l[j].kind \in seen
    <3>1. j+1 \in 2..Len(p) /\ (j+1)-1 = j
      BY <1>3
    <3>2. p[j+1] = l[j]
      BY <1>1, <3>1
    <3> QED
      BY <1>3, <3>1, <3>2
  <2> QED
    BY <2>1, <2>2, <2>3
<1>16. \A h, j \in DOMAIN p : h < j => LastIn(q, p[h].kind) > LastIn(q, p[j].kind)
  <2> TAKE h, j \in DOMAIN p
  <2> HAVE h < j
  <2>1. j \in 2..Len(p) /\ h \in 1..Len(p)
    BY <1>3
  <2>2. p[j] = l[j-1] /\ j-1 \in 1..Len(l)
    BY <1>1, <2>1
  <2>3. LastIn(q, p[j].kind) = LastIn(r, l[j-1].kind) /\ LastIn(r, l[j-1].kind) \in 1..Len(r)
    BY <1>2, <1>7, <2>2
  <2>4. CASE h = 1
    BY <1>2, <1>3, <1>8, <2>3, <2>4
  <2>5. CASE h # 1
    <3>1. h \in 2..Len(p)
      BY <2>1, <2>5
    <3>2. p[h] = l[h-1] /\ h-1 \in 1..Len(l)
      BY <1>1, <3>1
    <3>3. LastIn(q, p[h].kind) = LastIn(r, l[h-1].kind)
      BY <1>2, <1>7, <3>2
    <3>4. h-1 < j-1
      BY <2>1
    <3> QED
      BY <1>6, <2>2, <2>3, <3>2, <3>3, <3>4
  <2> QED
    BY <2>4, <2>5
<1>17. \A m \in seen, g \in told \ seen : LastIn(q, m) > LastIn(q, g)
  <2> TAKE m \in seen, g \in told \ seen
  <2>1. g \in all \ {k} /\ LastIn(q, g) = LastIn(r, g) /\ LastIn(r, g) \in 1..Len(r)
    BY <1>2, <1>15
  <2>2. PICK j \in DOMAIN p : m = p[j].kind
    OBVIOUS
  <2>3. CASE j = 1
    BY <1>2, <1>3, <1>8, <2>1, <2>2, <2>3
  <2>4. CASE j # 1
    <3>1. j \in 2..Len(p)
      BY <1>3, <2>4
    <3>2. p[j] = l[j-1] /\ j-1 \in 1..Len(l)
      BY <1>1, <3>1
    <3>3. LastIn(q, m) = LastIn(r, m) /\ m = l[j-1].kind /\ m \in shown
      BY <1>2, <1>7, <2>2, <3>2
    <3>4. CASE g \notin shown
      <4>1. LastIn(r, m) > LastIn(r, g)
        BY <2>1, <3>3, <3>4 DEF ShowsTheLatest, all
      <4> QED
        BY <2>1, <3>3, <4>1
    <3>5. CASE g \in shown
      <4>1. PICK h \in 1..Len(l) : g = l[h].kind
        BY <1>3, <3>5
      <4>2. ~(h <= Len(p)-1)
        BY <1>3, <1>15, <4>1
      <4>3. j-1 < h
        BY <1>3, <3>1, <4>2
      <4>4. LastIn(r, l[j-1].kind) > LastIn(r, l[h].kind)
        BY <1>6, <3>2, <4>3
      <4> QED
        BY <2>1, <3>3, <4>1, <4>4
    <3> QED
      BY <3>4, <3>5
  <2> QED
    BY <2>3, <2>4
<1>18. Cardinality(told) <= LogLen => \A j \in DOMAIN p : p[j].count = Times(q, p[j].kind)
  <2> SUFFICES ASSUME Cardinality(told) <= LogLen, NEW j \in DOMAIN p
               PROVE  p[j].count = Times(q, p[j].kind)
    OBVIOUS
  <2>1. k \notin all /\ Cardinality(all) <= LogLen
    <3> HIDE DEF told
    <3> QED
      BY <1>10, <1>11, <1>12, EventLogAssumption
  <2>2. \A h \in 1..Len(l) : l[h].count = Times(r, l[h].kind)
    BY <1>3, <2>1 DEF ShowsTheLatest, all
  <2>3. /\ Times(q, k) = Times(r, k) + 1 /\ Times(r, k) = 0
        /\ \A g : g # k => Times(q, g) = Times(r, g)
    BY <2>1, TimesAppend DEF q, all
  <2>4. CASE j = 1
    BY <1>8, <2>3, <2>4
  <2>5. CASE j # 1
    <3>1. j \in 2..Len(p)
      BY <1>3, <2>5
    <3>2. p[j] = l[j-1] /\ j-1 \in 1..Len(l) /\ l[j-1].kind # k
      BY <1>1, <1>7, <3>1
    <3> QED
      BY <2>2, <2>3, <3>2
  <2> QED
    BY <2>4, <2>5
<1>19. ShowsTheLatest(p, q)
  <2>1. seen = {p[i].kind : i \in DOMAIN p}
    OBVIOUS
  <2> HIDE DEF seen, told
  <2> QED
    BY <1>5, <1>13, <1>15, <1>16, <1>17, <1>18, <2>1 DEF ShowsTheLatest
<1> QED
  BY <1>19 DEF p, q

-----------------------------------------------------------------------------
(* The log and what it was told, whichever threads tell it and when.       *)
LogInv ==
  /\ log \in Seq(Entries) /\ recorded \in Seq(Kinds)
  /\ \A i \in DOMAIN log : log[i].count <= Len(recorded)
  /\ HasLast(recorded)
  /\ ShowsTheLatest(log, recorded)

LEMMA LogInit == Init => LogInv
<1> SUFFICES ASSUME Init PROVE LogInv
  OBVIOUS
<1>1. log = <<>> /\ recorded = <<>> /\ ToSet(recorded) = {} /\ {log[i].kind : i \in DOMAIN log} = {}
  BY DEF Init, ToSet
<1>2. Cardinality({}) = 0
  BY FS_EmptySet
<1>3. DOMAIN log = {} /\ Len(log) = 0
  BY <1>1
<1>4. Len(log) = IF Cardinality(ToSet(recorded)) < LogLen THEN Cardinality(ToSet(recorded)) ELSE LogLen
  <2>1. Cardinality(ToSet(recorded)) = 0
    BY <1>1, <1>2
  <2> QED
    BY <1>3, <2>1, EventLogAssumption
<1>5. ShowsTheLatest(log, recorded)
  BY <1>1, <1>3, <1>4 DEF ShowsTheLatest
<1> QED
  BY <1>1, <1>5 DEF LogInv, HasLast

LEMMA LogPushed ==
  ASSUME LogInv, NEW k \in Kinds, log' = Push(log, k), recorded' = Append(recorded, k)
  PROVE  LogInv'
<1>1. log \in Seq(Entries) /\ recorded \in Seq(Kinds) /\ Len(recorded) \in Nat
  BY DEF LogInv
<1>2. recorded' \in Seq(Kinds) /\ Len(recorded') = Len(recorded) + 1
  BY <1>1, AppendProperties
<1>3. HasLast(recorded')
  BY <1>1, LastAppend DEF LogInv
<1>4. ShowsTheLatest(log', recorded')
  BY <1>1, ShowsOld, ShowsNew DEF LogInv
<1>5. log' \in Seq(Entries) /\ \A i \in DOMAIN log' : log'[i].count <= Len(recorded')
  <2>1. \A i \in 1..Len(log) : log[i].count <= Len(recorded) /\ log[i].count \in Nat
    <3> TAKE i \in 1..Len(log)
    <3>1. log[i] \in Entries /\ i \in DOMAIN log
      BY <1>1
    <3> QED
      BY <3>1 DEF LogInv, Entries
  <2>2. CASE IsLogged(log, k)
    <3>1. PICK i \in 1..Len(log) :
            /\ log' \in Seq(Entries) /\ Len(log') = Len(log)
            /\ log'[1] = [kind |-> k, count |-> log[i].count + 1]
            /\ \A j \in 2..Len(log) : log'[j] = IF j <= i THEN log[j-1] ELSE log[j]
      BY <1>1, <2>2, PushOld
    <3>2. log'[1].count <= Len(recorded')
      BY <1>1, <1>2, <2>1, <3>1
    <3>3. \A j \in 2..Len(log) : \E h \in 1..Len(log) : log'[j] = log[h]
      <4> TAKE j \in 2..Len(log)
      <4>1. CASE j <= i
        BY <3>1, <4>1
      <4>2. CASE ~(j <= i)
        BY <3>1, <4>2
      <4> QED
        BY <4>1, <4>2
    <3>4. DOMAIN log' = 1..Len(log) /\ Len(log) \in Nat
      BY <1>1, <3>1
    <3>5. \A j \in 2..Len(log) : log'[j].count <= Len(recorded')
      BY <1>1, <1>2, <2>1, <3>3
    <3> QED
      BY <3>1, <3>2, <3>4, <3>5
  <2>3. CASE ~IsLogged(log, k)
    <3>1. /\ log' \in Seq(Entries)
          /\ log'[1] = [kind |-> k, count |-> 1]
          /\ \A j \in 2..Len(log') : j-1 \in 1..Len(log) /\ log'[j] = log[j-1]
      BY <1>1, <2>3, PushNew
    <3>2. \A j \in 2..Len(log') : log'[j].count <= Len(recorded')
      BY <1>1, <1>2, <2>1, <3>1
    <3>3. log'[1].count <= Len(recorded')
      BY <1>1, <1>2, <3>1
    <3>4. DOMAIN log' = 1..Len(log') /\ Len(log') \in Nat
      BY <3>1
    <3> QED
      BY <3>1, <3>2, <3>3, <3>4
  <2> QED
    BY <2>2, <2>3
<1> QED
  BY <1>2, <1>3, <1>4, <1>5 DEF LogInv

(* Only the last step of a call tells the log; the others leave both.      *)
LEMMA LogLeftAlone ==
  ASSUME NEW t \in Threads,
         \/ \E k \in Kinds : Call(t, k)
         \/ Step(t) /\ ~LogEvent(t)
  PROVE  UNCHANGED <<log, recorded>>
BY DEF Call, Step, PatchEvent, CreateSucceeds, CreateFails, Store, MoveToEnd, CheckLength,
       OpenIterator, FindOldest, Evict, CacheRaises

LEMMA LogNext == CacheInv /\ LogInv /\ [Next]_vars => LogInv'
<1> SUFFICES ASSUME CacheInv, LogInv, [Next]_vars PROVE LogInv'
  OBVIOUS
<1>1. CASE UNCHANGED <<log, recorded>>
  BY <1>1 DEF LogInv
<1>2. ASSUME NEW t \in Threads, LogEvent(t) PROVE LogInv'
  <2>1. kind[t] \in Kinds
    BY <1>2 DEF LogEvent, CacheInv, CacheTypeOK
  <2> QED
    BY <1>2, <2>1, LogPushed DEF LogEvent
<1>3. CASE UNCHANGED vars
  BY <1>1, <1>3 DEF vars
<1> QED
  BY <1>1, <1>2, <1>3, LogLeftAlone DEF Next

(* The log of the debug state (DebugStateStore.record_event): it holds the *)
(* kinds recorded last, newest first, none twice, and forgets one only for *)
(* lack of room; its counts are right while all fit.                       *)
THEOREM LogIsOfTheLatest == Spec => []LogShowsTheLatest
<1>1. LogInv => LogShowsTheLatest
  BY DEF LogInv, LogShowsTheLatest
<1> QED
  BY InitInv, NextInv, LogInit, LogNext, <1>1, PTL DEF Spec

-----------------------------------------------------------------------------
(* Types: the keys of the cache, what threads hold, and the counts.        *)
KeysDiffer == \A i, j \in DOMAIN cache : cache[i] = cache[j] => i = j

ThreadsOK ==
  /\ oldkey \in [Threads -> Kinds \cup {NoKind}]
  /\ attempts \in [Threads -> 0..(MaxAttempts - 1)]
  /\ \A t \in Threads :
        /\ kind[t] = NoKind <=> pc[t] = "idle"
        /\ oldkey[t] = NoKind <=> pc[t] # "evict"

Busy == {t \in Threads : pc[t] # "idle"}

CallsCounted ==
  /\ calls \in 0..MaxCalls
  /\ Len(recorded) + Cardinality(Busy) <= calls

TypeInv == KeysDiffer /\ ThreadsOK /\ CallsCounted

LEMMA WithoutDiffers ==
  ASSUME NEW S, NEW s \in Seq(S), NEW x, In(s, x),
         \A i, j \in DOMAIN s : s[i] = s[j] => i = j
  PROVE  LET w == Without(s, x)
         IN  /\ w \in Seq(S)
             /\ \A i, j \in DOMAIN w : w[i] = w[j] => i = j
             /\ ~In(w, x)
<1> DEFINE i == CHOOSE j \in DOMAIN s : s[j] = x
           w == RemoveAt(s, i)
<1>1. i \in 1..Len(s) /\ s[i] = x
  BY DEF In
<1> HIDE DEF i
<1>2. /\ w \in Seq(S) /\ Len(w) = Len(s) - 1
      /\ \A j \in 1..(Len(s)-1) : w[j] = IF j < i THEN s[j] ELSE s[j+1]
  BY <1>1, RemoveAtProperties
<1> HIDE DEF w
<1>3. DOMAIN w = 1..(Len(s)-1) /\ DOMAIN s = 1..Len(s) /\ Len(s) \in Nat
  BY <1>2
<1> DEFINE from(j) == IF j < i THEN j ELSE j+1
<1>4. \A j \in DOMAIN w : from(j) \in DOMAIN s /\ from(j) # i /\ w[j] = s[from(j)]
  BY <1>1, <1>2, <1>3
<1>5. \A j, h \in DOMAIN w : from(j) = from(h) => j = h
  BY <1>1, <1>3
<1>6. \A j \in DOMAIN s : s[j] = x => j = i
  BY <1>1, <1>3
<1> HIDE DEF from
<1>7. Without(s, x) = w
  BY DEF Without, w, i
<1>8. \A j, h \in DOMAIN w : w[j] = w[h] => j = h
  BY <1>4, <1>5
<1>9. ~In(w, x)
  BY <1>4, <1>6 DEF In
<1> QED
  BY <1>2, <1>7, <1>8, <1>9

LEMMA AppendDiffers ==
  ASSUME NEW S, NEW s \in Seq(S), NEW x \in S, ~In(s, x),
         \A i, j \in DOMAIN s : s[i] = s[j] => i = j
  PROVE  \A i, j \in DOMAIN Append(s, x) : Append(s, x)[i] = Append(s, x)[j] => i = j
<1> DEFINE q == Append(s, x)
<1>1. /\ DOMAIN q = 1..(Len(s)+1) /\ DOMAIN s = 1..Len(s) /\ Len(s) \in Nat
      /\ q[Len(s)+1] = x /\ \A i \in 1..Len(s) : q[i] = s[i]
  BY AppendProperties
<1> HIDE DEF q
<1>2. \A i \in 1..Len(s) : q[i] # x
  BY <1>1 DEF In
<1>3. ASSUME NEW i \in DOMAIN q, NEW j \in DOMAIN q, q[i] = q[j] PROVE i = j
  <2>1. CASE i \in 1..Len(s) /\ j \in 1..Len(s)
    BY <1>1, <1>3, <2>1
  <2>2. CASE i = Len(s)+1
    BY <1>1, <1>2, <1>3, <2>2
  <2>3. CASE j = Len(s)+1
    BY <1>1, <1>2, <1>3, <2>3
  <2> QED
    BY <1>1, <2>1, <2>2, <2>3
<1> QED
  BY <1>3 DEF q

LEMMA TypeInit == Init => TypeInv
<1> SUFFICES ASSUME Init PROVE TypeInv
  OBVIOUS
<1> USE EventLogAssumption DEF Init
<1>1. KeysDiffer
  BY DEF KeysDiffer
<1>2. ThreadsOK
  BY DEF ThreadsOK, MaxAttempts
<1>3. Busy = {} /\ Len(recorded) = 0
  BY DEF Busy
<1>4. CallsCounted
  BY <1>3, FS_EmptySet DEF CallsCounted
<1> QED
  BY <1>1, <1>2, <1>4 DEF TypeInv

LEMMA KeysNext ==
  ASSUME CacheInv, KeysDiffer, [Next]_vars
  PROVE  KeysDiffer'
<1>1. CASE UNCHANGED cache
  BY <1>1 DEF KeysDiffer
<1>2. ASSUME NEW t \in Threads, Store(t), ~In(cache, kind[t]) PROVE KeysDiffer'
  <2>1. cache \in Seq(Kinds) /\ kind[t] \in Kinds /\ cache' = Append(cache, kind[t])
    BY <1>2 DEF Store, CacheInv, CacheTypeOK
  <2> QED
    BY <1>2, <2>1, AppendDiffers DEF KeysDiffer
<1>3. ASSUME NEW t \in Threads, MoveToEnd(t) PROVE KeysDiffer'
  <2> DEFINE w == Without(cache, kind[t])
  <2>1. cache \in Seq(Kinds) /\ kind[t] \in Kinds /\ In(cache, kind[t]) /\ cache' = Append(w, kind[t])
    BY <1>3 DEF MoveToEnd, CacheInv, CacheTypeOK
  <2>2. w \in Seq(Kinds) /\ ~In(w, kind[t]) /\ \A i, j \in DOMAIN w : w[i] = w[j] => i = j
    BY <2>1, WithoutDiffers DEF KeysDiffer
  <2> HIDE DEF w
  <2>3. \A i, j \in DOMAIN Append(w, kind[t]) : Append(w, kind[t])[i] = Append(w, kind[t])[j] => i = j
    BY <2>1, <2>2, AppendDiffers
  <2> QED
    BY <2>1, <2>3 DEF KeysDiffer
<1>4. ASSUME NEW t \in Threads, Evict(t) PROVE KeysDiffer'
  <2>1. cache \in Seq(Kinds) /\ In(cache, oldkey[t]) /\ cache' = Without(cache, oldkey[t])
    BY <1>4 DEF Evict, CacheInv, CacheTypeOK
  <2> QED
    BY <2>1, WithoutDiffers DEF KeysDiffer
<1>5. ASSUME NEW t \in Threads,
             \/ \E k \in Kinds : Call(t, k)
             \/ Step(t) /\ ~(Store(t) /\ ~In(cache, kind[t])) /\ ~MoveToEnd(t) /\ ~Evict(t)
      PROVE  UNCHANGED cache
  BY <1>5 DEF Call, Step, PatchEvent, CreateSucceeds, CreateFails, Store, CheckLength,
              OpenIterator, FindOldest, CacheRaises, LogEvent
<1>6. CASE UNCHANGED vars
  BY <1>1, <1>6 DEF vars
<1> QED
  BY <1>1, <1>2, <1>3, <1>4, <1>5, <1>6 DEF Next

(* A change of the cache leaves every iterator behind.                     *)
LEMMA ThreadsNext ==
  ASSUME CacheInv, ThreadsOK, [Next]_vars
  PROVE  ThreadsOK'
<1> USE EventLogAssumption DEF MaxAttempts
<1>1. CASE UNCHANGED vars
  BY <1>1 DEF vars, locals, ThreadsOK
<1>2. ASSUME NEW t \in Threads, NEW k \in Kinds, Call(t, k) PROVE ThreadsOK'
  BY <1>2 DEF Call, Goto, ThreadsOK, CacheInv, CacheTypeOK
<1>3. ASSUME NEW t \in Threads, Return(t), UNCHANGED cache PROVE ThreadsOK'
  BY <1>3 DEF Return, Goto, ThreadsOK, CacheInv, CacheTypeOK
<1>4. ASSUME NEW t \in Threads, PatchEvent(t) \/ CreateSucceeds(t) PROVE ThreadsOK'
  BY <1>4 DEF PatchEvent, CreateSucceeds, Goto, ThreadsOK, CacheInv, CacheTypeOK
<1>5. ASSUME NEW t \in Threads, CreateFails(t) PROVE ThreadsOK'
  BY <1>3, <1>5 DEF CreateFails, Goto, ThreadsOK, CacheInv, CacheTypeOK
<1>6. ASSUME NEW t \in Threads, Store(t) PROVE ThreadsOK'
  BY <1>6 DEF Store, Goto, ThreadsOK, CacheInv, CacheTypeOK, Iterating
<1>7. ASSUME NEW t \in Threads, MoveToEnd(t) PROVE ThreadsOK'
  BY <1>7 DEF MoveToEnd, Goto, ThreadsOK, CacheInv, CacheTypeOK, Iterating
<1>8. ASSUME NEW t \in Threads, CheckLength(t) PROVE ThreadsOK'
  BY <1>8 DEF CheckLength, Goto, ThreadsOK, CacheInv, CacheTypeOK
<1>9. ASSUME NEW t \in Threads, FindOldest(t) PROVE ThreadsOK'
  <2>1. Len(cache) > 0 /\ cache \in Seq(Kinds)
    BY <1>9 DEF FindOldest, CacheInv, CacheTypeOK
  <2>2. Head(cache) \in Kinds
    BY <2>1, HeadIsIn
  <2> QED
    BY <1>9, <2>2 DEF FindOldest, Goto, ThreadsOK, CacheInv, CacheTypeOK
<1>10. ASSUME NEW t \in Threads, Evict(t) PROVE ThreadsOK'
  BY <1>10 DEF Evict, Goto, ThreadsOK, CacheInv, CacheTypeOK, Iterating
<1>11. ASSUME NEW t \in Threads, OpenIterator(t) PROVE ThreadsOK'
  BY <1>11 DEF OpenIterator, Goto, ThreadsOK, CacheInv, CacheTypeOK
<1> QED
  BY <1>1, <1>2, <1>3, <1>4, <1>5, <1>6, <1>7, <1>8, <1>9, <1>10, <1>11
  DEF Next, Step, CacheRaises, LogEvent

(* A call that is under way has not told the log yet.                      *)
LEMMA CallsNext ==
  ASSUME CacheInv, LogInv, CallsCounted, [Next]_vars
  PROVE  CallsCounted'
<1> USE EventLogAssumption
<1>1. IsFiniteSet(Busy) /\ Cardinality(Busy) \in Nat /\ Len(recorded) \in Nat
  <2>1. Busy \in SUBSET Threads
    BY DEF Busy
  <2>2. IsFiniteSet(Busy)
    BY <2>1, FS_Subset
  <2>3. recorded \in Seq(Kinds)
    BY DEF LogInv
  <2> QED
    BY <2>2, <2>3, FS_CardinalityType
<1>2. CASE UNCHANGED <<Busy, recorded, calls>>
  BY <1>2 DEF CallsCounted
<1>3. ASSUME NEW t \in Threads, NEW k \in Kinds, Call(t, k) PROVE CallsCounted'
  <2>1. Busy' = Busy \cup {t} /\ t \notin Busy
    BY <1>3 DEF Call, Goto, Busy, CacheInv, CacheTypeOK
  <2>2. Cardinality(Busy') = Cardinality(Busy) + 1
    BY <1>1, <2>1, FS_AddElement
  <2>3. calls' = calls + 1 /\ calls < MaxCalls /\ recorded' = recorded
    BY <1>3 DEF Call
  <2> QED
    BY <1>1, <2>2, <2>3 DEF CallsCounted
<1>4. ASSUME NEW t \in Threads, Return(t), pc[t] # "idle"
      PROVE  Cardinality(Busy') = Cardinality(Busy) - 1
  <2>1. Busy' = Busy \ {t} /\ t \in Busy
    BY <1>4 DEF Return, Goto, Busy, CacheInv, CacheTypeOK
  <2> QED
    BY <1>1, <2>1, FS_RemoveElement
<1>5. ASSUME NEW t \in Threads, LogEvent(t) PROVE CallsCounted'
  <2>1. recorded \in Seq(Kinds) /\ kind[t] \in Kinds /\ recorded' = Append(recorded, kind[t])
    BY <1>5 DEF LogEvent, LogInv, CacheInv, CacheTypeOK
  <2>2. Len(recorded') = Len(recorded) + 1
    BY <2>1, AppendProperties
  <2>3. Cardinality(Busy') = Cardinality(Busy) - 1 /\ calls' = calls
    BY <1>4, <1>5 DEF LogEvent
  <2> QED
    BY <1>1, <2>2, <2>3 DEF CallsCounted
<1>6. ASSUME NEW t \in Threads, Return(t), pc[t] # "idle", UNCHANGED <<recorded, calls>>
      PROVE  CallsCounted'
  <2>1. Cardinality(Busy') = Cardinality(Busy) - 1
    BY <1>4, <1>6
  <2> QED
    BY <1>1, <1>6, <2>1 DEF CallsCounted
<1>7. ASSUME NEW t \in Threads, CreateFails(t) \/ CacheRaises(t) PROVE CallsCounted'
  <2>1. pc[t] # "idle" /\ UNCHANGED <<recorded, calls>>
    BY <1>7 DEF CreateFails, CacheRaises, CacheInv, CacheTypeOK, Iterating
  <2>2. CASE Return(t)
    BY <1>6, <2>1, <2>2
  <2>3. CASE UNCHANGED pc
    BY <1>2, <2>1, <2>3 DEF Busy
  <2> QED
    BY <1>7, <2>2, <2>3 DEF CreateFails, CacheRaises
<1>8. ASSUME NEW t \in Threads,
             \/ PatchEvent(t) \/ CreateSucceeds(t) \/ Store(t) \/ MoveToEnd(t)
             \/ CheckLength(t) \/ OpenIterator(t) \/ FindOldest(t) \/ Evict(t)
      PROVE  CallsCounted'
  <2>1. UNCHANGED <<recorded, calls>>
    BY <1>8 DEF PatchEvent, CreateSucceeds, Store, MoveToEnd, CheckLength, OpenIterator,
              FindOldest, Evict
  <2>2. pc[t] # "idle" /\ \E l \in {"log", "create", "store", "move", "check", "open", "iterate", "evict"} : Goto(t, l)
    BY <1>8 DEF PatchEvent, CreateSucceeds, Store, MoveToEnd, CheckLength, OpenIterator,
              FindOldest, Evict
  <2>3. UNCHANGED Busy
    BY <2>2 DEF Goto, Busy, CacheInv, CacheTypeOK
  <2> QED
    BY <1>2, <2>1, <2>3
<1>9. CASE UNCHANGED vars
  BY <1>2, <1>9 DEF vars, locals, Busy
<1> QED
  BY <1>3, <1>5, <1>7, <1>8, <1>9 DEF Next, Step

LEMMA TypeNext == CacheInv /\ LogInv /\ TypeInv /\ [Next]_vars => TypeInv'
BY KeysNext, ThreadsNext, CallsNext DEF TypeInv

LEMMA InvTypeOK == CacheInv /\ LogInv /\ TypeInv => TypeOK
<1> SUFFICES ASSUME CacheInv, LogInv, TypeInv PROVE TypeOK
  OBVIOUS
<1>1. IsFiniteSet(Busy)
  <2>1. Busy \in SUBSET Threads
    BY DEF Busy
  <2> QED
    BY <2>1, FS_Subset, EventLogAssumption
<1>2. Cardinality(Busy) \in Nat
  BY <1>1, FS_CardinalityType
<1>3. recorded \in Seq(Kinds) /\ log \in Seq(Entries) /\ Len(recorded) \in Nat
  BY DEF LogInv
<1>4. Len(recorded) <= MaxCalls
  BY <1>2, <1>3, EventLogAssumption DEF TypeInv, CallsCounted
<1>5. \A i \in 1..Len(log) : log[i] \in [kind : Kinds, count : 1..MaxCalls]
  <2> TAKE i \in 1..Len(log)
  <2>1. log[i] \in Entries /\ i \in DOMAIN log
    BY <1>3
  <2>2. log[i].count \in 1..MaxCalls
    BY <1>3, <1>4, <2>1, EventLogAssumption DEF LogInv, Entries
  <2> QED
    BY <2>1, <2>2 DEF Entries
<1>6. log \in Seq([kind : Kinds, count : 1..MaxCalls])
  <2>1. SubSeq(log, 1, Len(log)) \in Seq([kind : Kinds, count : 1..MaxCalls])
    BY <1>3, <1>5, SubSeqProperties
  <2> QED
    BY <1>3, <2>1, SubSeqFull
<1>7. /\ cache \in Seq(Kinds)
      /\ pc \in [Threads -> {"idle", "patch", "create", "store", "move", "check", "open", "iterate",
                             "evict", "log"}]
      /\ kind \in [Threads -> Kinds \cup {NoKind}] /\ stale \subseteq Iterating
  BY DEF CacheInv, CacheTypeOK
<1> QED
  BY <1>3, <1>6, <1>7 DEF TypeInv, KeysDiffer, ThreadsOK, CallsCounted, TypeOK

(* Keys of the cache stay distinct under every interleaving of the calls   *)
(* on it, even of a thread that evicts a key too many, and no count passes *)
(* the number of calls (CacheDict, DebugStateStore.record_event).          *)
THEOREM EventsTyped == Spec => []TypeOK
BY InitInv, NextInv, LogInit, LogNext, TypeInit, TypeNext, InvTypeOK, PTL DEF Spec
=============================================================================
