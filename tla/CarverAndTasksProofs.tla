------------------------ MODULE CarverAndTasksProofs ------------------------
(***************************************************************************)
(* Two components that share no state.                                     *)
(*                                                                         *)
(* Carver: the deep scan reports no offset twice that its collector has    *)
(* not forgotten, misses nothing it could read, and loses nothing but what *)
(* was queued when it was cancelled; proved for any device, any headers on *)
(* it, any chunk size and any number of workers.                           *)
(*                                                                         *)
(* BackgroundTasks: what Cancel buttons reach, proved for any number of    *)
(* tasks, kinds, callers and disks.                                        *)
(***************************************************************************)
EXTENDS Carver, BackgroundTasks, TLAPS, FiniteSetTheorems, SequenceTheorems, WellFoundedInduction

(* The offsets are on one grid, and the noted one is not ahead of the IO      *)
(* goroutine.                                                                 *)
Progress ==
  /\ start <= pos /\ (pos - start) % Chunk = 0 /\ scanned = Least(pos, End) - start
  /\ saved <= Least(pos, End) /\ (io = "send" => pos < End)

(* Who has left, has left nothing behind unless the scan was cancelled.       *)
Closing ==
  /\ \A w \in Workers : worker[w].st # "busy" => worker[w].hits = <<>>
  /\ ~cancelled =>
       /\ io = "exited" => pos >= End
       /\ \A w \in Workers : worker[w] = Gone => io = "exited" /\ chunkCh = <<>>
       /\ collector = "done" => matchCh = <<>> /\ Exited
  /\ phase = "over" => collector = "done"

(* A header whose chunk was read is on its way or reported.                   *)
Good(h) == FileSize[h] > 0 /\ Alone(h)
Held(h) ==
  \/ \E off \in ToSet(chunkCh) : Within(h, off)
  \/ \E w \in Workers : h \in ToSet(worker[w].hits)
  \/ h \in ToSet(matchCh) \/ h \in ToSet(emitted)
  \/ cancelled /\ h \in dropped
InHand == \A h \in Headers :
  Good(h) /\ start <= h.at /\ ChunkOf(h) < pos /\ ChunkOf(h) \notin unread => Held(h)

(* So is a header behind the start of a scan that was continued.              *)
Earlier == \A h \in Headers :
  Good(h) /\ h.at < start /\ (\A off \in unread : ~ Within(h, off)) => h \in before \cup dropped

(* The collector knows the offsets of what it reported, as far as it has not  *)
(* forgotten them, and no others.                                             *)
Collected == \A o \in seen :
  \E g \in Headers : g.at = o /\ (Sized(g) > 0 => g \in ToSet(emitted))
Known == \A h \in ToSet(emitted) : h.at <= top /\ (h.at \in seen \/ Forgettable(h.at))

IInv == TypeOK /\ Progress /\ Closing /\ InHand /\ Earlier /\ Collected /\ Known /\ OffsetOnce

(* What the assumptions say of each constant.                                 *)
LEMMA Consts ==
  /\ End \in Nat /\ End > 0 /\ Chunk \in Nat /\ Chunk > 0 /\ ChunkCap \in Nat /\ MatchCap \in Nat
  /\ ChunkCap > 0 /\ MatchCap > 0 /\ MaxScans > 0
  /\ SoftCap \in Nat /\ MaxFile \in Nat /\ MaxFile > 0 /\ Overlap \in Nat /\ KeepLag \in Nat
  /\ MaxScans \in Nat /\ MaxFaults \in Nat
  /\ IsFiniteSet(Headers) /\ FileSize \in [Headers -> Nat]
  /\ \A h \in Headers : /\ h.at \in Nat /\ h.len \in Nat /\ h.len > 0 /\ h.at + h.len <= End
                        /\ h.len - 1 <= Overlap
BY SizesAssumption, HeadersAssumption, OverlapAssumption

-----------------------------------------------------------------------------
(* A set of naturals that is not empty has a least member.                    *)
LEMMA LeastExists ==
  ASSUME NEW T, T \subseteq Nat, T # {}
  PROVE  \E n \in T : \A m \in T : n <= m
<1>1. PICK n \in T : \A m \in T : ~ (<<m, n>> \in OpToRel(<, Nat))
  BY NatLessThanWellFounded, WFMin, Zenon
<1>2. \A m \in T : m < n => <<m, n>> \in OpToRel(<, Nat)
  BY Zenon DEF OpToRel
<1>3. \A m \in T : ~ (m < n)
  BY <1>1, <1>2
<1> QED BY <1>3

(* What the two channel operations do to the set of their elements.           *)
LEMMA SendSet ==
  ASSUME NEW S, NEW s \in Seq(S), NEW x \in S
  PROVE  /\ Append(s, x) \in Seq(S) /\ Len(Append(s, x)) = Len(s) + 1
         /\ ToSet(Append(s, x)) = ToSet(s) \cup {x}
<1>1. /\ DOMAIN s = 1 .. Len(s) /\ DOMAIN Append(s, x) = 1 .. Len(s) + 1
      /\ Len(s) \in Nat /\ Append(s, x) \in Seq(S) /\ Len(Append(s, x)) = Len(s) + 1
      /\ \A i \in 1 .. Len(s) : Append(s, x)[i] = s[i]
      /\ Append(s, x)[Len(s) + 1] = x
  BY AppendProperties
<1>2. \A i \in 1 .. Len(s) + 1 : i \in 1 .. Len(s) \/ i = Len(s) + 1
  BY <1>1
<1>3. 1 .. Len(s) \subseteq 1 .. Len(s) + 1 /\ Len(s) + 1 \in 1 .. Len(s) + 1
  BY <1>1
<1> QED
  BY <1>1, <1>2, <1>3 DEF ToSet

LEMMA ReceiveSet ==
  ASSUME NEW S, NEW s \in Seq(S), s # <<>>
  PROVE  /\ Tail(s) \in Seq(S) /\ Len(Tail(s)) = Len(s) - 1 /\ Head(s) \in S
         /\ ToSet(s) = {Head(s)} \cup ToSet(Tail(s))
<1>1. /\ Tail(s) \in Seq(S) /\ Len(Tail(s)) = Len(s) - 1 /\ Head(s) = s[1] /\ Head(s) \in S
      /\ DOMAIN s = 1 .. Len(s) /\ DOMAIN Tail(s) = 1 .. Len(s) - 1 /\ Len(s) \in Nat /\ Len(s) > 0
      /\ \A i \in 1 .. Len(s) - 1 : Tail(s)[i] = s[i + 1]
  BY HeadTailProperties, EmptySeq, LenProperties
<1>2. ToSet(s) \subseteq {Head(s)} \cup ToSet(Tail(s))
  <2>1. SUFFICES ASSUME NEW i \in 1 .. Len(s), i # 1 PROVE s[i] \in ToSet(Tail(s))
    BY <1>1 DEF ToSet
  <2>2. i - 1 \in 1 .. Len(s) - 1 /\ s[i] = Tail(s)[i - 1]
    BY <1>1, <2>1
  <2> QED BY <2>2, <1>1, Zenon DEF ToSet
<1>3. {Head(s)} \cup ToSet(Tail(s)) \subseteq ToSet(s)
  <2>1. \A i \in 1 .. Len(s) - 1 : i + 1 \in 1 .. Len(s)
    BY <1>1
  <2>2. 1 \in 1 .. Len(s)
    BY <1>1
  <2> QED BY <2>1, <2>2, <1>1 DEF ToSet
<1> QED BY <1>1, <1>2, <1>3

(* The elements of a channel.                                                 *)
LEMMA SetOf ==
  ASSUME NEW S, NEW s \in Seq(S)
  PROVE  ToSet(s) \subseteq S /\ (s = <<>> => ToSet(s) = {})
BY DEF ToSet

-----------------------------------------------------------------------------
(* Finitely many headers can be put in the order in which they end.           *)
(* So the CHOOSE in Matches is met.  By induction on their number: the header *)
(* that ends last is put behind the others.                                   *)
EndsAt(h) == h.at + h.len
Orderable(S) == \E s \in SetToSeqs(S) : Ordered(s)
LEMMA OrderExists == ASSUME NEW S \in SUBSET Headers PROVE Orderable(S)
<1> USE Consts
<1> DEFINE Bad == {U \in SUBSET Headers : ~ Orderable(U)}
           T == {Cardinality(U) : U \in Bad}
<1> SUFFICES ASSUME Bad # {} PROVE FALSE
  OBVIOUS
<1>1. \A U \in SUBSET Headers : IsFiniteSet(U) /\ Cardinality(U) \in Nat
  BY FS_Subset, FS_CardinalityType
<1>2. PICK U \in Bad : \A V \in Bad : Cardinality(U) <= Cardinality(V)
  <2>1. T \subseteq Nat /\ T # {}
    BY <1>1
  <2> HIDE DEF T
  <2>2. PICK n \in T : \A m \in T : n <= m
    BY <2>1, LeastExists, Zenon
  <2> QED BY <2>2 DEF T
<1> DEFINE N == Cardinality(U)
<1>3. N \in Nat /\ IsFiniteSet(U) /\ U \subseteq Headers
  BY <1>1
<1>4. U # {}
  <2>1. SUFFICES ASSUME U = {} PROVE Orderable({})
    OBVIOUS
  <2>2. Cardinality({}) = 0
    BY FS_EmptySet
  <2>3. <<>> \in SetToSeqs({})
    BY <2>2 DEF SetToSeqs
  <2> QED BY <2>3 DEF Orderable, Ordered
<1>5. PICK m \in U : \A h \in U : EndsAt(h) <= EndsAt(m)
  <2> DEFINE D == {End - EndsAt(h) : h \in U}
  <2>1. D \subseteq Nat /\ D # {}
    BY <1>4, <1>3 DEF EndsAt
  <2> HIDE DEF D
  <2>2. PICK d \in D : \A e \in D : d <= e
    BY <2>1, LeastExists, Zenon
  <2>3. PICK m \in U : d = End - EndsAt(m)
    BY DEF D
  <2>4. ASSUME NEW h \in U PROVE EndsAt(h) <= EndsAt(m)
    <3>1. End - EndsAt(m) <= End - EndsAt(h)
      BY <2>2, <2>3 DEF D
    <3> QED BY <3>1, <1>3 DEF EndsAt
  <2> QED BY <2>4
<1> DEFINE V == U \ {m}
<1>6. Cardinality(V) = N - 1 /\ V \in SUBSET Headers
  BY <1>3, FS_RemoveElement, Zenon
<1>7. PICK s \in SetToSeqs(V) : Ordered(s)
  <2>1. ~ (N <= Cardinality(V))
    BY <1>6, <1>3
  <2>2. V \notin Bad
    BY <2>1, <1>2
  <2> QED BY <2>2, <1>6 DEF Orderable
<1> HIDE DEF V, N
<1>8. /\ N \in Nat /\ N - 1 \in Nat /\ s \in [1 .. N - 1 -> V]
      /\ \A i, j \in 1 .. N - 1 : i # j => s[i] # s[j]
  <2>1. Cardinality(V) \in Nat
    BY <1>1, <1>6
  <2> QED BY <2>1, <1>3, <1>6 DEF SetToSeqs
<1> DEFINE t == [i \in 1 .. N |-> IF i = N THEN m ELSE s[i]]
<1>9. /\ t \in [1 .. N -> U] /\ DOMAIN t = 1 .. N /\ t[N] = m
      /\ \A i \in 1 .. N : i # N => i \in 1 .. N - 1 /\ t[i] = s[i] /\ t[i] \in V
  <2>1. N # 0
    BY <1>8
  <2> QED BY <1>8, <2>1 DEF V
<1> HIDE DEF t
<1>10. t \in SetToSeqs(U)
  <2>1. \A i, j \in 1 .. N : i # j => t[i] # t[j]
    BY <1>8, <1>9 DEF V
  <2> QED BY <2>1, <1>9 DEF SetToSeqs, N
<1>11. Ordered(t)
  <2>1. SUFFICES ASSUME NEW i \in 1 .. N, NEW j \in 1 .. N, i < j
                 PROVE  EndsAt(t[i]) <= EndsAt(t[j])
    BY <1>9 DEF Ordered, EndsAt
  <2>2. CASE j = N
    BY <2>2, <1>5, <1>9
  <2>3. CASE j # N
    <3>1. i # N
      BY <2>1, <1>8
    <3>2. i \in DOMAIN s /\ j \in DOMAIN s /\ t[i] = s[i] /\ t[j] = s[j]
      BY <2>3, <3>1, <1>8, <1>9
    <3> QED BY <3>2, <2>1, <1>7 DEF Ordered, EndsAt
  <2> QED BY <2>2, <2>3
<1> QED BY <1>10, <1>11, <1>2 DEF Orderable

(* A worker's search finds the headers of its chunk and nothing else.         *)
LEMMA SearchFinds ==
  ASSUME NEW off \in 0 .. End
  PROVE  Search(off) \in Seq(Headers) /\ ToSet(Search(off)) = {h \in Headers : Within(h, off)}
<1> DEFINE S == {h \in Headers : Within(h, off)}
<1>1. Search(off) \in SetToSeqs(S)
  <2>1. Search(off) = CHOOSE s \in SetToSeqs(S) : Ordered(s)
    BY DEF Search, Matches
  <2>2. \E s \in SetToSeqs(S) : Ordered(s)
    BY OrderExists DEF Orderable
  <2> QED BY <2>1, <2>2
<1>2. S \subseteq Headers /\ IsFiniteSet(S)
  BY FS_Subset, Consts
<1> HIDE DEF S
<1> DEFINE s == Search(off)
           D == 1 .. Cardinality(S)
<1>3. s \in [D -> S] /\ \A i, j \in D : i # j => s[i] # s[j]
  BY <1>1 DEF SetToSeqs
<1>4. Cardinality(S) \in Nat
  BY <1>2, FS_CardinalityType
<1>5. ToSet(s) = S
  <2>1. s \in Injection(D, S)
    BY <1>3 DEF Injection, IsInjective
  <2>2. Cardinality(D) = Cardinality(S)
    BY <1>4, FS_Interval
  <2>3. s \in Surjection(D, S)
    BY <1>2, <2>1, <2>2, FS_Injection, Zenon
  <2> QED BY <1>3, <2>3 DEF ToSet, Surjection
<1> HIDE DEF s
<1>6. s \in Seq(Headers)
  BY <1>3, <1>2, <1>4
<1> QED BY <1>5, <1>6 DEF S, s

-----------------------------------------------------------------------------
(* Chunks and headers.                                                        *)
(* The chunk an offset lies in begins on the grid of the scan.                *)
LEMMA GridOf ==
  ASSUME NEW a \in Nat, NEW s \in Nat, s <= a
  PROVE  LET c == a - ((a - s) % Chunk) IN
         /\ c \in Nat /\ s <= c /\ c <= a /\ a < c + Chunk /\ (c - s) % Chunk = 0
<1> USE Consts
<1> DEFINE d == a - s
           k == d \div Chunk
           r == d % Chunk
<1>1. d \in Nat /\ k \in Nat /\ r \in 0 .. Chunk - 1 /\ d = (k * Chunk) + r
  OBVIOUS
<1>2. k * Chunk \in Nat /\ (k * Chunk) % Chunk = 0
  BY <1>1
<1>3. a - r = s + (k * Chunk) /\ (a - r) - s = k * Chunk
  BY <1>1, <1>2
<1> HIDE DEF d, k, r
<1>4. a - r \in Nat /\ s <= a - r /\ a - r <= a /\ a < (a - r) + Chunk
  BY <1>1, <1>2, <1>3
<1>5. ((a - r) - s) % Chunk = 0
  BY <1>2, <1>3
<1> QED BY <1>4, <1>5 DEF r, d

(* Two offsets of one grid that differ are a chunk apart.                     *)
LEMMA GridApart ==
  ASSUME NEW c \in Nat, NEW p \in Nat, NEW s \in Nat, s <= c, s <= p,
         (c - s) % Chunk = 0, (p - s) % Chunk = 0, c < p + Chunk
  PROVE  c < p \/ c = p
<1> USE Consts
<1> DEFINE x == c - s
           y == p - s
           i == x \div Chunk
           j == y \div Chunk
<1>1. x \in Nat /\ y \in Nat /\ i \in Nat /\ j \in Nat
  OBVIOUS
<1>2. x = (i * Chunk) + (x % Chunk) /\ y = (j * Chunk) + (y % Chunk)
  BY <1>1
<1>3. x = i * Chunk /\ y = j * Chunk /\ x < y + Chunk /\ c = s + x /\ p = s + y
  BY <1>2, <1>1
<1> HIDE DEF x, y, i, j
<1>4. i < j + 1
  <2>1. SUFFICES ASSUME i >= j + 1 PROVE FALSE
    BY <1>1
  <2>2. i * Chunk >= (j + 1) * Chunk /\ (j + 1) * Chunk = (j * Chunk) + Chunk
    BY <2>1, <1>1
  <2> QED BY <2>2, <1>3, <1>1
<1>5. CASE i = j
  BY <1>5, <1>3
<1>6. CASE i < j
  <2>1. i * Chunk < j * Chunk
    BY <1>6, <1>1
  <2> QED BY <2>1, <1>3, <1>1
<1> QED BY <1>4, <1>5, <1>6, <1>1

(* A header lies within the chunk it begins in.                               *)
LEMMA WithinItsChunk ==
  ASSUME NEW h \in Headers, start \in Nat, start <= h.at
  PROVE  /\ ChunkOf(h) \in Nat /\ start <= ChunkOf(h) /\ ChunkOf(h) <= h.at
         /\ (ChunkOf(h) - start) % Chunk = 0 /\ ChunkOf(h) < End /\ Within(h, ChunkOf(h))
<1> USE Consts
<1> DEFINE c == ChunkOf(h)
<1>1. /\ c \in Nat /\ start <= c /\ c <= h.at /\ h.at < c + Chunk /\ (c - start) % Chunk = 0
  BY GridOf DEF ChunkOf
<1> HIDE DEF c
<1>2. Within(h, c)
  BY <1>1 DEF Within, ReadSize, Least
<1> QED BY <1>1, <1>2 DEF c

(* A step of Chunk reaches one chunk more.                                    *)
LEMMA GridStep ==
  ASSUME NEW p \in Nat, NEW s \in Nat, s <= p, (p - s) % Chunk = 0
  PROVE  ((p + Chunk) - s) % Chunk = 0
<1> USE Consts
<1> DEFINE y == p - s
           j == y \div Chunk
<1>1. y \in Nat /\ j \in Nat
  OBVIOUS
<1>2. y = (j * Chunk) + (y % Chunk)
  BY <1>1
<1>3. y = j * Chunk
  BY <1>2, <1>1
<1>4. (p + Chunk) - s = y + Chunk /\ y + Chunk = (j + 1) * Chunk
  BY <1>1, <1>3
<1> HIDE DEF y, j
<1>5. ((j + 1) * Chunk) % Chunk = 0
  BY <1>1
<1> QED BY <1>4, <1>5

-----------------------------------------------------------------------------
(* The IO goroutine has met a chunk, read or not, and goes on to the next.    *)
LEMMA Began ==
  ASSUME TypeOK, Progress, io \in {"loop", "send"}, pos < End, Advance, UNCHANGED fixed
  PROVE  /\ pos \in 0 .. End /\ pos' \in 0 .. (End + Chunk) /\ start' <= pos'
         /\ (pos' - start') % Chunk = 0 /\ scanned' = Least(pos', End) - start'
         /\ scanned' \in 0 .. (End - start') /\ saved' <= Least(pos', End) /\ io' = "loop"
<1> USE Consts
<1>1. pos \in Nat /\ start \in Nat /\ scanned \in Nat /\ saved \in Nat /\ start <= pos
  BY DEF TypeOK, Progress
<1>2. (pos' - start) % Chunk = 0
  BY GridStep, <1>1 DEF Advance, Progress
<1> QED BY <1>1, <1>2 DEF TypeOK, Progress, Advance, fixed, Least

(* The type invariant in three parts.                                         *)
Numbers ==
  /\ start \in 0..End /\ saved \in 0..End /\ pos \in 0..(End + Chunk) /\ top \in 0..End
  /\ scanned \in 0..(End - start) /\ scans \in 1..MaxScans /\ faults \in 0..MaxFaults
Queues ==
  /\ chunkCh \in Seq(0..End) /\ Len(chunkCh) <= ChunkCap
  /\ matchCh \in Seq(Headers) /\ Len(matchCh) <= MatchCap
  /\ worker \in [Workers -> [st : {"idle", "busy", "exited"}, hits : Seq(Headers)]]
  /\ emitted \in Seq(Headers) /\ seen \subseteq 0..End
  /\ before \in SUBSET Headers /\ dropped \in SUBSET Headers /\ unread \subseteq 0..End
Stages ==
  /\ io \in {"loop", "send", "exited"} /\ collector \in {"running", "done"}
  /\ cancelled \in BOOLEAN /\ phase \in {"running", "over"}

(* The type invariant in the parts that the steps disturb separately.         *)
LEMMA TypeParts ==
  (TypeOK => Numbers /\ Queues /\ Stages) /\ (Numbers' /\ Queues' /\ Stages' => TypeOK')
  /\ (Numbers /\ Queues /\ Stages => TypeOK)
<1>1. TypeOK => Numbers
  BY DEF TypeOK, Numbers
<1>2. TypeOK => Queues
  BY DEF TypeOK, Queues
<1>3. TypeOK => Stages
  BY DEF TypeOK, Stages
<1>4. Numbers' /\ Queues' /\ Stages' => TypeOK'
  BY Zenon DEF TypeOK, Numbers, Queues, Stages
<1>5. Numbers /\ Queues /\ Stages => TypeOK
  BY Zenon DEF TypeOK, Numbers, Queues, Stages
<1> QED BY <1>1, <1>2, <1>3, <1>4, <1>5

LEMMA TypeInit == Init => TypeOK /\ Progress
<1> USE Consts
<1>1. Init => Numbers
  BY DEF Init, Numbers
<1>2. Init => Queues
  <2>1. Idle \in [st : {"idle", "busy", "exited"}, hits : Seq(Headers)]
    BY DEF Idle
  <2> QED BY <2>1 DEF Init, Queues
<1>3. Init => Stages
  BY DEF Init, Stages
<1>4. Init => Progress
  BY DEF Init, Progress, Least
<1> QED BY <1>1, <1>2, <1>3, <1>4, TypeParts

LEMMA NumbersNext == TypeOK /\ Progress /\ [Next]_vars => Numbers' /\ Progress'
<1> SUFFICES ASSUME TypeOK, Progress, [Next]_vars PROVE Numbers' /\ Progress'
  OBVIOUS
<1> USE Consts
<1>a. Numbers /\ chunkCh \in Seq(0 .. End) /\ matchCh \in Seq(Headers)
  BY TypeParts DEF Queues
<1>1. CASE IORead
  BY <1>1, <1>a DEF IORead, fixed, Numbers, Progress
<1>2. CASE IOFails \/ IOSend
  <2>1. /\ pos \in 0 .. End /\ pos' \in 0 .. (End + Chunk) /\ start' <= pos'
        /\ (pos' - start') % Chunk = 0 /\ scanned' = Least(pos', End) - start'
        /\ scanned' \in 0 .. (End - start') /\ saved' <= Least(pos', End) /\ io' = "loop"
    BY <1>2, Began DEF IOFails, IOSend, Progress
  <2>2. UNCHANGED <<start, saved, scans, top>>
    BY <1>2 DEF IOFails, IOSend, fixed
  <2>3. faults' \in 0 .. MaxFaults
    BY <1>2, <1>a DEF IOFails, IOSend, Numbers
  <2> QED BY <2>1, <2>2, <2>3, <1>a DEF Numbers, Progress
<1>3. CASE UNCHANGED <<start, pos, scanned, saved, scans, faults, top>> /\ (io' = io \/ io' = "exited")
  BY <1>3, <1>a DEF Numbers, Progress
<1>4. CASE IOExit \/ CollectorExits \/ Return \/ Cancel \/ UNCHANGED vars
  <2>1. /\ UNCHANGED <<start, pos, scanned, saved, scans, faults, top>>
        /\ (io' = io \/ io' = "exited")
    BY <1>4 DEF IOExit, CollectorExits, Return, Cancel, vars, fixed, history
  <2> QED BY <2>1, <1>3
<1>5. ASSUME NEW w \in Workers, Work(w) PROVE Numbers' /\ Progress'
  <2>1. UNCHANGED <<start, pos, scanned, saved, scans, faults, top>> /\ io' = io
    BY <1>5 DEF Work, WorkerTakes, WorkerSends, WorkerDone, WorkerExits, fixed
  <2> QED BY <2>1, <1>3
<1>6. CASE Collect
  <2>1. Head(matchCh) \in Headers
    BY <1>6, <1>a, ReceiveSet DEF Collect
  <2>2. Head(matchCh).at \in 0 .. End
    BY <2>1
  <2>3. top' \in 0 .. End
    BY <1>6, <2>2, <1>a DEF Collect, Numbers
  <2>4. UNCHANGED <<start, pos, scanned, saved, scans, faults, io>>
    BY <1>6 DEF Collect, fixed
  <2> QED BY <2>3, <2>4, <1>a DEF Numbers, Progress
<1>7. CASE SaveOffset
  <2>1. saved' = start + scanned /\ UNCHANGED <<start, pos, scanned, scans, faults, top, io>>
    BY <1>7 DEF SaveOffset, history
  <2> QED BY <2>1, <1>a DEF Numbers, Progress, Least
<1>8. CASE Resume
  <2>1. scans' = scans + 1 /\ scans < MaxScans
    BY <1>8 DEF Resume
  <2>2. /\ start' = saved /\ pos' = saved /\ scanned' = 0 /\ saved' = saved /\ saved < End
        /\ faults' = faults /\ top' = 0 /\ io' = "loop"
    BY <1>8 DEF Resume, Fresh
  <2> QED BY <2>1, <2>2, <1>a DEF Numbers, Progress, Least
<1> QED
  BY <1>1, <1>2, <1>4, <1>5, <1>6, <1>7, <1>8 DEF Next, IO, Collector

LEMMA QueuesNext == TypeOK /\ Progress /\ [Next]_vars => Queues'
<1> SUFFICES ASSUME TypeOK, Progress, [Next]_vars PROVE Queues'
  OBVIOUS
<1> USE Consts
<1>a. Numbers /\ Queues
  BY TypeParts
<1> DEFINE Rec == [st : {"idle", "busy", "exited"}, hits : Seq(Headers)]
<1>b. Idle \in Rec /\ Gone \in Rec
  BY DEF Idle, Gone
<1>c. /\ chunkCh \in Seq(0 .. End) /\ matchCh \in Seq(Headers) /\ worker \in [Workers -> Rec]
      /\ Len(chunkCh) <= ChunkCap /\ Len(matchCh) <= MatchCap
  BY <1>a DEF Queues
<1>1. CASE IOFails \/ IOSend
  <2>1. pos \in 0 .. End
    BY <1>1, <1>a DEF IOFails, IOSend, Progress, Numbers
  <2>2. chunkCh' \in Seq(0 .. End) /\ Len(chunkCh') <= ChunkCap
    <3>1. Append(chunkCh, pos) \in Seq(0 .. End) /\ Len(Append(chunkCh, pos)) = Len(chunkCh) + 1
      BY <2>1, <1>c, SendSet, Zenon
    <3>2. \/ chunkCh' = chunkCh
          \/ Len(chunkCh) < ChunkCap /\ chunkCh' = Append(chunkCh, pos)
      BY <1>1 DEF IOFails, IOSend
    <3>3. Len(chunkCh) \in Nat /\ chunkCh \in Seq(0 .. End) /\ Len(chunkCh) <= ChunkCap
      BY <1>c
    <3>4. Len(chunkCh) < ChunkCap => Len(chunkCh) + 1 <= ChunkCap
      BY <3>3
    <3> QED BY <3>1, <3>2, <3>3, <3>4, Zenon
  <2>3. unread' \subseteq 0 .. End
    BY <1>1, <2>1, <1>a DEF IOFails, IOSend, Queues
  <2>4. UNCHANGED <<matchCh, worker, emitted, seen, before, dropped>>
    BY <1>1 DEF IOFails, IOSend, fixed
  <2> QED BY <2>2, <2>3, <2>4, <1>a DEF Queues
<1>2. CASE UNCHANGED <<chunkCh, matchCh, worker, emitted, seen, before, dropped, unread>>
  BY <1>2, <1>a DEF Queues
<1>3. CASE IORead \/ IOExit \/ CollectorExits \/ Return \/ Cancel \/ SaveOffset \/ UNCHANGED vars
  <2>1. UNCHANGED <<chunkCh, matchCh, worker, emitted, seen, before, dropped, unread>>
    BY <1>3 DEF IORead, IOExit, CollectorExits, Return, Cancel, SaveOffset, vars, fixed, history
  <2> QED BY <2>1, <1>2
<1>4. ASSUME NEW w \in Workers, Work(w) PROVE Queues'
  <2>a. UNCHANGED <<emitted, seen, before, unread>>
    BY <1>4 DEF Work, WorkerTakes, WorkerSends, WorkerDone, WorkerExits, fixed
  <2>1. CASE WorkerTakes(w)
    <3>1. /\ Head(chunkCh) \in 0 .. End /\ Tail(chunkCh) \in Seq(0 .. End)
          /\ Len(Tail(chunkCh)) <= ChunkCap
      BY <2>1, <1>c, ReceiveSet DEF WorkerTakes
    <3>2. [st |-> "busy", hits |-> Search(Head(chunkCh))] \in Rec
      BY <3>1, SearchFinds
    <3>3. worker' \in [Workers -> Rec]
      BY <2>1, <3>2, <1>c DEF WorkerTakes
    <3> QED BY <2>1, <2>a, <3>1, <3>3, <1>a DEF WorkerTakes, Queues
  <2>2. CASE WorkerSends(w)
    <3>1. worker[w].hits \in Seq(Headers)
      BY <1>c
    <3>2. Head(worker[w].hits) \in Headers /\ Tail(worker[w].hits) \in Seq(Headers)
      BY <2>2, <3>1, ReceiveSet DEF WorkerSends
    <3>3. worker' \in [Workers -> Rec]
      BY <2>2, <3>2, <1>c DEF WorkerSends
    <3>4. matchCh' \in Seq(Headers) /\ Len(matchCh') <= MatchCap
      BY <2>2, <3>2, <1>c, SendSet DEF WorkerSends
    <3> QED BY <2>2, <2>a, <3>3, <3>4, <1>a DEF WorkerSends, Queues
  <2>3. CASE WorkerDone(w)
    <3>1. worker' \in [Workers -> Rec]
      BY <2>3, <1>b, <1>c DEF WorkerDone
    <3> QED BY <2>3, <2>a, <3>1, <1>a DEF WorkerDone, Queues
  <2>4. CASE WorkerExits(w)
    <3>1. worker' \in [Workers -> Rec]
      BY <2>4, <1>b, <1>c DEF WorkerExits
    <3>2. ToSet(worker[w].hits) \subseteq Headers
      BY <1>c, SetOf
    <3>3. chunkCh # <<>> => /\ Head(chunkCh) \in 0 .. End /\ Tail(chunkCh) \in Seq(0 .. End)
                            /\ Len(Tail(chunkCh)) <= ChunkCap
                            /\ ToSet(Search(Head(chunkCh))) \subseteq Headers
      BY <1>c, ReceiveSet, SearchFinds
    <3>4. chunkCh' \in Seq(0 .. End) /\ Len(chunkCh') <= ChunkCap
      BY <2>4, <1>c, <3>3 DEF WorkerExits
    <3>5. dropped' \in SUBSET Headers
      BY <2>4, <1>a, <3>2, <3>3 DEF WorkerExits, Queues
    <3>6. matchCh' = matchCh
      BY <2>4 DEF WorkerExits
    <3> QED BY <2>a, <3>1, <3>4, <3>5, <3>6, <1>a DEF Queues
  <2> QED BY <1>4, <2>1, <2>2, <2>3, <2>4 DEF Work
<1>5. CASE Collect
  <2>1. Head(matchCh) \in Headers /\ Tail(matchCh) \in Seq(Headers) /\ Len(Tail(matchCh)) <= MatchCap
    BY <1>5, <1>c, ReceiveSet DEF Collect
  <2>2. Head(matchCh).at \in 0 .. End
    BY <2>1
  <2>3. seen' \subseteq 0 .. End
    BY <1>5, <2>2, <1>a DEF Collect, Queues, Pruned
  <2>4. emitted' \in Seq(Headers)
    <3>1. emitted \in Seq(Headers)
      BY <1>a DEF Queues
    <3>2. Append(emitted, Head(matchCh)) \in Seq(Headers)
      BY <2>1, <3>1, SendSet, Zenon
    <3>3. emitted' = emitted \/ emitted' = Append(emitted, Head(matchCh))
      BY <1>5 DEF Collect
    <3> QED BY <3>1, <3>2, <3>3
  <2>5. matchCh' = Tail(matchCh) /\ UNCHANGED <<chunkCh, worker, before, dropped, unread>>
    BY <1>5 DEF Collect, fixed
  <2> QED BY <2>1, <2>3, <2>4, <2>5, <1>a DEF Queues
<1>6. CASE Resume
  <2>1. worker' \in [Workers -> Rec]
    BY <1>6, <1>b DEF Resume, Fresh
  <2>2. ToSet(emitted) \subseteq Headers /\ ToSet(matchCh) \subseteq Headers
    BY <1>a, SetOf DEF Queues
  <2>3. \A off \in ToSet(chunkCh) : ToSet(Search(off)) \subseteq Headers
    BY <1>c, SetOf, SearchFinds
  <2>4. UNION {ToSet(Search(off)) : off \in ToSet(chunkCh)} \subseteq Headers
    BY <2>3
  <2>5. before' \in SUBSET Headers /\ dropped' \in SUBSET Headers
    BY <1>6, <1>a, <2>2, <2>4 DEF Resume, Queues
  <2>6. /\ chunkCh' = <<>> /\ matchCh' = <<>> /\ seen' = {} /\ emitted' = <<>>
        /\ unread' = unread
    BY <1>6 DEF Resume, Fresh
  <2> QED BY <2>1, <2>5, <2>6, <1>a DEF Queues
<1> QED
  BY <1>1, <1>3, <1>4, <1>5, <1>6 DEF Next, IO, Collector

LEMMA StagesNext == TypeOK /\ [Next]_vars => Stages'
<1>1. TypeOK => Stages
  BY TypeParts
<1> QED
  BY <1>1 DEF Stages, Next, IO, IORead, IOFails, IOSend, IOExit, Advance, Work, WorkerTakes,
     WorkerSends, WorkerDone, WorkerExits, Collector, Collect, CollectorExits, Return, Cancel,
     SaveOffset, Resume, Fresh, vars, fixed, history

LEMMA TypeNext == TypeOK /\ Progress /\ [Next]_vars => TypeOK' /\ Progress'
BY NumbersNext, QueuesNext, StagesNext, TypeParts

(* The type invariant of the carver's pipeline: the channels stay within     *)
(* their capacities and the offsets on the device.                           *)
THEOREM TypeCorrect == Spec => []TypeOK
BY TypeInit, TypeNext, PTL DEF Spec

-----------------------------------------------------------------------------
LEMMA ClosingInit == Init => Closing
<1> SUFFICES ASSUME Init PROVE Closing
  OBVIOUS
<1>1. \A w \in Workers : worker[w] = Idle
  BY DEF Init
<1> QED BY <1>1 DEF Init, Closing, Idle, Gone

(* A stage leaves only when the one before it has left and its channel is     *)
(* empty, or when the scan was cancelled.                                     *)
LEMMA ClosingNext == TypeOK /\ Progress /\ Closing /\ [Next]_vars => Closing'
<1> SUFFICES ASSUME TypeOK, Progress, Closing, [Next]_vars PROVE Closing'
  OBVIOUS
<1>a. /\ chunkCh \in Seq(0 .. End) /\ matchCh \in Seq(Headers)
      /\ worker \in [Workers -> [st : {"idle", "busy", "exited"}, hits : Seq(Headers)]]
  BY TypeParts DEF Queues
<1>b. PICK v \in Workers : TRUE
  BY WorkersAssumption
<1>c. Idle # Gone /\ Idle.hits = <<>> /\ Gone.hits = <<>>
  BY DEF Idle, Gone
<1>1. CASE IORead \/ IOFails \/ IOSend
  <2>1. /\ io # "exited" /\ io' # "exited"
        /\ UNCHANGED <<matchCh, worker, collector, cancelled, phase>>
    BY <1>1 DEF IORead, IOFails, IOSend, Advance, fixed
  <2>2. ~cancelled => (\A w \in Workers : worker[w] # Gone) /\ collector # "done"
    BY <2>1, <1>b DEF Closing, Exited
  <2> QED BY <2>1, <2>2 DEF Closing, Exited
<1>2. CASE IOExit
  <2>1. /\ io' = "exited" /\ (~cancelled => pos >= End)
        /\ UNCHANGED <<pos, chunkCh, matchCh, worker, collector, cancelled, phase>>
    BY <1>2 DEF IOExit, fixed
  <2> QED BY <2>1 DEF Closing, Exited
<1>3. ASSUME NEW w \in Workers, Work(w) PROVE Closing'
  <2>a. UNCHANGED <<io, pos, collector, cancelled, phase>>
    BY <1>3 DEF Work, WorkerTakes, WorkerSends, WorkerDone, WorkerExits, fixed
  <2>1. CASE WorkerTakes(w)
    <3>1. worker[w] # Gone /\ ~cancelled /\ chunkCh # <<>>
      BY <2>1, <1>c DEF WorkerTakes
    <3>2. collector # "done" /\ (\A u \in Workers : worker[u] # Gone)
      BY <3>1 DEF Closing, Exited
    <3>3. worker' = [worker EXCEPT ![w] = [st |-> "busy", hits |-> Search(Head(chunkCh))]]
      BY <2>1 DEF WorkerTakes
    <3>4. \A u \in Workers : worker'[u] # Gone /\ (worker'[u].st # "busy" => worker'[u].hits = <<>>)
      BY <3>2, <3>3, <1>a DEF Closing, Gone
    <3> QED BY <2>a, <3>2, <3>4 DEF Closing
  <2>2. CASE WorkerSends(w)
    <3>1. worker[w] # Gone /\ worker[w].st = "busy"
      BY <2>2, <1>c DEF WorkerSends, Closing
    <3>2. ~cancelled => collector # "done"
      BY <3>1 DEF Closing, Exited
    <3>3. worker' = [worker EXCEPT ![w].hits = Tail(@)] /\ chunkCh' = chunkCh
      BY <2>2 DEF WorkerSends
    <3>4. \A u \in Workers : /\ worker'[u] = Gone => worker[u] = Gone
                             /\ worker'[u].st # "busy" => worker'[u].hits = <<>>
      BY <3>1, <3>3, <1>a DEF Closing, Gone
    <3> QED BY <2>a, <3>2, <3>3, <3>4 DEF Closing
  <2>3. CASE WorkerDone(w)
    <3>1. worker[w] # Gone
      BY <2>3 DEF WorkerDone, Gone
    <3>2. ~cancelled => collector # "done"
      BY <3>1 DEF Closing, Exited
    <3>3. worker' = [worker EXCEPT ![w] = Idle] /\ chunkCh' = chunkCh
      BY <2>3 DEF WorkerDone
    <3>4. \A u \in Workers : /\ worker'[u] = Gone => worker[u] = Gone
                             /\ worker'[u].st # "busy" => worker'[u].hits = <<>>
      BY <3>3, <1>a, <1>c DEF Closing
    <3> QED BY <2>a, <3>2, <3>3, <3>4 DEF Closing
  <2>4. CASE WorkerExits(w)
    <3>1. /\ worker' = [worker EXCEPT ![w] = Gone] /\ matchCh' = matchCh
          /\ ~cancelled => io = "exited" /\ chunkCh = <<>> /\ chunkCh' = <<>>
      BY <2>4 DEF WorkerExits
    <3>2. \A u \in Workers : worker'[u].st # "busy" => worker'[u].hits = <<>>
      BY <3>1, <1>a, <1>c DEF Closing
    <3>3. \A u \in Workers : worker[u] = Gone => worker'[u] = Gone
      BY <3>1, <1>a
    <3> QED BY <2>a, <3>1, <3>2, <3>3 DEF Closing, Exited
  <2> QED BY <1>3, <2>1, <2>2, <2>3, <2>4 DEF Work
<1>4. CASE Collect
  <2>1. /\ collector = "running" /\ collector' = "running"
        /\ UNCHANGED <<io, pos, chunkCh, worker, cancelled, phase>>
    BY <1>4 DEF Collect, fixed
  <2> QED BY <2>1 DEF Closing
<1>5. CASE CollectorExits
  <2>1. /\ ~cancelled => matchCh = <<>> /\ Exited
        /\ collector' = "done" /\ UNCHANGED <<io, pos, chunkCh, matchCh, worker, cancelled, phase>>
    BY <1>5 DEF CollectorExits, fixed
  <2> QED BY <2>1 DEF Closing, Exited
<1>6. CASE Return
  <2>1. collector = "done" /\ UNCHANGED <<io, pos, chunkCh, matchCh, worker, cancelled, collector>>
    BY <1>6 DEF Return
  <2> QED BY <2>1 DEF Closing, Exited
<1>7. CASE Cancel
  <2>1. cancelled' /\ UNCHANGED <<worker, collector, phase>>
    BY <1>7 DEF Cancel
  <2> QED BY <2>1 DEF Closing
<1>8. CASE SaveOffset \/ UNCHANGED vars
  <2>1. UNCHANGED <<io, pos, chunkCh, matchCh, worker, cancelled, collector, phase>>
    BY <1>8 DEF SaveOffset, vars
  <2> QED BY <2>1 DEF Closing, Exited
<1>9. CASE Resume
  <2>1. /\ io' = "loop" /\ worker' = [u \in Workers |-> Idle] /\ collector' = "running"
        /\ phase' = "running"
    BY <1>9 DEF Resume, Fresh
  <2>2. \A u \in Workers : worker'[u] = Idle
    BY <2>1
  <2> QED BY <2>1, <2>2, <1>c DEF Closing
<1> QED
  BY <1>1, <1>2, <1>3, <1>4, <1>5, <1>6, <1>7, <1>8, <1>9 DEF Next, IO, Collector

-----------------------------------------------------------------------------
(* Nothing that is on its way is lost by a step, unless a cancelled worker    *)
(* drops it.                                                                  *)
LEMMA HeldStays ==
  ASSUME TypeOK, Closing, Collected, NEW h \in Headers, Good(h), Held(h), Next, ~ Resume
  PROVE  Held(h)'
<1> USE Consts
<1>a. /\ chunkCh \in Seq(0 .. End) /\ matchCh \in Seq(Headers) /\ emitted \in Seq(Headers)
      /\ worker \in [Workers -> [st : {"idle", "busy", "exited"}, hits : Seq(Headers)]]
      /\ dropped \subseteq Headers
  BY TypeParts DEF Queues
<1>b. ToSet(<<>>) = {} /\ Idle.hits = <<>> /\ Gone.hits = <<>>
  BY DEF ToSet, Idle, Gone
<1>1. CASE IORead \/ IOFails \/ IOExit \/ CollectorExits \/ Return \/ Cancel \/ SaveOffset
  <2>1. UNCHANGED <<chunkCh, worker, matchCh, emitted, dropped>> /\ (cancelled => cancelled')
    BY <1>1 DEF IORead, IOFails, IOExit, CollectorExits, Return, Cancel, SaveOffset, fixed, history
  <2> QED BY <2>1 DEF Held
<1>2. CASE IOSend
  <2>1. chunkCh' = Append(chunkCh, pos) /\ UNCHANGED <<worker, matchCh, emitted, dropped, cancelled>>
    BY <1>2 DEF IOSend, fixed
  <2>2. ToSet(chunkCh) \subseteq ToSet(chunkCh')
    <3>1. chunkCh \in Seq(Nat)
      BY <1>a
    <3>2. pos \in Nat
      BY TypeParts DEF Numbers
    <3> QED BY <2>1, <3>1, <3>2, SendSet
  <2> QED BY <2>1, <2>2 DEF Held
<1>3. ASSUME NEW w \in Workers, Work(w) PROVE Held(h)'
  <2>a. UNCHANGED <<emitted, cancelled>>
    BY <1>3 DEF Work, WorkerTakes, WorkerSends, WorkerDone, WorkerExits, fixed
  <2>1. CASE WorkerTakes(w)
    <3> DEFINE c == Head(chunkCh)
    <3>1. /\ worker[w] = Idle /\ chunkCh # <<>> /\ chunkCh' = Tail(chunkCh)
          /\ worker' = [worker EXCEPT ![w] = [st |-> "busy", hits |-> Search(c)]]
          /\ UNCHANGED <<matchCh, dropped>>
      BY <2>1 DEF WorkerTakes
    <3>2. c \in 0 .. End /\ ToSet(chunkCh) = {c} \cup ToSet(Tail(chunkCh))
      BY <3>1, <1>a, ReceiveSet
    <3> HIDE DEF c
    <3>3. worker'[w].hits = Search(c) /\ \A u \in Workers : u # w => worker'[u] = worker[u]
      BY <3>1, <1>a
    <3>4. Within(h, c) => h \in ToSet(worker'[w].hits)
      BY <3>2, <3>3, SearchFinds
    <3>5. h \notin ToSet(worker[w].hits)
      BY <3>1, <1>b
    <3> QED BY <2>a, <3>1, <3>2, <3>3, <3>4, <3>5 DEF Held
  <2>2. CASE WorkerSends(w)
    <3> DEFINE m == Head(worker[w].hits)
    <3>1. /\ worker[w].hits # <<>> /\ matchCh' = Append(matchCh, m)
          /\ worker' = [worker EXCEPT ![w].hits = Tail(@)] /\ UNCHANGED <<chunkCh, dropped>>
      BY <2>2 DEF WorkerSends
    <3>2. /\ m \in Headers /\ worker'[w].hits = Tail(worker[w].hits)
          /\ ToSet(worker[w].hits) = {m} \cup ToSet(Tail(worker[w].hits))
          /\ \A u \in Workers : u # w => worker'[u] = worker[u]
      BY <3>1, <1>a, ReceiveSet
    <3> HIDE DEF m
    <3>3. ToSet(matchCh') = ToSet(matchCh) \cup {m}
      BY <3>1, <3>2, <1>a, SendSet
    <3> QED BY <2>a, <3>1, <3>2, <3>3 DEF Held
  <2>3. CASE WorkerDone(w)
    <3>1. /\ worker[w].hits = <<>> /\ worker' = [worker EXCEPT ![w] = Idle]
          /\ UNCHANGED <<chunkCh, matchCh, dropped>>
      BY <2>3 DEF WorkerDone
    <3>2. \A u \in Workers : u # w => worker'[u] = worker[u]
      BY <3>1, <1>a
    <3> QED BY <2>a, <3>1, <3>2, <1>b DEF Held
  <2>4. CASE WorkerExits(w)
    <3>1. worker' = [worker EXCEPT ![w] = Gone] /\ matchCh' = matchCh
      BY <2>4 DEF WorkerExits
    <3>2. \A u \in Workers : u # w => worker'[u] = worker[u]
      BY <3>1, <1>a
    <3>3. CASE worker[w] = Idle /\ chunkCh = <<>> /\ io = "exited" /\ UNCHANGED <<chunkCh, dropped>>
      BY <2>a, <3>1, <3>2, <3>3, <1>b DEF Held
    <3>4. CASE /\ worker[w] = Idle /\ chunkCh # <<>> /\ cancelled /\ chunkCh' = Tail(chunkCh)
               /\ dropped' = dropped \union ToSet(Search(Head(chunkCh)))
      <4> DEFINE c == Head(chunkCh)
      <4>1. c \in 0 .. End /\ ToSet(chunkCh) = {c} \cup ToSet(Tail(chunkCh))
        BY <3>4, <1>a, ReceiveSet
      <4>2. dropped' = dropped \union ToSet(Search(c))
        BY <3>4
      <4> HIDE DEF c
      <4>3. Within(h, c) => h \in dropped'
        BY <4>1, <4>2, SearchFinds
      <4> QED BY <2>a, <3>1, <3>2, <3>4, <4>1, <4>2, <4>3, <1>b DEF Held
    <3>5. CASE /\ cancelled /\ dropped' = dropped \union ToSet(worker[w].hits)
               /\ UNCHANGED chunkCh
      BY <2>a, <3>1, <3>2, <3>5 DEF Held
    <3> QED BY <2>4, <3>3, <3>4, <3>5 DEF WorkerExits
  <2> QED BY <1>3, <2>1, <2>2, <2>3, <2>4 DEF Work
<1>4. CASE Collect
  <2> DEFINE m == Head(matchCh)
  <2>1. /\ matchCh # <<>> /\ matchCh' = Tail(matchCh)
        /\ UNCHANGED <<chunkCh, worker, dropped, cancelled>>
        /\ m.at \in seen => emitted' = emitted
        /\ m.at \notin seen => emitted' = IF Sized(m) > 0 THEN Append(emitted, m) ELSE emitted
    BY <1>4 DEF Collect, fixed
  <2>2. m \in Headers /\ ToSet(matchCh) = {m} \cup ToSet(Tail(matchCh))
    BY <2>1, <1>a, ReceiveSet
  <2> HIDE DEF m
  <2>3. ToSet(Append(emitted, m)) = ToSet(emitted) \cup {m}
    BY <2>2, <1>a, SendSet
  <2>4. ToSet(emitted) \subseteq ToSet(emitted')
    BY <2>1, <2>3
  <2>5. Sized(h) > 0
    BY DEF Sized, Least, Good
  <2>6. h = m => h \in ToSet(emitted')
    <3>1. SUFFICES ASSUME h = m, m.at \in seen PROVE h \in ToSet(emitted)
      BY <2>1, <2>3, <2>4, <2>5
    <3>2. PICK g \in Headers : g.at = h.at /\ (Sized(g) > 0 => g \in ToSet(emitted))
      BY <3>1 DEF Collected
    <3>3. g = h
      BY <3>2 DEF Good, Alone
    <3> QED BY <3>2, <3>3, <2>5
  <2> QED BY <2>1, <2>2, <2>4, <2>6 DEF Held
<1> QED
  BY <1>1, <1>2, <1>3, <1>4 DEF Next, IO, Collector

LEMMA InHandInit == Init => InHand
<1> SUFFICES ASSUME Init, NEW h \in Headers PROVE ~ (ChunkOf(h) < pos)
  BY DEF InHand
<1>1. start = 0 /\ pos = 0 /\ h.at \in Nat
  BY Consts DEF Init
<1>2. ChunkOf(h) \in Nat
  BY <1>1, WithinItsChunk, Consts
<1> QED BY <1>1, <1>2

(* Reading puts the headers of a chunk on their way, and they stay on it.      *)
LEMMA InHandNext ==
  TypeOK /\ Progress /\ Closing /\ Collected /\ InHand /\ [Next]_vars => InHand'
<1> SUFFICES ASSUME TypeOK, Progress, Closing, Collected, InHand, [Next]_vars,
                    NEW h \in Headers, Good(h), start' <= h.at,
                    ChunkOf(h)' < pos', ChunkOf(h)' \notin unread'
             PROVE  Held(h)'
  BY DEF InHand, Good, Alone
<1> USE Consts
<1>a. Numbers /\ chunkCh \in Seq(0 .. End)
  BY TypeParts DEF Queues
<1>b. start \in Nat /\ pos \in Nat /\ start <= pos /\ h.at \in Nat
  BY <1>a DEF Numbers, Progress
<1>1. CASE Resume
  <2>1. start' = saved /\ pos' = saved /\ saved \in Nat
    BY <1>1, <1>a DEF Resume, Fresh, Numbers
  <2>2. ChunkOf(h)' = h.at - ((h.at - saved) % Chunk)
    BY <2>1 DEF ChunkOf
  <2>3. saved <= h.at
    BY <2>1
  <2>4. saved <= h.at - ((h.at - saved) % Chunk) /\ h.at - ((h.at - saved) % Chunk) \in Nat
    BY <2>1, <2>3, <1>b, GridOf, Zenon
  <2> QED BY <2>1, <2>2, <2>4
<1>2. CASE IOFails \/ IOSend
  <2>1. /\ start' = start /\ pos' = pos + Chunk
        /\ \/ unread' = unread \cup {pos}
           \/ unread' = unread /\ chunkCh' = Append(chunkCh, pos)
    BY <1>2 DEF IOFails, IOSend, Advance, fixed
  <2>2. ChunkOf(h)' = ChunkOf(h)
    BY <2>1 DEF ChunkOf
  <2>3. /\ ChunkOf(h) \in Nat /\ start <= ChunkOf(h) /\ (ChunkOf(h) - start) % Chunk = 0
        /\ Within(h, ChunkOf(h))
    BY <1>b, <2>1, WithinItsChunk
  <2>4. ChunkOf(h) < pos \/ ChunkOf(h) = pos
    BY <2>1, <2>2, <2>3, <1>b, GridApart DEF Progress
  <2>5. CASE ChunkOf(h) < pos
    <3>1. Held(h)
      <4>1. start <= h.at /\ ChunkOf(h) < pos /\ ChunkOf(h) \notin unread
        BY <2>1, <2>2, <2>5
      <4> QED BY <4>1 DEF InHand
    <3>2. Next /\ ~ Resume
      BY <1>2 DEF Next, IO, IOFails, IOSend, Resume, fixed
    <3> QED BY <3>1, <3>2, HeldStays
  <2>6. CASE ChunkOf(h) = pos
    <3>1. chunkCh' = Append(chunkCh, pos)
      BY <2>6, <2>1, <2>2
    <3>2. ToSet(chunkCh') = ToSet(chunkCh) \cup {pos}
      <4>1. chunkCh \in Seq(Nat) /\ pos \in Nat
        BY <1>a, <1>b
      <4>2. ToSet(Append(chunkCh, pos)) = ToSet(chunkCh) \cup {pos}
        BY <4>1, SendSet
      <4> QED BY <3>1, <4>2
    <3>3. pos \in ToSet(chunkCh') /\ Within(h, pos)
      BY <3>2, <2>3, <2>6
    <3> QED BY <3>3 DEF Held
  <2> QED BY <2>4, <2>5, <2>6
<1>3. CASE UNCHANGED vars
  <2>1. UNCHANGED <<start, pos, unread, chunkCh, worker, matchCh, emitted, cancelled, dropped>>
    BY <1>3 DEF vars
  <2>2. Held(h)
    BY <2>1 DEF InHand, ChunkOf
  <2> QED BY <2>1, <2>2 DEF Held
<1>4. CASE Next /\ ~ Resume /\ ~ IOFails /\ ~ IOSend
  <2>1. UNCHANGED <<start, pos, unread>>
    BY <1>4 DEF Next, IO, IORead, IOExit, Work, WorkerTakes, WorkerSends, WorkerDone, WorkerExits,
       Collector, Collect, CollectorExits, Return, Cancel, SaveOffset, fixed, history
  <2>2. Held(h)
    BY <2>1 DEF InHand, ChunkOf
  <2> QED BY <1>4, <2>2, HeldStays
<1> QED BY <1>1, <1>2, <1>3, <1>4

(* A scan is continued from an offset the IO goroutine had passed: what lies   *)
(* behind it was on its way when the scan was cancelled.                      *)
LEMMA EarlierNext ==
  TypeOK /\ Progress /\ Closing /\ InHand /\ Earlier /\ [Next]_vars => Earlier'
<1> SUFFICES ASSUME TypeOK, Progress, Closing, InHand, Earlier, [Next]_vars,
                    NEW h \in Headers, Good(h), h.at < start',
                    \A off \in unread' : ~ Within(h, off)
             PROVE  h \in before' \cup dropped'
  BY DEF Earlier, Good, Alone
<1> USE Consts
<1>a. Numbers /\ chunkCh \in Seq(0 .. End)
  BY TypeParts DEF Queues
<1>1. CASE Resume
  <2>1. /\ start' = saved /\ unread' = unread /\ Exited /\ before' = before \cup ToSet(emitted)
        /\ dropped' = dropped \cup ToSet(matchCh)
                              \cup UNION {ToSet(Search(off)) : off \in ToSet(chunkCh)}
    BY <1>1 DEF Resume, Fresh
  <2>2. CASE h.at < start
    BY <2>1, <2>2 DEF Earlier
  <2>3. CASE ~ (h.at < start)
    <3>1. start \in Nat /\ start <= h.at /\ h.at < saved /\ saved <= pos /\ {pos, saved} \subseteq Nat
      <4>1. start' = saved
        BY <2>1
      <4> QED BY <4>1, <2>3, <1>a DEF Numbers, Progress, Least
    <3>2. ChunkOf(h) \in Nat /\ ChunkOf(h) <= h.at /\ Within(h, ChunkOf(h))
      BY <3>1, WithinItsChunk
    <3>3. ChunkOf(h) < pos /\ ChunkOf(h) \notin unread
      <4>1. unread' = unread
        BY <2>1
      <4>2. ChunkOf(h) \notin unread
        BY <3>2, <4>1, Zenon
      <4>3. ChunkOf(h) < pos
        BY <3>1, <3>2
      <4> QED BY <4>2, <4>3
    <3>4. Held(h)
      BY <3>1, <3>3 DEF InHand
    <3>5. \A w \in Workers : h \notin ToSet(worker[w].hits)
      <4>1. ToSet(<<>>) = {} /\ \A w \in Workers : worker[w].hits = <<>>
        BY <2>1 DEF Exited, Gone, ToSet
      <4> QED BY <4>1
    <3>6. ASSUME NEW off \in ToSet(chunkCh), Within(h, off) PROVE h \in dropped'
      <4>1. off \in 0 .. End
        <5>1. ToSet(chunkCh) \subseteq 0 .. End
          BY <1>a, SetOf, Zenon
        <5> QED BY <5>1, <3>6
      <4>2. h \in ToSet(Search(off))
        BY <4>1, <3>6, SearchFinds
      <4> QED BY <2>1, <4>2, <3>6
    <3> QED BY <2>1, <3>4, <3>5, <3>6 DEF Held
  <2> QED BY <2>2, <2>3
<1>2. CASE (Next /\ ~ Resume) \/ UNCHANGED vars
  <2>1. start' = start /\ before' = before /\ unread \subseteq unread' /\ dropped \subseteq dropped'
    BY <1>2 DEF Next, IO, IORead, IOFails, IOSend, IOExit, Work, WorkerTakes, WorkerSends,
       WorkerDone, WorkerExits, Collector, Collect, CollectorExits, Return, Cancel, SaveOffset,
       fixed, history, vars
  <2> QED BY <2>1 DEF Earlier
<1> QED BY <1>1, <1>2

-----------------------------------------------------------------------------
(* The offsets of the headers can be counted.                                 *)
LEMMA OffsetsFinite ==
  /\ IsFiniteSet(Offsets) /\ Cardinality(Offsets) \in Nat
  /\ \A U \in SUBSET Offsets : Cardinality(U) \in Nat /\ Cardinality(U) <= Cardinality(Offsets)
<1>1. Offsets \subseteq 0 .. End
  BY Consts DEF Offsets
<1>2. IsFiniteSet(0 .. End)
  BY FS_Interval, Consts
<1>3. IsFiniteSet(Offsets)
  BY <1>1, <1>2, FS_Subset
<1> QED BY <1>3, FS_Subset, FS_CardinalityType

Report == Collected /\ Known /\ OffsetOnce

LEMMA ReportInit == Init => Report
<1> SUFFICES ASSUME Init PROVE Report
  OBVIOUS
<1>1. seen = {} /\ emitted = <<>> /\ ToSet(emitted) = {} /\ DOMAIN emitted = {}
  BY DEF Init, ToSet
<1> QED BY <1>1 DEF Report, Collected, Known, OffsetOnce

(* Only the collector reports, and it forgets only what lies KeepLag behind.   *)
LEMMA ReportNext == TypeOK /\ Report /\ [Next]_vars => Report'
<1> SUFFICES ASSUME TypeOK, Report, [Next]_vars PROVE Report'
  OBVIOUS
<1> USE Consts DEF Report
<1>a. Numbers /\ Queues
  BY TypeParts
<1>b. /\ matchCh \in Seq(Headers) /\ emitted \in Seq(Headers) /\ top \in Nat
      /\ seen \subseteq Offsets /\ ToSet(emitted) \subseteq Headers
  <2>1. matchCh \in Seq(Headers) /\ emitted \in Seq(Headers) /\ top \in Nat
    BY <1>a DEF Queues, Numbers
  <2>2. seen \subseteq Offsets
    BY DEF Collected, Offsets
  <2> QED BY <2>1, <2>2, SetOf
<1>1. CASE UNCHANGED <<seen, emitted, top>>
  BY <1>1 DEF Collected, Known, OffsetOnce, Forgettable
<1>2. CASE Resume
  <2>1. seen' = {} /\ emitted' = <<>> /\ ToSet(emitted') = {} /\ DOMAIN emitted' = {}
    BY <1>2 DEF Resume, Fresh, ToSet
  <2> QED BY <2>1 DEF Collected, Known, OffsetOnce
<1>3. CASE Collect
  <2> DEFINE m == Head(matchCh)
             U == seen \cup {m.at}
  <2>1. /\ matchCh # <<>> /\ top' = IF m.at > top THEN m.at ELSE top
        /\ m.at \in seen => seen' = seen /\ emitted' = emitted
        /\ m.at \notin seen =>
             /\ seen' = Pruned(U, top')
             /\ emitted' = IF Sized(m) > 0 THEN Append(emitted, m) ELSE emitted
    BY <1>3 DEF Collect
  <2>2. m \in Headers /\ m.at \in Offsets /\ m.at \in Nat
    BY <2>1, <1>b, ReceiveSet DEF Offsets
  <2> HIDE DEF m, U
  <2>3. top' \in Nat /\ top <= top' /\ m.at <= top'
    BY <2>1, <2>2, <1>b
  <2> DEFINE Forgotten(o) == Cardinality(Offsets) > SoftCap /\ top' > o + KeepLag
  <2>4. \A h \in Headers : Forgettable(h.at) => Forgotten(h.at) /\ Forgettable(h.at)'
    BY <2>3, <1>b DEF Forgettable, Offsets
  <2>5. CASE m.at \in seen
    <3>1. seen' = seen /\ emitted' = emitted
      BY <2>1, <2>5
    <3>2. Collected'
      BY <3>1 DEF Collected
    <3>3. Known'
      BY <3>1, <2>3, <2>4, <1>b DEF Known
    <3>4. OffsetOnce'
      <4>1. \A i \in DOMAIN emitted : emitted[i] \in Headers
        BY <1>b
      <4> QED BY <3>1, <4>1, <2>4, <1>b DEF OffsetOnce
    <3> QED BY <3>2, <3>3, <3>4
  <2>6. CASE m.at \notin seen
    <3>1. /\ seen' = Pruned(U, top')
          /\ emitted' = emitted \/ (Sized(m) > 0 /\ emitted' = Append(emitted, m))
          /\ Sized(m) > 0 => emitted' = Append(emitted, m)
      BY <2>1, <2>6
    <3>2. ToSet(Append(emitted, m)) = ToSet(emitted) \cup {m}
      BY <2>2, <1>b, SendSet
    <3>3. seen' \subseteq U /\ U \subseteq Offsets /\ U = seen \cup {m.at}
      BY <3>1, <1>b, <2>2 DEF Pruned, U
    <3>4. ASSUME NEW h \in Headers, h.at \in U PROVE h.at \in seen' \/ Forgettable(h.at)'
      <4>1. SUFFICES ASSUME h.at \notin seen' PROVE Forgettable(h.at)'
        OBVIOUS
      <4>2. Cardinality(U) > SoftCap /\ ~ (h.at >= top' - KeepLag)
        BY <4>1, <3>1, <3>4 DEF Pruned
      <4>3. Cardinality(Offsets) > SoftCap
        BY <4>2, <3>3, OffsetsFinite
      <4>4. top' > h.at + KeepLag
        BY <4>2, <2>3
      <4> QED BY <4>3, <4>4 DEF Forgettable, Offsets
    <3>5. Collected'
      <4>1. SUFFICES ASSUME NEW o \in seen'
                     PROVE  \E g \in Headers : g.at = o /\ (Sized(g) > 0 => g \in ToSet(emitted'))
        BY DEF Collected, Sized
      <4>2. CASE o = m.at
        BY <4>2, <3>1, <3>2, <2>2
      <4>3. CASE o \in seen
        <5>1. ToSet(emitted) \subseteq ToSet(emitted')
          BY <3>1, <3>2
        <5> QED BY <4>3, <5>1 DEF Collected
      <4> QED BY <4>2, <4>3, <3>3
    <3>6. Known'
      <4>1. SUFFICES ASSUME NEW h \in ToSet(emitted')
                     PROVE  h.at <= top' /\ (h.at \in seen' \/ Forgettable(h.at)')
        BY DEF Known, Forgettable, Offsets
      <4>2. h \in ToSet(emitted) \/ h = m
        BY <3>1, <3>2
      <4>3. h \in Headers /\ h.at \in Nat
        BY <4>2, <1>b, <2>2
      <4>4. h.at <= top'
        BY <4>2, <4>3, <2>3, <1>b DEF Known
      <4>5. h.at \in U \/ Forgettable(h.at)
        BY <4>2, <3>3 DEF Known
      <4> QED BY <4>3, <4>4, <4>5, <3>4, <2>4
    <3>7. OffsetOnce'
      <4> DEFINE n == Len(emitted)
      <4>1. \A i \in 1 .. n : /\ emitted[i] \in Headers /\ emitted[i] \in ToSet(emitted)
                              /\ i \in DOMAIN emitted
        BY <1>b DEF ToSet
      <4>2. \A i \in 1 .. n : emitted[i].at = m.at => Forgettable(m.at)
        BY <4>1, <2>6 DEF Known
      <4>3. CASE emitted' = emitted
        <5>1. \A i \in DOMAIN emitted : emitted[i] \in Headers
          BY <1>b
        <5> QED BY <4>3, <5>1, <2>4, <1>b DEF OffsetOnce
      <4>4. CASE emitted' = Append(emitted, m)
        <5>1. /\ n \in Nat /\ DOMAIN emitted' = 1 .. n + 1 /\ emitted'[n + 1] = m
              /\ \A i \in 1 .. n : emitted'[i] = emitted[i]
          BY <4>4, <1>b, <2>2, AppendProperties
        <5> HIDE DEF n
        <5>2. SUFFICES ASSUME NEW i \in 1 .. n + 1, NEW j \in 1 .. n + 1, i # j,
                              emitted'[i].at = emitted'[j].at
                       PROVE  Forgotten(emitted'[i].at)
          BY <5>1 DEF OffsetOnce, Forgettable, Offsets
        <5>3. CASE i \in 1 .. n /\ j \in 1 .. n
          <6>1. Forgettable(emitted[i].at)
            BY <5>1, <5>2, <5>3, <4>1 DEF OffsetOnce
          <6> QED BY <6>1, <5>1, <5>3, <4>1, <2>4
        <5>4. CASE i = n + 1
          <6>1. j \in 1 .. n
            BY <5>1, <5>2, <5>4
          <6>2. emitted[j].at = m.at /\ emitted'[i] = m
            BY <6>1, <5>1, <5>2, <5>4
          <6> QED BY <6>1, <6>2, <4>2, <2>2, <2>4
        <5>5. CASE j = n + 1
          <6>1. i \in 1 .. n
            BY <5>1, <5>2, <5>5
          <6>2. emitted[i].at = m.at /\ emitted'[i].at = m.at
            BY <6>1, <5>1, <5>2, <5>5
          <6> QED BY <6>1, <6>2, <4>2, <2>2, <2>4
        <5> QED
          <6>1. i \in 1 .. n \/ i = n + 1
            BY <5>1
          <6>2. j \in 1 .. n \/ j = n + 1
            BY <5>1
          <6> QED BY <6>1, <6>2, <5>3, <5>4, <5>5
      <4> QED BY <3>1, <4>3, <4>4
    <3> QED BY <3>5, <3>6, <3>7
  <2> QED BY <2>5, <2>6
<1>4. CASE Next /\ ~ Resume /\ ~ Collect
  <2>1. UNCHANGED <<seen, emitted, top>>
    BY <1>4 DEF Next, IO, IORead, IOFails, IOSend, IOExit, Work, WorkerTakes, WorkerSends,
       WorkerDone, WorkerExits, Collector, CollectorExits, Return, Cancel, SaveOffset
  <2> QED BY <2>1, <1>1
<1>5. CASE UNCHANGED vars
  <2>1. UNCHANGED <<seen, emitted, top>>
    BY <1>5 DEF vars
  <2> QED BY <2>1, <1>1
<1> QED BY <1>2, <1>3, <1>4, <1>5

-----------------------------------------------------------------------------
LEMMA EarlierInit == Init => Earlier
BY Consts DEF Init, Earlier

LEMMA Invariance == Spec => []IInv
<1>1. Init => IInv
  BY TypeInit, ClosingInit, InHandInit, EarlierInit, ReportInit DEF IInv, Report
<1>2. IInv /\ [Next]_vars => IInv'
  BY TypeNext, ClosingNext, InHandNext, EarlierNext, ReportNext DEF IInv, Report
<1> QED BY <1>1, <1>2, PTL DEF Spec

(* When a scan is over that nobody cancelled, the channels are empty.         *)
LEMMA Delivered ==
  ASSUME IInv, phase = "over", ~ cancelled, NEW h \in Headers, Good(h),
         start <= h.at, ChunkOf(h) \notin unread
  PROVE  h \in ToSet(emitted)
<1> USE Consts DEF IInv
<1>1. matchCh = <<>> /\ Exited
  BY DEF Closing
<1>2. PICK v \in Workers : TRUE
  BY WorkersAssumption
<1>3. chunkCh = <<>> /\ pos >= End
  BY <1>1, <1>2 DEF Exited, Closing
<1>4. ToSet(<<>>) = {} /\ \A w \in Workers : worker[w].hits = <<>>
  BY <1>1 DEF Exited, Gone, ToSet
<1>5. ChunkOf(h) < pos
  <2>1. start \in Nat /\ pos \in Nat
    BY TypeParts DEF Numbers
  <2>2. ChunkOf(h) < End /\ ChunkOf(h) \in Nat
    BY <2>1, WithinItsChunk
  <2> QED BY <2>1, <2>2, <1>3
<1>6. Held(h)
  BY <1>5 DEF InHand
<1> QED BY <1>1, <1>3, <1>4, <1>6 DEF Held

(* No offset is reported twice in one scan unless the collector forgot it: for *)
(* any device, headers, number of workers, chunk size and capacities.         *)
THEOREM OffsetsAreOnce == Spec => []OffsetOnce
<1>1. IInv => OffsetOnce
  BY DEF IInv
<1> QED BY <1>1, Invariance, PTL

(* A scan that ran to its end reported every file whose header a chunk that   *)
(* could be read holds.                                                       *)
THEOREM NothingIsMissed == Spec => []NoneMissed
<1>1. IInv => NoneMissed
  <2>1. SUFFICES ASSUME IInv, phase = "over", ~ cancelled, NEW h \in Headers, Findable(h)
                 PROVE  h \in ToSet(emitted)
    BY DEF NoneMissed
  <2>2. start <= h.at
    BY <2>1, Consts, TypeParts DEF IInv, Numbers, Findable
  <2> QED BY <2>1, <2>2, Delivered DEF Findable, Good
<1> QED BY <1>1, Invariance, PTL

(* After a scan was continued, a file is missing only if a cancelled scan     *)
(* dropped its header.                                                        *)
THEOREM OnlyTheQueuedAreLost == Spec => []OnlyQueuedLost
<1>1. IInv => OnlyQueuedLost
  <2>1. SUFFICES ASSUME IInv, phase = "over", ~ cancelled, NEW h \in Headers, Good(h),
                        \A off \in unread : ~ Within(h, off)
                 PROVE  h \in before \cup ToSet(emitted) \cup dropped
    BY DEF OnlyQueuedLost, Good
  <2>2. start \in Nat /\ h.at \in Nat
    BY <2>1, Consts, TypeParts DEF IInv, Numbers
  <2>3. CASE h.at < start
    BY <2>1, <2>3 DEF IInv, Earlier
  <2>4. CASE start <= h.at
    <3>1. ChunkOf(h) \notin unread
      BY <2>1, <2>2, <2>4, WithinItsChunk
    <3> QED BY <2>1, <2>4, <3>1, Delivered
  <2> QED BY <2>2, <2>3, <2>4
<1> QED BY <1>1, Invariance, PTL

(* The progress of a scan that nobody cancelled ends at exactly the whole     *)
(* range, for any start, device and chunk size: the partial last chunk and    *)
(* the chunks that could not be read count.                                   *)
THEOREM ProgressIsExact == Spec => []ProgressExact
<1>1. IInv => ProgressExact
  <2>1. SUFFICES ASSUME IInv, io = "exited", ~ cancelled
                 PROVE  scanned = End - start
    BY DEF ProgressExact
  <2>2. pos >= End /\ scanned = Least(pos, End) - start /\ pos \in Int
    BY <2>1, TypeParts DEF IInv, Closing, Progress, Numbers
  <2> QED BY <2>2, Consts DEF Least
<1> QED BY <1>1, Invariance, PTL

(* When a goroutine can go: the IO goroutine unless chunkCh is full, a worker *)
(* that waits for chunks when there is one or no more come, one that has      *)
(* matches when matchCh has room, the collector when there is a match or all  *)
(* workers are gone.  Nobody but a cancelled scan's goroutine passes a full   *)
(* channel.                                                                   *)
IOGoes == io = "loop" \/ (io = "send" /\ (Len(chunkCh) < ChunkCap \/ cancelled))
WorkGoes(w) ==
  \/ worker[w] = Idle /\ (chunkCh # <<>> \/ io = "exited")
  \/ worker[w].st = "busy" /\ (worker[w].hits = <<>> \/ Len(matchCh) < MatchCap \/ cancelled)
CollectorGoes == collector = "done" \/ matchCh # <<>> \/ Exited
SomeoneGoes == phase = "running" => IOGoes \/ CollectorGoes \/ \E w \in Workers : WorkGoes(w)

(* Until a scan returns some goroutine of it can go, whatever the capacities  *)
(* of the channels, the number of workers and the matches of a chunk: the     *)
(* scan never waits for itself, cancelled or not.                             *)
THEOREM ScanNeverStands == Spec => []SomeoneGoes
<1>1. IInv => SomeoneGoes
  <2>1. SUFFICES ASSUME IInv, phase = "running", ~ CollectorGoes, ~ IOGoes
                 PROVE  \E w \in Workers : WorkGoes(w)
    BY DEF SomeoneGoes
  <2>2. matchCh = <<>> /\ ~ Exited
    BY <2>1 DEF CollectorGoes
  <2>3. PICK w \in Workers : worker[w] # Gone
    BY <2>2 DEF Exited
  <2>4. worker[w] \in [st : {"idle", "busy", "exited"}, hits : Seq(Headers)]
    BY <2>1, TypeParts DEF IInv, Queues
  <2>5. worker[w].st # "busy" => worker[w].hits = <<>>
    BY <2>1 DEF IInv, Closing
  <2>6. worker[w] = Idle \/ worker[w].st = "busy"
    BY <2>3, <2>4, <2>5 DEF Idle, Gone
  <2>7. Len(matchCh) < MatchCap
    BY <2>2, Consts
  <2>8. io = "exited" \/ chunkCh # <<>>
    <3>1. io \in {"loop", "send", "exited"}
      BY <2>1, TypeParts DEF IInv, Stages
    <3>2. chunkCh = <<>> => Len(chunkCh) < ChunkCap
      BY Consts
    <3> QED BY <2>1, <3>1, <3>2 DEF IOGoes
  <2>9. WorkGoes(w)
    BY <2>6, <2>7, <2>8 DEF WorkGoes
  <2> QED BY <2>9
<1> QED BY <1>1, Invariance, PTL

(* What is left to do, from the first stage of the pipeline to the last: of   *)
(* the IO goroutine, of a worker, and of Scan behind the collector.           *)
IOLeft == 2 * (End + Chunk - pos) + (IF io = "loop" THEN 2 ELSE IF io = "send" THEN 1 ELSE 0)
WorkLeft(r) == IF r = Gone THEN 0 ELSE IF r = Idle THEN 1 ELSE 2 + Len(r.hits)
EndLeft == (IF collector = "done" THEN 0 ELSE 1) + (IF phase = "over" THEN 0 ELSE 1)
LessWork ==
  /\ \A w \in Workers : WorkLeft(worker'[w]) <= WorkLeft(worker[w])
  /\ \E w \in Workers : WorkLeft(worker'[w]) < WorkLeft(worker[w])
(* A stage has less to do, and those before it have as much as they had.      *)
LessLeft ==
  \/ IOLeft' < IOLeft
  \/ UNCHANGED <<io, pos>> /\ Len(chunkCh') < Len(chunkCh)
  \/ UNCHANGED <<io, pos, chunkCh>> /\ LessWork
  \/ UNCHANGED <<io, pos, chunkCh, worker>> /\ Len(matchCh') < Len(matchCh)
  \/ UNCHANGED <<io, pos, chunkCh, worker, matchCh>> /\ EndLeft' < EndLeft

(* One worker has changed.                                                    *)
LEMMA OneWorksLess ==
  ASSUME worker \in [Workers -> [st : {"idle", "busy", "exited"}, hits : Seq(Headers)]],
         NEW w \in Workers, NEW r \in [st : {"idle", "busy", "exited"}, hits : Seq(Headers)],
         worker' = [worker EXCEPT ![w] = r], WorkLeft(worker'[w]) < WorkLeft(worker[w])
  PROVE  LessWork
<1>1. \A v \in Workers : worker'[v] = IF v = w THEN r ELSE worker[v]
  OBVIOUS
<1>2. \A v \in Workers : WorkLeft(worker[v]) \in Nat
  BY DEF WorkLeft
<1>3. WorkLeft(worker'[w]) \in Nat
  BY <1>1 DEF WorkLeft
<1> HIDE DEF WorkLeft
<1> QED BY <1>1, <1>2, <1>3 DEF LessWork

(* A step of a worker.                                                        *)
LEMMA WorkLowers ==
  ASSUME Numbers, Queues, Stages, Closing, NEW w \in Workers, Work(w)
  PROVE  LessLeft
<1>0. {Idle, Gone} \subseteq [st : {"idle", "busy", "exited"}, hits : Seq(Headers)]
  BY DEF Idle, Gone
<1>1. worker \in [Workers -> [st : {"idle", "busy", "exited"}, hits : Seq(Headers)]]
  BY DEF Queues
<1>2. worker[w] \in [st : {"idle", "busy", "exited"}, hits : Seq(Headers)]
  BY <1>1
<1>3. chunkCh \in Seq(0..End)
  BY DEF Queues
<1>4. CASE WorkerTakes(w)
  <2>1. UNCHANGED <<io, pos>> /\ chunkCh # <<>> /\ chunkCh' = Tail(chunkCh)
    BY <1>4 DEF WorkerTakes
  <2> QED BY <2>1, <1>3 DEF LessLeft
<1>5. CASE WorkerSends(w)
  <2> DEFINE r == [worker[w] EXCEPT !.hits = Tail(@)]
  <2>1. UNCHANGED <<io, pos, chunkCh>> /\ worker[w].hits # <<>> /\ worker' = [worker EXCEPT ![w] = r]
    BY <1>5 DEF WorkerSends
  <2>2. worker'[w] = r
    BY <2>1, <1>1
  <2>3. worker[w].hits \in Seq(Headers) /\ Len(Tail(worker[w].hits)) = Len(worker[w].hits) - 1
        /\ Len(worker[w].hits) \in Nat \ {0}
    BY <1>2, <2>1
  <2>4. r.hits = Tail(worker[w].hits) /\ r.st = worker[w].st
    BY <1>2
  <2>5. worker[w].st = "busy"
    BY <2>1 DEF Closing
  <2>6. worker[w] # Gone /\ worker[w] # Idle /\ r # Gone /\ r # Idle
    BY <2>4, <2>5 DEF Gone, Idle
  <2>7. WorkLeft(worker'[w]) < WorkLeft(worker[w])
    BY <2>2, <2>3, <2>4, <2>6 DEF WorkLeft
  <2>8. LessWork
    <3>1. r \in [st : {"idle", "busy", "exited"}, hits : Seq(Headers)]
      BY <1>2, <2>3
    <3> HIDE DEF r
    <3> QED BY <1>1, <2>1, <2>7, <3>1, OneWorksLess
  <2> QED BY <2>1, <2>8 DEF LessLeft
<1>6. CASE WorkerDone(w)
  <2>1. UNCHANGED <<io, pos, chunkCh>> /\ worker' = [worker EXCEPT ![w] = Idle]
        /\ worker[w].st = "busy" /\ worker[w].hits = <<>>
    BY <1>6 DEF WorkerDone
  <2>2. worker'[w] = Idle
    BY <2>1, <1>1
  <2>3. WorkLeft(worker'[w]) < WorkLeft(worker[w])
    BY <2>1, <2>2 DEF WorkLeft, Idle, Gone
  <2>4. LessWork
    BY <1>1, <2>1, <2>3, <1>0, OneWorksLess
  <2> QED BY <2>1, <2>4 DEF LessLeft
<1>7. CASE WorkerExits(w)
  <2>1. UNCHANGED <<io, pos>> /\ worker' = [worker EXCEPT ![w] = Gone]
        /\ (worker[w] = Idle \/ worker[w].st = "busy")
        /\ (chunkCh' = chunkCh \/ (chunkCh # <<>> /\ chunkCh' = Tail(chunkCh)))
    BY <1>7 DEF WorkerExits
  <2>2. worker'[w] = Gone
    BY <2>1, <1>1
  <2>3. WorkLeft(worker'[w]) < WorkLeft(worker[w])
    BY <2>1, <2>2, <1>2 DEF WorkLeft, Idle, Gone
  <2>4. LessWork
    BY <1>1, <2>1, <2>3, <1>0, OneWorksLess
  <2>5. CASE chunkCh' = chunkCh
    BY <2>1, <2>4, <2>5 DEF LessLeft
  <2>6. CASE chunkCh # <<>> /\ chunkCh' = Tail(chunkCh)
    BY <2>1, <2>6, <1>3 DEF LessLeft
  <2> QED BY <2>1, <2>5, <2>6
<1> QED BY <1>4, <1>5, <1>6, <1>7 DEF Work

(* A step of the IO goroutine.                                                *)
LEMMA IOLowers ==
  ASSUME Numbers, Stages, IO
  PROVE  LessLeft
<1>1. pos \in Int /\ Chunk \in Nat /\ Chunk > 0 /\ End \in Nat
  BY Consts DEF Numbers
<1>2. IOLeft' < IOLeft
  <2>1. CASE IORead
    BY <1>1, <2>1 DEF IORead, IOLeft
  <2>2. CASE IOFails
    BY <1>1, <2>2 DEF IOFails, Advance, IOLeft
  <2>3. CASE IOSend
    BY <1>1, <2>3 DEF IOSend, Advance, IOLeft
  <2>4. CASE IOExit
    BY <1>1, <2>4 DEF IOExit, IOLeft
  <2> QED BY <2>1, <2>2, <2>3, <2>4 DEF IO
<1> QED BY <1>2 DEF LessLeft

(* A step of the collector, or Scan's return.                                 *)
LEMMA CollectorLowers ==
  ASSUME Numbers, Queues, Stages, Collector
  PROVE  LessLeft
<1>1. CASE Collect
  <2>1. UNCHANGED <<io, pos, chunkCh, worker>> /\ matchCh # <<>> /\ matchCh' = Tail(matchCh)
    BY <1>1 DEF Collect
  <2> QED BY <2>1 DEF LessLeft, Queues
<1>2. CASE CollectorExits
  <2>1. UNCHANGED <<io, pos, chunkCh, worker, matchCh>> /\ EndLeft' < EndLeft
    BY <1>2 DEF CollectorExits, EndLeft, fixed
  <2> QED BY <2>1 DEF LessLeft
<1>3. CASE Return
  <2>1. UNCHANGED <<io, pos, chunkCh, worker, matchCh>> /\ EndLeft' < EndLeft
    BY <1>3 DEF Return, EndLeft
  <2> QED BY <2>1 DEF LessLeft
<1> QED BY <1>1, <1>2, <1>3 DEF Collector

(* Every step of a goroutine leaves less to do, in an order in which nothing  *)
(* falls forever when there are finitely many workers.  A scan therefore      *)
(* takes finitely many steps of its goroutines; and as one of them can always *)
(* go, it returns when each is scheduled.                                     *)
THEOREM ScanRunsDown ==
  Spec => [][IO \/ (\E w \in Workers : Work(w)) \/ Collector => LessLeft]_vars
<1>1. IInv => Numbers /\ Queues /\ Stages /\ Closing
  BY TypeParts DEF IInv
<1>2. IInv /\ [Next]_vars => [IO \/ (\E w \in Workers : Work(w)) \/ Collector => LessLeft]_vars
  BY <1>1, IOLowers, WorkLowers, CollectorLowers
<1> QED BY <1>2, Invariance, PTL DEF Spec

-----------------------------------------------------------------------------
(* The application's background tasks.                                      *)

CallRecords == [at : {"idle", "call", "late"}, kind : Kind \union {None},
            holds : Task \union {None}, aims : SUBSET Task]

LEMMA NoCallIsRecord ==
  /\ NoCall \in CallRecords /\ NoCall.at = "idle" /\ NoCall.holds = None /\ NoCall.aims = {}
BY DEF NoCall, CallRecords

(* No call reads the field again after it has released the lock.            *)
TaskTyped == TaskTypeOK /\ \A c \in Caller : caller[c].at \in {"idle", "call"}

LEMMA TaskTypeInit == TaskInit => TaskTyped
<1> SUFFICES ASSUME TaskInit PROVE TaskTyped
  OBVIOUS
<1>1. caller \in [Caller -> CallRecords]
  BY NoCallIsRecord DEF TaskInit
<1>2. cancels \in 0..MaxCancels
  BY BoundsAssumption DEF TaskInit
<1> QED
  BY <1>1, <1>2, NoCallIsRecord DEF TaskInit, TaskTyped, TaskTypeOK, CallRecords

LEMMA NestedUpdate ==
  ASSUME NEW S, NEW f \in [Task -> [Job -> S]], NEW t \in Task, NEW d \in Job, NEW x \in S
  PROVE  [f EXCEPT ![t][d] = x] \in [Task -> [Job -> S]]
<1>1. [f[t] EXCEPT ![d] = x] \in [Job -> S]
  OBVIOUS
<1> QED
  BY <1>1

LEMMA TaskTypeNext == TaskTyped /\ [TaskNext]_taskVars => TaskTyped'
<1> SUFFICES ASSUME TaskTyped, [TaskNext]_taskVars PROVE TaskTyped'
  OBVIOUS
<1> USE DEF TaskTyped, TaskTypeOK, jobs, calls, outside
<1>1. ASSUME NEW t \in Task, NEW k \in Kind,
             CallRefusing(t, k) \/ CallReplacing(t, k) \/ CallUnlessScanning(t, k)
      PROVE TaskTyped'
  <2>1. /\ task' \in [Task -> {"new", "arm", "run", "end", "clear", "done"}]
        /\ kind' \in [Task -> Kind \union {None}] /\ lone' \subseteq Task
    <3>1. PICK at \in {"arm", "run"} : Call(t, k, at)
      BY <1>1 DEF CallRefusing, CallReplacing, CallUnlessScanning
    <3>2. task' = [task EXCEPT ![t] = at] /\ kind' = [kind EXCEPT ![t] = k]
      BY <3>1 DEF Call
    <3>3. lone' \subseteq Task
      BY <3>1 DEF Call
    <3> QED
      BY <3>2, <3>3
  <2>2. /\ slot' \in [Kind -> Task \union {None}] /\ imaging' \in BOOLEAN
        /\ ctxDone' \subseteq Task /\ meant' \subseteq Task
    <3>1. CASE CallReplacing(t, k)
      <4>1. slot[k] \in Task \union {None}
        OBVIOUS
      <4>2. imaging' = imaging /\ slot' = [slot EXCEPT ![k] = t]
            /\ ctxDone' = ctxDone \union ({slot[k]} \ {None})
            /\ meant' = meant \union ({slot[k]} \ {None})
        BY <3>1 DEF CallReplacing, CancelAll
      <4> QED
        BY <4>1, <4>2
    <3>2. CASE CallRefusing(t, k) \/ CallUnlessScanning(t, k)
      BY <3>2 DEF CallRefusing, CallUnlessScanning
    <3> QED
      BY <1>1, <3>1, <3>2
  <2>3. mustStop' \subseteq Task \X Job
    BY <1>1 DEF CallRefusing, CallReplacing, CallUnlessScanning, CancelAll, Scanned
  <2> QED
    BY <1>1, <2>1, <2>2, <2>3 DEF CallRefusing, CallReplacing, CallUnlessScanning
<1>2. ASSUME NEW t \in Task, Arm(t) PROVE TaskTyped'
  BY <1>2 DEF Arm
<1>3. ASSUME NEW t \in Task, WorkEnds(t) \/ Chain(t) \/ AllDone(t) PROVE TaskTyped'
  <2>1. /\ task' \in [Task -> {"new", "arm", "run", "end", "clear", "done"}]
        /\ lone' \subseteq Task /\ due' \subseteq Task /\ meant' \subseteq Task
    <3>1. Finish(t)
      BY <1>3 DEF WorkEnds, Chain, AllDone
    <3> QED
      BY <3>1 DEF Finish
  <2>2. UNCHANGED <<kind, slot, ctxDone, imaging, jobs, caller, cancels, mustStop>>
        /\ scanning' \in BOOLEAN
    BY <1>3 DEF WorkEnds, Chain, AllDone
  <2> QED
    BY <2>1, <2>2
<1>10. ASSUME NEW t \in Task, Unwind(t) PROVE TaskTyped'
  BY <1>10 DEF Unwind
<1>11. ASSUME NEW t \in Task, Clear(t) PROVE TaskTyped'
  BY <1>11 DEF Clear
<1>4. ASSUME NEW t \in Task, NEW d \in Job,
             \/ JobStarts(t, d) \/ JobRegisters(t, d) \/ JobFails(t, d)
             \/ JobReachesEnd(t, d) \/ JobStopped(t, d)
             \/ WatcherStops(t, d) \/ WatcherGivesUp(t, d)
      PROVE TaskTyped'
  <2>1. UNCHANGED outside
    BY <1>4 DEF JobStarts, JobRegisters, JobFails, JobReachesEnd, JobStopped, WatcherStops,
       WatcherGivesUp, JobReturns
  <2>2. \/ UNCHANGED job
        \/ \E at \in {"begun", "scanning", "done"} : Step(t, d, at)
    BY <1>4 DEF JobStarts, JobRegisters, JobFails, JobReachesEnd, JobStopped, WatcherStops,
       WatcherGivesUp, JobReturns
  <2>3. \/ UNCHANGED watch
        \/ \E at \in {"none", "watching", "stopped"} : Watcher(t, d, at)
    BY <1>4 DEF JobStarts, JobRegisters, JobFails, JobReachesEnd, JobStopped, WatcherStops,
       WatcherGivesUp, JobReturns
  <2>4. job' \in [Task -> [Job -> {"new", "begun", "scanning", "done"}]]
    <3> DEFINE S == {"new", "begun", "scanning", "done"}
    <3>1. job \in [Task -> [Job -> S]]
      OBVIOUS
    <3>2. ASSUME NEW at \in S PROVE [job EXCEPT ![t][d] = at] \in [Task -> [Job -> S]]
      BY <3>1, NestedUpdate
    <3>3. job' = job \/ \E at \in S : job' = [job EXCEPT ![t][d] = at]
      BY <2>2 DEF Step
    <3> HIDE DEF S
    <3>4. CASE job' = job
      BY <3>1, <3>4
    <3>5. ASSUME NEW at \in S, job' = [job EXCEPT ![t][d] = at]
          PROVE  job' \in [Task -> [Job -> S]]
      BY <3>2, <3>5
    <3> QED
      BY <3>3, <3>4, <3>5 DEF S
  <2>5. watch' \in [Task -> [Job -> {"none", "watching", "stopped"}]]
    <3> DEFINE S == {"none", "watching", "stopped"}
    <3>1. watch \in [Task -> [Job -> S]]
      OBVIOUS
    <3>2. ASSUME NEW at \in S PROVE [watch EXCEPT ![t][d] = at] \in [Task -> [Job -> S]]
      BY <3>1, NestedUpdate
    <3>3. watch' = watch \/ \E at \in S : watch' = [watch EXCEPT ![t][d] = at]
      BY <2>3 DEF Watcher
    <3> HIDE DEF S
    <3>4. CASE watch' = watch
      BY <3>1, <3>4
    <3>5. ASSUME NEW at \in S, watch' = [watch EXCEPT ![t][d] = at]
          PROVE  watch' \in [Task -> [Job -> S]]
      BY <3>2, <3>5
    <3> QED
      BY <3>3, <3>4, <3>5 DEF S
  <2> QED
    BY <2>1, <2>4, <2>5
<1>5. ASSUME NEW k \in Kind, CancelHeld(k) PROVE TaskTyped'
  <2>1. cancels' \in 0..MaxCancels /\ slot' \in [Kind -> Task \union {None}]
    BY <1>5, BoundsAssumption DEF CancelHeld
  <2>2. ctxDone' \subseteq Task /\ mustStop' \subseteq Task \X Job
    BY <1>5 DEF CancelHeld, CancelAll, Scanned
  <2>3. due' \subseteq Task /\ meant' \subseteq Task
    BY <1>5 DEF CancelHeld, Reached, Alive
  <2> QED
    BY <1>5, <2>1, <2>2, <2>3 DEF CancelHeld
<1>6. ASSUME NEW k \in Kind, NEW c \in Caller, CancelReads(c, k) PROVE TaskTyped'
  <2>1. cancels' \in 0..MaxCancels /\ slot' \in [Kind -> Task \union {None}]
    BY <1>6, BoundsAssumption DEF CancelReads
  <2>2. caller' \in [Caller -> CallRecords]
    BY <1>6 DEF CancelReads, Reached, CallRecords
  <2>3. meant' \subseteq Task
    BY <1>6 DEF CancelReads, Alive
  <2> QED
    BY <1>6, <2>1, <2>2, <2>3 DEF CancelReads, CallRecords
<1>7. ASSUME NEW c \in Caller, CancelCalls(c) PROVE TaskTyped'
  <2>1. caller[c] \in CallRecords
    BY DEF CallRecords
  <2> DEFINE held == IF caller[c].at = "late" THEN slot[caller[c].kind] ELSE caller[c].holds
  <2>2. caller' \in [Caller -> CallRecords] /\ \A e \in Caller : caller'[e].at \in {"idle", "call"}
    BY <1>7, NoCallIsRecord DEF CancelCalls, CallRecords
  <2>3. due' \subseteq Task
    BY <1>7, <2>1 DEF CancelCalls, CallRecords
  <2>4. ctxDone' \subseteq Task /\ mustStop' \subseteq Task \X Job
    BY <1>7, <2>1, BoundsAssumption DEF CancelCalls, CancelAll, Scanned, CallRecords
  <2> QED
    BY <1>7, <2>2, <2>3, <2>4 DEF CancelCalls, CallRecords
<1>8. CASE DiskScan
  BY <1>8 DEF DiskScan
<1>9. CASE UNCHANGED taskVars
  BY <1>9 DEF taskVars
<1> QED
  BY <1>1, <1>2, <1>3, <1>4, <1>5, <1>6, <1>7, <1>8, <1>9, <1>10, <1>11 DEF TaskNext

(* Every reachable state of the tasks is well typed.                        *)
THEOREM TaskTypeCorrect == TaskSpec => []TaskTypeOK
<1>1. TaskTyped => TaskTypeOK
  BY DEF TaskTyped
<1> QED
  BY <1>1, TaskTypeInit, TaskTypeNext, PTL DEF TaskSpec

-----------------------------------------------------------------------------
(* Why a cancelled task at work was meant: a field names a task of its kind *)
(* that has come past filling it, and a call that has read the field has    *)
(* meant the task it holds, which never comes to work again.                *)
Started(t) == task[t] \notin {"new", "arm"}
WasMeant(t) == Started(t) /\ (task[t] = "run" => t \in meant)

Meant ==
  /\ \A k \in Kind : slot[k] # None => kind[slot[k]] = k /\ Started(slot[k])
  /\ \A c \in Caller : caller[c].holds # None => WasMeant(caller[c].holds)
  /\ \A t \in ctxDone : WasMeant(t)

(* Why a lone task is reached: it alone can fill or clear its field, so the *)
(* field names it, or a call holds its function, or it is cancelled.        *)
Coming(t) ==
  task[t] = "run" =>
    t \in ctxDone \/ \E c \in Caller : caller[c].at = "call" /\ caller[c].holds = t

Reaching ==
  /\ \A t \in lone : /\ task[t] \in {"arm", "run"} /\ kind[t] \in Kind
                     /\ \A u \in Alive(kind[t]) : u = t
                     /\ slot[kind[t]] = t \/ Coming(t)
  /\ \A t \in due : Started(t) /\ Coming(t)
  /\ \A c \in Caller : \A t \in caller[c].aims : Started(t) /\ Coming(t)

TaskInv == Meant /\ Reaching

LEMMA TaskInvInit == TaskInit => TaskInv
BY NoCallIsRecord DEF TaskInit, TaskInv, Meant, Reaching

LEMMA TaskInvNext == TaskTyped /\ TaskInv /\ [TaskNext]_taskVars => TaskInv'
<1> SUFFICES ASSUME TaskTyped, TaskInv, [TaskNext]_taskVars PROVE TaskInv'
  OBVIOUS
<1>a. caller \in [Caller -> CallRecords] /\ \A c \in Caller : caller[c].at \in {"idle", "call"}
  BY DEF TaskTyped, TaskTypeOK, CallRecords
<1> USE BoundsAssumption
    DEF TaskTyped, TaskTypeOK, TaskInv, Meant, Reaching, Started, WasMeant, Coming, Alive, Over,
        jobs, calls, outside
<1>1. ASSUME NEW t \in Task, NEW k \in Kind, CallRefusing(t, k) \/ CallUnlessScanning(t, k)
      PROVE TaskInv'
  <2>1. /\ task' = [task EXCEPT ![t] = "arm"] /\ kind' = [kind EXCEPT ![t] = k]
        /\ lone' = (lone \ Alive(k)) \union IF Alive(k) = {} THEN {t} ELSE {}
        /\ task[t] = "new"
        /\ UNCHANGED <<slot, ctxDone, caller, due, meant>>
    BY <1>1 DEF CallRefusing, CallUnlessScanning, Call
  <2>2. Meant'
    BY <1>a, <2>1 DEF CallRecords
  <2>3. Reaching'
    BY <1>a, <2>1 DEF CallRecords
  <2> QED
    BY <2>2, <2>3
<1>2. ASSUME NEW t \in Task, NEW k \in Kind, CallReplacing(t, k) PROVE TaskInv'
  <2>1. /\ task' = [task EXCEPT ![t] = "run"] /\ kind' = [kind EXCEPT ![t] = k]
        /\ lone' = (lone \ Alive(k)) \union IF Alive(k) = {} THEN {t} ELSE {}
        /\ task[t] = "new"
        /\ ctxDone' = ctxDone \union ({slot[k]} \ {None})
        /\ meant' = meant \union ({slot[k]} \ {None})
        /\ slot' = [slot EXCEPT ![k] = t]
        /\ UNCHANGED <<caller, due>>
    BY <1>2 DEF CallReplacing, Call, CancelAll
  <2>2. Meant'
    BY <1>a, <2>1 DEF CallRecords
  <2>3. Reaching'
    BY <1>a, <2>1 DEF CallRecords
  <2> QED
    BY <2>2, <2>3
<1>3. ASSUME NEW t \in Task, Arm(t) PROVE TaskInv'
  <2>2. Meant'
    BY <1>a, <1>3 DEF Arm, CallRecords
  <2>3. Reaching'
    <3>1. /\ task[t] = "arm" /\ task' = [task EXCEPT ![t] = "run"]
          /\ slot' = [slot EXCEPT ![kind[t]] = t]
          /\ UNCHANGED <<kind, ctxDone, caller, lone, due>>
      BY <1>3 DEF Arm
    <3>2. \A u \in Task : Started(u) => Started(u)' /\ (Coming(u) => Coming(u)')
      BY <3>1
    <3>3. \A u \in lone : slot'[kind[u]] = u \/ Coming(u)'
      BY <3>1, <3>2
    <3>4. \A u \in lone : /\ task'[u] \in {"arm", "run"} /\ kind'[u] \in Kind
                        /\ \A v \in Task : kind'[v] = kind'[u] /\ task'[v] \notin Over => v = u
      BY <3>1
    <3>5. \A u \in due : Started(u)' /\ Coming(u)'
      BY <3>2
    <3>6. \A c \in Caller : \A u \in caller[c].aims : u \in Task
      BY <1>a DEF CallRecords
    <3>7. \A c \in Caller : \A u \in caller'[c].aims : Started(u)' /\ Coming(u)'
      BY <3>1, <3>2, <3>6
    <3> QED
      BY <3>1, <3>3, <3>4, <3>5, <3>7
  <2> QED
    BY <2>2, <2>3
<1>4. ASSUME NEW t \in Task, WorkEnds(t) \/ Chain(t) \/ AllDone(t) PROVE TaskInv'
  <2>1. /\ task' = [task EXCEPT ![t] = "end"] /\ task[t] = "run"
        /\ lone' = lone \ {t} /\ due' = due \ {t} /\ meant' = meant \ {t}
        /\ UNCHANGED <<kind, slot, ctxDone, caller>>
    BY <1>4 DEF WorkEnds, Chain, AllDone, Finish
  <2>2. Meant'
    BY <1>a, <2>1 DEF CallRecords
  <2>3. Reaching'
    BY <1>a, <2>1 DEF CallRecords
  <2> QED
    BY <2>2, <2>3
<1>5. ASSUME NEW t \in Task, Unwind(t) PROVE TaskInv'
  <2>2. Meant'
    BY <1>a, <1>5 DEF Unwind, CallRecords
  <2>3. Reaching'
    BY <1>a, <1>5 DEF Unwind, CallRecords
  <2> QED
    BY <2>2, <2>3
<1>6. ASSUME NEW t \in Task, Clear(t) PROVE TaskInv'
  <2>2. Meant'
    BY <1>a, <1>6 DEF Clear, CallRecords
  <2>3. Reaching'
    <3>1. /\ task[t] = "clear" /\ task' = [task EXCEPT ![t] = "done"]
          /\ slot' = [slot EXCEPT ![kind[t]] = None]
          /\ UNCHANGED <<kind, ctxDone, caller, lone, due>>
      BY <1>6 DEF Clear
    <3>2. \A u \in Task : (Started(u) => Started(u)') /\ (Coming(u) => Coming(u)')
      BY <3>1
    <3>3. \A u \in lone : /\ kind[u] # kind[t]
                        /\ task'[u] \in {"arm", "run"} /\ kind'[u] \in Kind
                        /\ \A v \in Task : kind'[v] = kind'[u] /\ task'[v] \notin Over => v = u
      BY <3>1
    <3>4. \A u \in lone : slot'[kind[u]] = u \/ Coming(u)'
      BY <3>1, <3>2, <3>3
    <3>5. \A u \in due : Started(u)' /\ Coming(u)'
      BY <3>2
    <3>6. \A c \in Caller : \A u \in caller[c].aims : u \in Task
      BY <1>a DEF CallRecords
    <3>7. \A c \in Caller : \A u \in caller'[c].aims : Started(u)' /\ Coming(u)'
      BY <3>1, <3>2, <3>6
    <3> QED
      BY <3>1, <3>3, <3>4, <3>5, <3>7
  <2> QED
    BY <2>2, <2>3
<1>7. ASSUME NEW t \in Task, NEW d \in Job,
             \/ JobStarts(t, d) \/ JobRegisters(t, d) \/ JobFails(t, d)
             \/ JobReachesEnd(t, d) \/ JobStopped(t, d)
             \/ WatcherStops(t, d) \/ WatcherGivesUp(t, d)
      PROVE TaskInv'
  <2>1. UNCHANGED outside
    BY <1>7 DEF JobStarts, JobRegisters, JobFails, JobReachesEnd, JobStopped, WatcherStops,
       WatcherGivesUp, JobReturns
  <2> QED
    BY <2>1
<1>8. ASSUME NEW k \in Kind, CancelHeld(k) PROVE TaskInv'
  <2>2. Meant'
    BY <1>a, <1>8 DEF CancelHeld, CancelAll, CallRecords
  <2>3. Reaching'
    BY <1>a, <1>8 DEF CancelHeld, CancelAll, Reached, CallRecords
  <2> QED
    BY <2>2, <2>3
<1>9. ASSUME NEW k \in Kind, NEW c \in Caller, CancelReads(c, k) PROVE TaskInv'
  <2> DEFINE r == [at |-> "call", kind |-> k, holds |-> slot[k], aims |-> Reached(k)]
  <2>1. /\ caller' = [caller EXCEPT ![c] = r] /\ caller[c] = NoCall
        /\ meant' = meant \union Alive(k)
        /\ slot' = slot \/ slot' = [slot EXCEPT ![k] = None]
        /\ UNCHANGED <<task, kind, ctxDone, lone, due>>
    BY <1>9 DEF CancelReads
  <2>2. /\ caller'[c].at = "call" /\ caller'[c].holds = slot[k] /\ caller'[c].aims = Reached(k)
        /\ \A e \in Caller \ {c} : caller'[e] = caller[e]
        /\ caller[c].at = "idle"
    BY <1>a, <2>1, NoCallIsRecord
  <2>3. \A u \in Task : Coming(u) => Coming(u)'
    BY <2>1, <2>2
  <2>4. \A u \in Task : slot[k] = u => Coming(u)'
    BY <2>2
  <2>5. Meant'
    <3>1. \A t \in Task : slot[k] = t => WasMeant(t)'
      BY <2>1
    <3>2. \A t \in Task : WasMeant(t) => WasMeant(t)'
      BY <2>1
    <3>3. \A e \in Caller : caller[e].holds \in Task \union {None}
      BY <1>a DEF CallRecords
    <3>4. ASSUME NEW e \in Caller, NEW t \in Task, caller'[e].holds = t PROVE WasMeant(t)'
      <4>1. CASE e = c
        BY <2>2, <3>1, <3>4, <4>1
      <4>2. CASE e # c
        <5>1. caller[e].holds = t
          BY <2>2, <3>4, <4>2
        <5> QED
          BY <3>2, <5>1
      <4> QED
        BY <4>1, <4>2
    <3>5. \A e \in Caller : caller'[e].holds \in Task \union {None}
      BY <2>2, <3>3
    <3>6. \A e \in Caller : caller'[e].holds # None => WasMeant(caller[e].holds)'
      BY <3>4, <3>5
    <3>7. \A t \in ctxDone' : WasMeant(t)'
      BY <2>1, <3>2
    <3>8. \A l \in Kind : slot'[l] # None => kind'[slot'[l]] = l /\ Started(slot[l])'
      BY <2>1
    <3> QED
      BY <3>6, <3>7, <3>8
  <2>6. Reaching'
    <3>1. \A u \in lone : kind[u] \in Kind /\ u \in Task
      OBVIOUS
    <3>2. \A u \in lone : slot'[kind[u]] = u \/ Coming(u)'
      <4>1. \A u \in lone : slot[kind[u]] = u => slot'[kind[u]] = u \/ Coming(u)'
        <5> SUFFICES ASSUME NEW u \in lone, slot[kind[u]] = u, slot'[kind[u]] # u
                     PROVE  Coming(u)'
          OBVIOUS
        <5>1. kind[u] = k
          BY <2>1, <3>1
        <5> QED
          BY <2>4, <3>1, <5>1
      <4> QED
        BY <2>3, <3>1, <4>1
    <3>3. \A u \in Reached(k) : Started(u) /\ Coming(u)'
      BY <2>3, <2>4 DEF Reached
    <3> QED
      BY <2>1, <2>2, <2>3, <3>2, <3>3
  <2> QED
    BY <2>5, <2>6
<1>10. ASSUME NEW c \in Caller, CancelCalls(c) PROVE TaskInv'
  <2>1. /\ ctxDone' = ctxDone \union ({caller[c].holds} \ {None})
        /\ due' = due \union {t \in caller[c].aims : task[t] = "run"}
        /\ caller' = [caller EXCEPT ![c] = NoCall]
        /\ UNCHANGED <<task, kind, slot, lone, meant>>
    BY <1>a, <1>10 DEF CancelCalls, CancelAll
  <2>2. Meant'
    BY <1>a, <2>1, NoCallIsRecord DEF CallRecords
  <2>3. Reaching'
    BY <1>a, <2>1, NoCallIsRecord DEF CallRecords
  <2> QED
    BY <2>2, <2>3
<1>11. CASE DiskScan
  BY <1>11 DEF DiskScan
<1>12. CASE UNCHANGED taskVars
  BY <1>12 DEF taskVars
<1> QED
  BY <1>1, <1>2, <1>3, <1>4, <1>5, <1>6, <1>7, <1>8, <1>9, <1>10, <1>11, <1>12 DEF TaskNext

LEMMA TaskInvCorrect == TaskSpec => [](TaskTyped /\ TaskInv)
<1>1. TaskInit => TaskTyped /\ TaskInv
  BY TaskTypeInit, TaskInvInit
<1>2. (TaskTyped /\ TaskInv) /\ [TaskNext]_taskVars => (TaskTyped /\ TaskInv)'
  BY TaskTypeNext, TaskInvNext
<1> QED
  BY <1>1, <1>2, PTL DEF TaskSpec

(* A Cancel call reaches the only task of its kind, for any number of       *)
(* tasks, callers and overlapping calls.                                    *)
THEOREM CancelReaches == TaskSpec => []LoneTaskIsCancelled
<1>1. TaskTyped /\ TaskInv => LoneTaskIsCancelled
  BY NoCallIsRecord DEF TaskInv, Reaching, Coming, LoneTaskIsCancelled
<1> QED
  BY <1>1, TaskInvCorrect, PTL

(* No Cancel function that was read before reaches a task called later, for *)
(* any number of tasks, callers and overlapping calls.                      *)
THEOREM CancelIsMeant == TaskSpec => []CancelledWasMeant
<1>1. TaskTyped /\ TaskInv => CancelledWasMeant
  BY DEF TaskInv, Meant, WasMeant, CancelledWasMeant
<1> QED
  BY <1>1, TaskInvCorrect, PTL
=============================================================================
