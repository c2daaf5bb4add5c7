------------------------- MODULE FoundPipelineProofs -------------------------
(***************************************************************************)
(* The path of a found file neither loses a file nor has one twice, and it *)
(* implements FoundDelivery: proved for any number of goroutines and files *)
(* and for batches and a channel of any size.                              *)
(***************************************************************************)
EXTENDS FoundPipeline, SequenceTheorems, TLAPS

(* Who has a batch is on the way with it, and has none otherwise.           *)
InStep ==
  /\ \A a \in Actors : pc[a] = "idle" <=> held[a] = <<>>
  /\ emitting.shown => emitting.batch # <<>>

LEMMA TypeInit == Init => TypeOK /\ InStep
BY SizesAssumption DEF Init, TypeOK, InStep, Batches

-----------------------------------------------------------------------------
(* What the operations on batches do to the set of their files.             *)
LEMMA AppendSet ==
  ASSUME NEW S, NEW s \in Seq(S), NEW x \in S
  PROVE  /\ ToSet(Append(s, x)) = ToSet(s) \cup {x}
         /\ IsInjective(s) /\ x \notin ToSet(s) => IsInjective(Append(s, x))
<1>1. /\ DOMAIN s = 1 .. Len(s) /\ DOMAIN Append(s, x) = 1 .. Len(s) + 1
      /\ Len(s) \in Nat
      /\ \A i \in 1 .. Len(s) : Append(s, x)[i] = s[i]
      /\ Append(s, x)[Len(s) + 1] = x
  BY AppendProperties
<1>2. \A i \in 1 .. Len(s) + 1 : i \in 1 .. Len(s) \/ i = Len(s) + 1
  BY <1>1
<1>3. 1 .. Len(s) \subseteq 1 .. Len(s) + 1 /\ Len(s) + 1 \in 1 .. Len(s) + 1
  BY <1>1
<1> QED
  BY <1>1, <1>2, <1>3 DEF ToSet, IsInjective

LEMMA ConcatSet ==
  ASSUME NEW S, NEW s \in Seq(S), NEW t \in Seq(S)
  PROVE  /\ ToSet(s \o t) = ToSet(s) \cup ToSet(t)
         /\ IsInjective(s) /\ IsInjective(t) /\ ToSet(s) \cap ToSet(t) = {} => IsInjective(s \o t)
         /\ t # <<>> => IsStrictPrefix(s, s \o t)
<1>1. /\ DOMAIN s = 1 .. Len(s) /\ DOMAIN t = 1 .. Len(t)
      /\ DOMAIN (s \o t) = 1 .. Len(s) + Len(t) /\ Len(s \o t) = Len(s) + Len(t)
      /\ Len(s) \in Nat /\ Len(t) \in Nat
      /\ \A i \in 1 .. Len(s) : (s \o t)[i] = s[i]
      /\ \A i \in 1 .. Len(t) : (s \o t)[Len(s) + i] = t[i]
  OBVIOUS
<1>2. \A i \in 1 .. Len(s) + Len(t) :
        i \in 1 .. Len(s) \/ (i - Len(s) \in 1 .. Len(t) /\ i = Len(s) + (i - Len(s)))
  BY <1>1
<1>3. /\ \A i \in 1 .. Len(s) : i \in 1 .. Len(s) + Len(t)
      /\ \A i \in 1 .. Len(t) : Len(s) + i \in 1 .. Len(s) + Len(t)
  BY <1>1
<1>4. ToSet(s \o t) = ToSet(s) \cup ToSet(t)
  <2>1. ASSUME NEW x \in ToSet(s \o t) PROVE x \in ToSet(s) \cup ToSet(t)
    <3>1. PICK i \in 1 .. Len(s) + Len(t) : x = (s \o t)[i]
      BY <1>1, <2>1 DEF ToSet
    <3>2. CASE i \in 1 .. Len(s)
      BY <1>1, <3>1, <3>2 DEF ToSet
    <3>3. CASE i - Len(s) \in 1 .. Len(t)
      <4>1. x = t[i - Len(s)]
        BY <1>1, <1>2, <3>1, <3>3
      <4> QED
        BY <1>1, <3>3, <4>1 DEF ToSet
    <3> QED
      BY <1>2, <3>2, <3>3
  <2>2. ToSet(s) \subseteq ToSet(s \o t)
    BY <1>1, <1>3 DEF ToSet
  <2>3. ToSet(t) \subseteq ToSet(s \o t)
    BY <1>1, <1>3 DEF ToSet
  <2> QED
    BY <2>1, <2>2, <2>3
<1>5. ASSUME IsInjective(s), IsInjective(t), ToSet(s) \cap ToSet(t) = {}
      PROVE  IsInjective(s \o t)
  <2> SUFFICES ASSUME NEW i \in 1 .. Len(s) + Len(t), NEW j \in 1 .. Len(s) + Len(t),
                      (s \o t)[i] = (s \o t)[j]
               PROVE  i = j
    BY <1>1 DEF IsInjective
  <2>1. ASSUME NEW k \in 1 .. Len(s) PROVE (s \o t)[k] \in ToSet(s)
    BY <1>1 DEF ToSet
  <2>2. ASSUME NEW k \in 1 .. Len(s) + Len(t), k - Len(s) \in 1 .. Len(t)
        PROVE  (s \o t)[k] = t[k - Len(s)] /\ (s \o t)[k] \in ToSet(t)
    <3>1. (s \o t)[k] = t[k - Len(s)]
      BY <1>1, <1>2, <2>2
    <3> QED
      BY <1>1, <2>2, <3>1 DEF ToSet
  <2>3. CASE i \in 1 .. Len(s) /\ j \in 1 .. Len(s)
    BY <1>1, <1>5, <2>3 DEF IsInjective
  <2>4. CASE i - Len(s) \in 1 .. Len(t) /\ j - Len(s) \in 1 .. Len(t)
    <3>1. t[i - Len(s)] = t[j - Len(s)]
      BY <2>2, <2>4
    <3>2. i - Len(s) = j - Len(s)
      BY <1>1, <1>5, <2>4, <3>1 DEF IsInjective
    <3> QED
      BY <1>1, <3>2
  <2>5. CASE i \in 1 .. Len(s) /\ j - Len(s) \in 1 .. Len(t)
    BY <1>5, <2>1, <2>2, <2>5
  <2>6. CASE i - Len(s) \in 1 .. Len(t) /\ j \in 1 .. Len(s)
    BY <1>5, <2>1, <2>2, <2>6
  <2> QED
    BY <1>2, <2>3, <2>4, <2>5, <2>6
<1>6. ASSUME t # <<>> PROVE IsStrictPrefix(s, s \o t)
  <2>1. Len(t) > 0
    BY <1>1, <1>6
  <2>2. SubSeq(s, 1, Len(s)) = SubSeq(s \o t, 1, Len(s))
    BY <1>1
  <2>3. ASSUME s = s \o t PROVE FALSE
    <3>1. Len(s) = Len(s \o t)
      BY <2>3
    <3> QED
      BY <1>1, <2>1, <3>1
  <2>4. Len(s) <= Len(s \o t)
    BY <1>1
  <2> QED
    BY <2>2, <2>3, <2>4 DEF IsStrictPrefix, IsPrefix
<1> QED
  BY <1>4, <1>5, <1>6

InAll(q) == UNION {ToSet(q[i]) : i \in DOMAIN q}
InHandsOf(h) == UNION {ToSet(h[a]) : a \in Actors}

(* The channel: one batch more at its end, one less at its head.            *)
LEMMA EnqueueSet ==
  ASSUME NEW S, NEW q \in Seq(Seq(S)), NEW b \in Seq(S)
  PROVE  LET r == Append(q, b) IN
         /\ \A i \in DOMAIN r : r[i] = IF i = Len(q) + 1 THEN b ELSE q[i]
         /\ DOMAIN r = DOMAIN q \cup {Len(q) + 1} /\ Len(q) + 1 \notin DOMAIN q
         /\ InAll(r) =
              InAll(q) \cup ToSet(b)
<1> DEFINE r == Append(q, b)
<1>1. /\ DOMAIN r = DOMAIN q \cup {Len(q) + 1} /\ Len(q) + 1 \notin DOMAIN q
      /\ \A i \in DOMAIN q : r[i] = q[i]
      /\ r[Len(q) + 1] = b
  BY AppendProperties
<1> HIDE DEF r
<1>2. InAll(r) =
        InAll(q) \cup ToSet(b)
  <2>1. ASSUME NEW x, NEW i \in DOMAIN r, x \in ToSet(r[i])
        PROVE  x \in ToSet(b) \/ \E k \in DOMAIN q : x \in ToSet(q[k])
    BY <1>1, <2>1
  <2>2. ASSUME NEW x, x \in ToSet(b) PROVE \E i \in DOMAIN r : x \in ToSet(r[i])
    BY <1>1, <2>2
  <2>3. ASSUME NEW x, NEW k \in DOMAIN q, x \in ToSet(q[k])
        PROVE  \E i \in DOMAIN r : x \in ToSet(r[i])
    BY <1>1, <2>3
  <2> QED
    BY <2>1, <2>2, <2>3 DEF InAll
<1> QED
  BY <1>1, <1>2 DEF r

LEMMA DequeueSet ==
  ASSUME NEW S, NEW q \in Seq(Seq(S)), q # <<>>
  PROVE  /\ Tail(q) \in Seq(Seq(S)) /\ Len(Tail(q)) = Len(q) - 1 /\ Head(q) \in Seq(S)
         /\ 1 \in DOMAIN q /\ Head(q) = q[1]
         /\ \A i \in DOMAIN Tail(q) :
              i + 1 \in DOMAIN q /\ i + 1 # 1 /\ Tail(q)[i] = q[i + 1]
         /\ InAll(q) =
              ToSet(Head(q)) \cup InAll(Tail(q))
<1>1. /\ Tail(q) \in Seq(Seq(S)) /\ Len(Tail(q)) = Len(q) - 1 /\ Head(q) = q[1]
      /\ Len(q) \in Nat /\ Len(q) > 0 /\ DOMAIN q = 1 .. Len(q)
      /\ DOMAIN Tail(q) = 1 .. Len(q) - 1
      /\ \A i \in 1 .. Len(q) - 1 : Tail(q)[i] = q[i + 1]
  BY HeadTailProperties
<1>2. 1 \in DOMAIN q /\ Head(q) \in Seq(S)
  BY <1>1
<1>3. \A i \in DOMAIN Tail(q) : i + 1 \in DOMAIN q /\ i + 1 # 1 /\ Tail(q)[i] = q[i + 1]
  BY <1>1
<1>4. ASSUME NEW i \in DOMAIN q PROVE i = 1 \/ \E k \in DOMAIN Tail(q) : q[i] = Tail(q)[k]
  <2>1. i = 1 \/ (i - 1 \in 1 .. Len(q) - 1 /\ (i - 1) + 1 = i)
    BY <1>1
  <2>2. i - 1 \in 1 .. Len(q) - 1 /\ (i - 1) + 1 = i => Tail(q)[i - 1] = q[i]
    BY <1>1
  <2> QED
    BY <1>1, <2>1, <2>2
<1>5. InAll(q) =
        ToSet(Head(q)) \cup InAll(Tail(q))
  <2>1. ASSUME NEW x, NEW i \in DOMAIN q, x \in ToSet(q[i])
        PROVE  x \in ToSet(Head(q)) \/ \E k \in DOMAIN Tail(q) : x \in ToSet(Tail(q)[k])
    BY <1>1, <1>4, <2>1
  <2>2. ASSUME NEW x, x \in ToSet(Head(q)) PROVE \E i \in DOMAIN q : x \in ToSet(q[i])
    BY <1>1, <1>2, <2>2
  <2>3. ASSUME NEW x, NEW k \in DOMAIN Tail(q), x \in ToSet(Tail(q)[k])
        PROVE  \E i \in DOMAIN q : x \in ToSet(q[i])
    BY <1>3, <2>3
  <2> QED
    BY <2>1, <2>2, <2>3 DEF InAll
<1> QED
  BY <1>1, <1>2, <1>3, <1>5

(* The batches in hands when one of them is replaced.                       *)
Others(h, a) == UNION {ToSet(h[c]) : c \in Actors \ {a}}

Distinct(h) == \A a, b \in Actors : a # b => ToSet(h[a]) \cap ToSet(h[b]) = {}

LEMMA HandsSet ==
  ASSUME NEW h \in [Actors -> Batches], NEW a \in Actors, NEW b, Distinct(h),
         NEW k \in {[h EXCEPT ![a] = b]}
  PROVE  /\ InHandsOf(h) = Others(h, a) \cup ToSet(h[a])
         /\ InHandsOf(k) = Others(h, a) \cup ToSet(b)
         /\ Others(h, a) \cap ToSet(h[a]) = {}
         /\ Others(h, a) \cap ToSet(b) = {} => Distinct(k)
<1>1. k[a] = b /\ \A c \in Actors \ {a} : k[c] = h[c]
  OBVIOUS
<1>2. InHandsOf(h) = Others(h, a) \cup ToSet(h[a])
  BY DEF Others, InHandsOf
<1>3. InHandsOf(k) = Others(h, a) \cup ToSet(b)
  <2>1. \A x : (\E c \in Actors : x \in ToSet(k[c])) <=>
                 x \in ToSet(b) \/ \E c \in Actors \ {a} : x \in ToSet(h[c])
    BY <1>1
  <2> QED
    BY <2>1 DEF Others, InHandsOf
<1>4. Others(h, a) \cap ToSet(h[a]) = {}
  BY DEF Others, Distinct
<1>5. ASSUME Others(h, a) \cap ToSet(b) = {} PROVE Distinct(k)
  <2>1. \A c \in Actors \ {a} : ToSet(h[c]) \cap ToSet(b) = {}
    BY <1>5 DEF Others
  <2> QED
    BY <1>1, <2>1 DEF Distinct
<1> QED
  BY <1>2, <1>3, <1>4, <1>5

(* InOnePlace, place by place.                                              *)
Apart(P, H, Q, E, L) ==
  /\ P \cap H = {} /\ P \cap Q = {} /\ P \cap E = {} /\ P \cap L = {}
  /\ H \cap Q = {} /\ H \cap E = {} /\ H \cap L = {}
  /\ Q \cap E = {} /\ Q \cap L = {} /\ E \cap L = {}

LEMMA FivePlaces ==
  ASSUME NEW P, NEW H, NEW Q, NEW E, NEW L
  PROVE  LET p == <<P, H, Q, E, L>> IN
         /\ UNION ToSet(p) = P \cup H \cup Q \cup E \cup L
         /\ (\A i, j \in DOMAIN p : i # j => p[i] \cap p[j] = {}) <=> Apart(P, H, Q, E, L)
<1> DEFINE p == <<P, H, Q, E, L>>
<1>1. DOMAIN p = {1, 2, 3, 4, 5}
  OBVIOUS
<1>2. p[1] = P /\ p[2] = H /\ p[3] = Q /\ p[4] = E /\ p[5] = L
  OBVIOUS
<1> HIDE DEF p
<1>3. ToSet(p) = {P, H, Q, E, L}
  BY <1>1, <1>2 DEF ToSet
<1>4. UNION ToSet(p) = P \cup H \cup Q \cup E \cup L
  BY <1>3
<1>5. ASSUME \A i, j \in DOMAIN p : i # j => p[i] \cap p[j] = {} PROVE Apart(P, H, Q, E, L)
  <2>1. \A i, j \in {1, 2, 3, 4, 5} : i # j => p[i] \cap p[j] = {}
    BY <1>1, <1>5
  <2> QED
    BY <1>2, <2>1 DEF Apart
<1>6. ASSUME Apart(P, H, Q, E, L) PROVE \A i, j \in DOMAIN p : i # j => p[i] \cap p[j] = {}
  BY <1>1, <1>2, <1>6 DEF Apart
<1> QED
  BY <1>4, <1>5, <1>6 DEF p

Once(p, h, q, e, l, f) ==
  LET H == InHandsOf(h)
      Q == InAll(q)
  IN
  /\ f = ToSet(p) \cup H \cup Q \cup ToSet(e) \cup ToSet(l)
  /\ Apart(ToSet(p), H, Q, ToSet(e), ToSet(l))
  /\ Distinct(h)
  /\ \A i, j \in DOMAIN q : i # j => ToSet(q[i]) \cap ToSet(q[j]) = {}
  /\ IsInjective(p) /\ IsInjective(e) /\ IsInjective(l)
  /\ \A a \in Actors : IsInjective(h[a])
  /\ \A i \in DOMAIN q : IsInjective(q[i])

LEMMA OnceIsOnePlace ==
  ASSUME NEW p, NEW h, NEW q, NEW e, NEW l, NEW f
  PROVE  LET H == InHandsOf(h)
             Q == InAll(q)
             x == <<ToSet(p), H, Q, ToSet(e), ToSet(l)>>
         IN  Once(p, h, q, e, l, f) <=>
               /\ f = UNION ToSet(x)
               /\ \A i, j \in DOMAIN x : i # j => x[i] \cap x[j] = {}
               /\ \A a, b \in Actors : a # b => ToSet(h[a]) \cap ToSet(h[b]) = {}
               /\ \A i, j \in DOMAIN q : i # j => ToSet(q[i]) \cap ToSet(q[j]) = {}
               /\ \A s \in {p, e, l} \cup ToSet(q) \cup {h[a] : a \in Actors} : IsInjective(s)
<1> DEFINE H == InHandsOf(h)
           Q == InAll(q)
           x == <<ToSet(p), H, Q, ToSet(e), ToSet(l)>>
<1>1. /\ UNION ToSet(x) = ToSet(p) \cup H \cup Q \cup ToSet(e) \cup ToSet(l)
      /\ (\A i, j \in DOMAIN x : i # j => x[i] \cap x[j] = {}) <=>
           Apart(ToSet(p), H, Q, ToSet(e), ToSet(l))
  BY FivePlaces
<1>2. (\A s \in {p, e, l} \cup ToSet(q) \cup {h[a] : a \in Actors} : IsInjective(s)) <=>
        /\ IsInjective(p) /\ IsInjective(e) /\ IsInjective(l)
        /\ \A a \in Actors : IsInjective(h[a])
        /\ \A i \in DOMAIN q : IsInjective(q[i])
  BY DEF ToSet
<1>3. Once(p, h, q, e, l, f) <=>
        /\ f = ToSet(p) \cup H \cup Q \cup ToSet(e) \cup ToSet(l)
        /\ Apart(ToSet(p), H, Q, ToSet(e), ToSet(l))
        /\ Distinct(h)
        /\ \A i, j \in DOMAIN q : i # j => ToSet(q[i]) \cap ToSet(q[j]) = {}
        /\ IsInjective(p) /\ IsInjective(e) /\ IsInjective(l)
        /\ \A a \in Actors : IsInjective(h[a])
        /\ \A i \in DOMAIN q : IsInjective(q[i])
  BY DEF Once
<1> HIDE DEF H, Q, x
<1>4. Once(p, h, q, e, l, f) <=>
        /\ f = UNION ToSet(x)
        /\ \A i, j \in DOMAIN x : i # j => x[i] \cap x[j] = {}
        /\ \A a, b \in Actors : a # b => ToSet(h[a]) \cap ToSet(h[b]) = {}
        /\ \A i, j \in DOMAIN q : i # j => ToSet(q[i]) \cap ToSet(q[j]) = {}
        /\ \A s \in {p, e, l} \cup ToSet(q) \cup {h[a] : a \in Actors} : IsInjective(s)
  BY <1>1, <1>2, <1>3, Zenon DEF Distinct
<1> QED
  BY <1>4 DEF H, Q, x

-----------------------------------------------------------------------------
(* The inductive invariant: every step moves whole batches.                 *)
OneInv == Once(pending, held, queue, emitting.batch, logged, found)

LEMMA OneInit == Init => OneInv
<1> SUFFICES ASSUME Init PROVE OneInv
  OBVIOUS
<1>1. /\ ToSet(<<>>) = {} /\ IsInjective(<<>>)
      /\ pending = <<>> /\ queue = <<>> /\ emitting.batch = <<>> /\ logged = <<>> /\ found = {}
      /\ \A a \in Actors : held[a] = <<>>
  BY DEF Init, ToSet, IsInjective
<1>2. InHandsOf(held) = {}
  BY <1>1 DEF InHandsOf
<1>3. DOMAIN queue = {} /\ InAll(queue) = {}
  BY <1>1 DEF InAll
<1> QED
  BY <1>1, <1>2, <1>3 DEF OneInv, Once, Apart, Distinct

(* A batch is taken from what is pending, with or without one more file.    *)
LEMMA TakeKeeps ==
  ASSUME TypeOK, InStep, OneInv, NEW a \in Actors, pc[a] = "idle",
         NEW b \in Seq(Files), IsInjective(b),
         Take(a, b), UNCHANGED <<queue, emitting, logged>>,
         \/ ToSet(b) = ToSet(pending) /\ found' = found
         \/ \E f \in Files \ found : /\ ToSet(b) = ToSet(pending) \cup {f}
                                     /\ found' = found \cup {f}
  PROVE  OneInv'
<1> DEFINE H == InHandsOf(held)
           Q == InAll(queue)
           H2 == InHandsOf(held')
<1>1. held[a] = <<>> /\ ToSet(held[a]) = {} /\ pending' = <<>> /\ ToSet(pending') = {}
      /\ IsInjective(pending')
  BY DEF InStep, Take, ToSet, IsInjective
<1>2. held' = [held EXCEPT ![a] = b] /\ held \in [Actors -> Batches]
  BY DEF Take, TypeOK
<1>3. /\ found = ToSet(pending) \cup H \cup Q \cup ToSet(emitting.batch) \cup ToSet(logged)
      /\ Apart(ToSet(pending), H, Q, ToSet(emitting.batch), ToSet(logged))
      /\ Distinct(held)
      /\ \A i, j \in DOMAIN queue : i # j => ToSet(queue[i]) \cap ToSet(queue[j]) = {}
      /\ IsInjective(emitting.batch) /\ IsInjective(logged)
      /\ \A c \in Actors : IsInjective(held[c])
      /\ \A i \in DOMAIN queue : IsInjective(queue[i])
  BY DEF OneInv, Once
<1>4. /\ H = Others(held, a) /\ H2 = Others(held, a) \cup ToSet(b)
      /\ Others(held, a) \cap ToSet(b) = {} => Distinct(held')
  <2>1. Distinct(held) /\ held' \in {[held EXCEPT ![a] = b]}
    BY <1>2, <1>3
  <2>2. /\ H = Others(held, a) \cup ToSet(held[a])
        /\ H2 = Others(held, a) \cup ToSet(b)
        /\ Others(held, a) \cap ToSet(held[a]) = {}
        /\ Others(held, a) \cap ToSet(b) = {} => Distinct(held')
    BY <1>1, <1>2, <2>1, HandsSet
  <2> QED
    BY <1>1, <1>2, <2>2
<1> HIDE DEF H, Q, H2
<1>5. ToSet(b) \cap (H \cup Q \cup ToSet(emitting.batch) \cup ToSet(logged)) = {}
  BY <1>3 DEF Apart
<1>6. found' = ToSet(pending') \cup H2 \cup Q \cup ToSet(emitting.batch) \cup ToSet(logged)
  BY <1>1, <1>3, <1>4
<1>7. Apart(ToSet(pending'), H2, Q, ToSet(emitting.batch), ToSet(logged))
  BY <1>1, <1>3, <1>4, <1>5 DEF Apart
<1>8. Distinct(held') /\ \A c \in Actors : IsInjective(held'[c])
  BY <1>2, <1>3, <1>4, <1>5
<1> QED
  BY <1>1, <1>3, <1>6, <1>7, <1>8 DEF OneInv, Once, H2, Q

(* A batch leaves the hands of a goroutine.                                 *)
LEMMA LeaveKeeps ==
  ASSUME TypeOK, OneInv, NEW a \in Actors, held' = [held EXCEPT ![a] = <<>>],
         UNCHANGED <<pending, emitting, found>>,
         \/ queue' = Append(queue, held[a]) /\ UNCHANGED logged
         \/ logged' = logged \o held[a] /\ UNCHANGED queue
  PROVE  OneInv'
<1> DEFINE H == InHandsOf(held)
           Q == InAll(queue)
           H2 == InHandsOf(held')
           Q2 == InAll(queue')
           B == ToSet(held[a])
           O == Others(held, a)
<1>1. /\ held \in [Actors -> Batches] /\ held[a] \in Seq(Files) /\ logged \in Seq(Files)
      /\ queue \in Seq(Seq(Files))
  BY DEF TypeOK, Batches
<1>2. ToSet(<<>>) = {} /\ IsInjective(<<>>)
  BY DEF ToSet, IsInjective
<1>3. /\ found = ToSet(pending) \cup H \cup Q \cup ToSet(emitting.batch) \cup ToSet(logged)
      /\ Apart(ToSet(pending), H, Q, ToSet(emitting.batch), ToSet(logged))
      /\ Distinct(held)
      /\ \A i, j \in DOMAIN queue : i # j => ToSet(queue[i]) \cap ToSet(queue[j]) = {}
      /\ IsInjective(pending) /\ IsInjective(emitting.batch) /\ IsInjective(logged)
      /\ \A c \in Actors : IsInjective(held[c])
      /\ \A i \in DOMAIN queue : IsInjective(queue[i])
  BY DEF OneInv, Once
<1>4. H = O \cup B /\ H2 = O /\ O \cap B = {} /\ Distinct(held')
  <2>1. Distinct(held) /\ held' \in {[held EXCEPT ![a] = <<>>]}
    BY <1>2, <1>3
  <2>2. /\ H = Others(held, a) \cup ToSet(held[a])
        /\ H2 = Others(held, a) \cup ToSet(<<>>)
        /\ Others(held, a) \cap ToSet(held[a]) = {}
        /\ Others(held, a) \cap ToSet(<<>>) = {} => Distinct(held')
    BY <1>1, <1>2, <2>1, HandsSet
  <2> QED
    BY <1>1, <1>2, <2>2
<1>5. \A c \in Actors : IsInjective(held'[c])
  BY <1>1, <1>2, <1>3
<1>6. CASE queue' = Append(queue, held[a]) /\ UNCHANGED logged
  <2>1. /\ \A i \in DOMAIN queue' :
             queue'[i] = IF i = Len(queue) + 1 THEN held[a] ELSE queue[i]
        /\ DOMAIN queue' = DOMAIN queue \cup {Len(queue) + 1} /\ Len(queue) + 1 \notin DOMAIN queue
        /\ Q2 = Q \cup B
    BY <1>1, <1>6, EnqueueSet
  <2>2. \A i \in DOMAIN queue : ToSet(queue[i]) \subseteq Q
    BY DEF InAll
  <2> HIDE DEF H, Q, H2, Q2, B, O
  <2>3. Q \cap B = {}
    BY <1>3, <1>4 DEF Apart
  <2>4. \A i, j \in DOMAIN queue' : i # j => ToSet(queue'[i]) \cap ToSet(queue'[j]) = {}
    <3> SUFFICES ASSUME NEW i \in DOMAIN queue', NEW j \in DOMAIN queue', i # j
                 PROVE  ToSet(queue'[i]) \cap ToSet(queue'[j]) = {}
      OBVIOUS
    <3>1. CASE i # Len(queue) + 1 /\ j # Len(queue) + 1
      BY <1>3, <2>1, <3>1
    <3>2. CASE i = Len(queue) + 1
      <4>1. queue'[i] = held[a] /\ j \in DOMAIN queue /\ queue'[j] = queue[j]
        BY <2>1, <3>2
      <4> QED
        BY <2>2, <2>3, <4>1 DEF B
    <3>3. CASE j = Len(queue) + 1
      <4>1. queue'[j] = held[a] /\ i \in DOMAIN queue /\ queue'[i] = queue[i]
        BY <2>1, <3>3
      <4> QED
        BY <2>2, <2>3, <4>1 DEF B
    <3> QED
      BY <3>1, <3>2, <3>3
  <2>5. \A i \in DOMAIN queue' : IsInjective(queue'[i])
    BY <1>3, <2>1
  <2>6. found' = ToSet(pending) \cup H2 \cup Q2 \cup ToSet(emitting.batch) \cup ToSet(logged)
    BY <1>3, <1>4, <2>1
  <2>7. Apart(ToSet(pending), H2, Q2, ToSet(emitting.batch), ToSet(logged))
    BY <1>3, <1>4, <2>1 DEF Apart
  <2> QED
    BY <1>3, <1>4, <1>5, <1>6, <2>4, <2>5, <2>6, <2>7 DEF OneInv, Once, H2, Q2
<1>7. CASE logged' = logged \o held[a] /\ UNCHANGED queue
  <2>1. /\ ToSet(logged') = ToSet(logged) \cup B
        /\ ToSet(logged) \cap B = {} => IsInjective(logged')
    BY <1>1, <1>3, <1>7, ConcatSet
  <2> HIDE DEF H, Q, H2, Q2, B, O
  <2>2. IsInjective(logged')
    BY <1>3, <1>4, <2>1 DEF Apart
  <2>3. found' = ToSet(pending) \cup H2 \cup Q \cup ToSet(emitting.batch) \cup ToSet(logged')
    BY <1>3, <1>4, <2>1
  <2>4. Apart(ToSet(pending), H2, Q, ToSet(emitting.batch), ToSet(logged'))
    BY <1>3, <1>4, <2>1 DEF Apart
  <2> QED
    BY <1>3, <1>4, <1>5, <1>7, <2>2, <2>3, <2>4 DEF OneInv, Once, H2, Q
<1> QED
  BY <1>6, <1>7

(* The emitter takes a batch out of the channel, or has one written.        *)
LEMMA EmitterKeeps ==
  ASSUME TypeOK, OneInv, Receive \/ EmitterLog PROVE OneInv'
<1> DEFINE H == InHandsOf(held)
           Q == InAll(queue)
           Q2 == InAll(queue')
           E == ToSet(emitting.batch)
<1>1. /\ logged \in Seq(Files) /\ emitting.batch \in Seq(Files) /\ queue \in Seq(Seq(Files))
  BY DEF TypeOK, Batches
<1>2. ToSet(<<>>) = {} /\ IsInjective(<<>>)
  BY DEF ToSet, IsInjective
<1>3. /\ found = ToSet(pending) \cup H \cup Q \cup E \cup ToSet(logged)
      /\ Apart(ToSet(pending), H, Q, E, ToSet(logged))
      /\ Distinct(held)
      /\ \A i, j \in DOMAIN queue : i # j => ToSet(queue[i]) \cap ToSet(queue[j]) = {}
      /\ IsInjective(pending) /\ IsInjective(emitting.batch) /\ IsInjective(logged)
      /\ \A c \in Actors : IsInjective(held[c])
      /\ \A i \in DOMAIN queue : IsInjective(queue[i])
  BY DEF OneInv, Once
<1>4. CASE Receive
  <2>1. /\ queue # <<>> /\ queue' = Tail(queue) /\ emitting'.batch = Head(queue) /\ E = {}
        /\ UNCHANGED <<pending, held, found, logged>>
    BY <1>2, <1>4 DEF Receive
  <2>2. /\ 1 \in DOMAIN queue /\ Head(queue) = queue[1]
        /\ \A i \in DOMAIN queue' :
             i + 1 \in DOMAIN queue /\ i + 1 # 1 /\ queue'[i] = queue[i + 1]
        /\ Q = ToSet(Head(queue)) \cup Q2
        /\ queue' \in Seq(Seq(Files))
    BY <1>1, <2>1, DequeueSet
  <2>3. \A i, j \in DOMAIN queue' : i # j => ToSet(queue'[i]) \cap ToSet(queue'[j]) = {}
    <3> SUFFICES ASSUME NEW i \in DOMAIN queue', NEW j \in DOMAIN queue', i # j
                 PROVE  ToSet(queue'[i]) \cap ToSet(queue'[j]) = {}
      OBVIOUS
    <3>1. i + 1 # j + 1
      BY <2>2
    <3> QED
      BY <1>3, <2>2, <3>1
  <2>4. ToSet(Head(queue)) \cap Q2 = {}
    BY <1>3, <2>2 DEF InAll
  <2>5. IsInjective(emitting'.batch) /\ \A i \in DOMAIN queue' : IsInjective(queue'[i])
    BY <1>3, <2>1, <2>2
  <2> HIDE DEF H, Q, Q2, E
  <2>6. found' = ToSet(pending) \cup H \cup Q2 \cup ToSet(emitting'.batch) \cup ToSet(logged)
    BY <1>3, <2>1, <2>2
  <2>7. Apart(ToSet(pending), H, Q2, ToSet(emitting'.batch), ToSet(logged))
    BY <1>3, <2>1, <2>2, <2>4 DEF Apart
  <2> QED
    BY <1>3, <2>1, <2>3, <2>5, <2>6, <2>7 DEF OneInv, Once, H, Q2
<1>5. CASE EmitterLog
  <2>1. /\ logged' = logged \o emitting.batch /\ emitting'.batch = <<>>
        /\ UNCHANGED <<pending, queue, held, found>>
    BY <1>5 DEF EmitterLog
  <2>2. /\ ToSet(logged') = ToSet(logged) \cup E
        /\ ToSet(logged) \cap E = {} => IsInjective(logged')
    BY <1>1, <1>3, <2>1, ConcatSet
  <2> HIDE DEF H, Q, Q2, E
  <2>3. IsInjective(logged')
    BY <1>3, <2>2 DEF Apart
  <2>4. found' = ToSet(pending) \cup H \cup Q \cup ToSet(emitting'.batch) \cup ToSet(logged')
    BY <1>2, <1>3, <2>1, <2>2
  <2>5. Apart(ToSet(pending), H, Q, ToSet(emitting'.batch), ToSet(logged'))
    BY <1>2, <1>3, <2>1, <2>2 DEF Apart
  <2> QED
    BY <1>2, <1>3, <2>1, <2>3, <2>4, <2>5 DEF OneInv, Once, H, Q
<1> QED
  BY <1>4, <1>5

-----------------------------------------------------------------------------
LEMMA TypeNext == ASSUME TypeOK, InStep, [Next]_vars PROVE TypeOK' /\ InStep'
<1> USE SizesAssumption DEF TypeOK, InStep, Batches
<1>1. ASSUME NEW w \in Workers, NEW f \in Files, Add(w, f) PROVE TypeOK' /\ InStep'
  <2>1. /\ w \in Actors /\ Append(pending, f) \in Seq(Files)
        /\ Append(pending, f) # <<>> /\ Len(Append(pending, f)) = Len(pending) + 1
    BY AppendProperties DEF Actors
  <2>2. CASE Take(w, Append(pending, f))
    <3>1. /\ pending' = <<>> /\ held' = [held EXCEPT ![w] = Append(pending, f)]
          /\ pc' = [pc EXCEPT ![w] = "emit"] /\ found' = found \cup {f}
          /\ UNCHANGED <<queue, emitting, phase, shown, logged>>
      BY <1>1, <2>2 DEF Add, Take
    <3>2. Len(Append(pending, f)) <= BatchSize
      BY <2>1
    <3> QED
      BY <2>1, <3>1, <3>2
  <2>3. CASE Len(pending) + 1 < BatchSize /\ pending' = Append(pending, f) /\ UNCHANGED <<held, pc>>
    BY <1>1, <2>1, <2>3 DEF Add
  <2> QED
    BY <1>1, <2>2, <2>3 DEF Add
<1>2. CASE Flush(Closer)
  BY <1>2 DEF Flush, Take, Actors
<1>3. ASSUME NEW a \in Actors, Enqueue(a) PROVE TypeOK' /\ InStep'
  <2>1. /\ Append(queue, held[a]) \in Seq(Seq(Files))
        /\ Len(Append(queue, held[a])) = Len(queue) + 1
    OBVIOUS
  <2>2. Len(queue) + 1 <= QueueSize
    BY <1>3 DEF Enqueue
  <2> QED
    BY <1>3, <2>1, <2>2 DEF Enqueue
<1>4. ASSUME NEW a \in Actors, Overflow(a) PROVE TypeOK' /\ InStep'
  BY <1>4 DEF Overflow
<1>5. ASSUME NEW a \in Actors, DirectShow(a) PROVE TypeOK' /\ InStep'
  BY <1>5 DEF DirectShow
<1>6. ASSUME NEW a \in Actors, DirectLog(a) PROVE TypeOK' /\ InStep'
  BY <1>6 DEF DirectLog
<1>7. CASE Receive
  <2>1. Tail(queue) \in Seq(Seq(Files)) /\ Len(Tail(queue)) = Len(queue) - 1
        /\ Head(queue) \in Seq(Files)
    BY <1>7, DequeueSet DEF Receive
  <2>2. Len(Tail(queue)) <= QueueSize
    BY <2>1
  <2> QED
    BY <1>7, <2>1, <2>2 DEF Receive
<1>8. CASE EmitterShow
  <2>1. emitting' \in [batch : Batches, shown : BOOLEAN] /\ emitting'.batch = emitting.batch
    BY <1>8 DEF EmitterShow
  <2>2. shown' \in Seq(Files)
    BY <1>8 DEF EmitterShow
  <2> QED
    BY <1>8, <2>1, <2>2 DEF EmitterShow
<1>9. CASE EmitterLog
  BY <1>9 DEF EmitterLog
<1>10. CASE ScanOver
  BY <1>10 DEF ScanOver, Take, Actors
<1>11. CASE Completed
  BY <1>11 DEF Completed
<1>12. CASE UNCHANGED vars
  BY <1>12 DEF vars
<1> QED
  BY <1>1, <1>2, <1>3, <1>4, <1>5, <1>6, <1>7, <1>8, <1>9, <1>10, <1>11, <1>12
  DEF Next, EmitStep, EmitterStep

LEMMA OneNext == ASSUME TypeOK, InStep, OneInv, [Next]_vars PROVE OneInv'
<1>1. ASSUME NEW w \in Workers, NEW f \in Files, Add(w, f) PROVE OneInv'
  <2>1. w \in Actors /\ pending \in Seq(Files) /\ pc[w] = "idle" /\ f \in Files \ found
        /\ found' = found \cup {f} /\ UNCHANGED <<queue, emitting, logged>>
    BY <1>1 DEF Actors, Add, TypeOK, Batches
  <2>2. IsInjective(pending) /\ ToSet(pending) \subseteq found
    BY DEF OneInv, Once
  <2>3. /\ Append(pending, f) \in Seq(Files)
        /\ ToSet(Append(pending, f)) = ToSet(pending) \cup {f} /\ IsInjective(Append(pending, f))
    BY <2>1, <2>2, AppendSet
  <2>4. CASE Take(w, Append(pending, f))
    BY <2>1, <2>3, <2>4, TakeKeeps
  <2>5. CASE pending' = Append(pending, f) /\ UNCHANGED <<held, pc>>
    <3> DEFINE H == InHandsOf(held)
               Q == InAll(queue)
    <3>1. /\ found = ToSet(pending) \cup H \cup Q \cup ToSet(emitting.batch) \cup ToSet(logged)
          /\ Apart(ToSet(pending), H, Q, ToSet(emitting.batch), ToSet(logged))
      BY DEF OneInv, Once
    <3>2. found' = ToSet(pending') \cup H \cup Q \cup ToSet(emitting.batch) \cup ToSet(logged)
      BY <2>1, <2>3, <2>5, <3>1
    <3>3. Apart(ToSet(pending'), H, Q, ToSet(emitting.batch), ToSet(logged))
      BY <2>1, <2>3, <2>5, <3>1 DEF Apart
    <3> QED
      BY <2>1, <2>3, <2>5, <3>2, <3>3 DEF OneInv, Once
  <2> QED
    BY <1>1, <2>4, <2>5 DEF Add
<1>2. ASSUME NEW a \in Actors, pc[a] = "idle", Take(a, pending),
             UNCHANGED <<queue, emitting, found, logged>>
      PROVE  OneInv'
  <2>1. pending \in Seq(Files) /\ IsInjective(pending)
    BY DEF TypeOK, Batches, OneInv, Once
  <2> QED
    BY <1>2, <2>1, TakeKeeps
<1>3. CASE Flush(Closer)
  BY <1>2, <1>3 DEF Flush, Actors
<1>4. ASSUME NEW a \in Actors, Enqueue(a) PROVE OneInv'
  BY <1>4, LeaveKeeps DEF Enqueue
<1>5. ASSUME NEW a \in Actors, Overflow(a) \/ DirectShow(a) PROVE OneInv'
  BY <1>5 DEF Overflow, DirectShow, OneInv
<1>6. ASSUME NEW a \in Actors, DirectLog(a) PROVE OneInv'
  BY <1>6, LeaveKeeps DEF DirectLog
<1>7. CASE Receive \/ EmitterLog
  BY <1>7, EmitterKeeps
<1>8. CASE EmitterShow
  <2>1. emitting'.batch = emitting.batch /\ UNCHANGED <<pending, held, queue, logged, found>>
    BY <1>8 DEF EmitterShow, TypeOK
  <2> QED
    BY <2>1 DEF OneInv
<1>9. CASE ScanOver
  <2>1. CASE pending = <<>>
    BY <1>9, <2>1 DEF ScanOver, OneInv
  <2>2. CASE pending # <<>>
    BY <1>2, <1>9, <2>2 DEF ScanOver, Actors
  <2> QED
    BY <2>1, <2>2
<1>10. CASE Completed
  BY <1>10 DEF Completed, OneInv
<1>11. CASE UNCHANGED vars
  BY <1>11 DEF vars, OneInv
<1> QED
  BY <1>1, <1>3, <1>4, <1>5, <1>6, <1>7, <1>8, <1>9, <1>10, <1>11
  DEF Next, EmitStep, EmitterStep

(* What is about to be written to the log has been shown, and what has been *)
(* shown and is not in the log is about to be written.                      *)
ShownInv ==
  /\ ShownBeforeLogged
  /\ emitting.shown => ToSet(emitting.batch) \subseteq ToSet(shown)
  /\ \A a \in Actors : pc[a] = "log" => ToSet(held[a]) \subseteq ToSet(shown)

LEMMA ShownNext == ASSUME TypeOK, InStep, ShownInv, [Next]_vars PROVE ShownInv'
<1> USE DEF ShownInv, ShownBeforeLogged
<1>0. /\ shown \in Seq(Files) /\ logged \in Seq(Files) /\ emitting.batch \in Seq(Files)
      /\ held \in [Actors -> Seq(Files)] /\ pc \in [Actors -> {"idle", "emit", "show", "log"}]
  BY DEF TypeOK, Batches
<1>1. ASSUME NEW a \in Actors, NEW b, Take(a, b), pc[a] = "idle",
             UNCHANGED <<emitting, shown, logged>>
      PROVE  ShownInv'
  <2>1. \A c \in Actors : pc'[c] = "log" <=> pc[c] = "log"
    BY <1>0, <1>1 DEF Take
  <2>2. \A c \in Actors : pc[c] = "log" => held'[c] = held[c]
    BY <1>0, <1>1 DEF Take
  <2> QED
    BY <1>1, <2>1, <2>2
<1>2. ASSUME NEW w \in Workers, NEW f \in Files, Add(w, f) PROVE ShownInv'
  <2>1. CASE Take(w, Append(pending, f))
    BY <1>1, <1>2, <2>1 DEF Add, Actors
  <2>2. CASE UNCHANGED <<held, pc>>
    BY <1>2, <2>2 DEF Add
  <2> QED
    BY <1>2, <2>1, <2>2 DEF Add
<1>3. CASE Flush(Closer)
  BY <1>1, <1>3 DEF Flush, Actors
<1>4. ASSUME NEW a \in Actors, Enqueue(a) PROVE ShownInv'
  <2>1. \A c \in Actors : pc'[c] = "log" => pc[c] = "log" /\ held'[c] = held[c]
    BY <1>0, <1>4 DEF Enqueue
  <2>2. \A c \in Actors : pc[c] = "log" => pc'[c] = "log"
    BY <1>0, <1>4 DEF Enqueue
  <2> QED
    BY <1>4, <2>1, <2>2 DEF Enqueue
<1>5. ASSUME NEW a \in Actors, Overflow(a) PROVE ShownInv'
  <2>1. \A c \in Actors : pc'[c] = "log" <=> pc[c] = "log"
    BY <1>0, <1>5 DEF Overflow
  <2> QED
    BY <1>5, <2>1 DEF Overflow
<1>6. ASSUME NEW a \in Actors, DirectShow(a) PROVE ShownInv'
  <2>1. ToSet(shown') = ToSet(shown) \cup ToSet(held[a])
    BY <1>0, <1>6, ConcatSet DEF DirectShow
  <2>2. pc'[a] = "log" /\ \A c \in Actors \ {a} : pc'[c] = pc[c]
    BY <1>0, <1>6 DEF DirectShow
  <2>3. pc[a] = "show" /\ UNCHANGED <<held, emitting, logged>>
    BY <1>6 DEF DirectShow
  <2>4. ShownBeforeLogged'
    BY <2>1, <2>2, <2>3
  <2> QED
    BY <2>1, <2>2, <2>3, <2>4
<1>7. ASSUME NEW a \in Actors, DirectLog(a) PROVE ShownInv'
  <2>1. ToSet(logged') = ToSet(logged) \cup ToSet(held[a])
    BY <1>0, <1>7, ConcatSet DEF DirectLog
  <2>2. pc'[a] = "idle" /\ \A c \in Actors \ {a} : pc'[c] = pc[c] /\ held'[c] = held[c]
    BY <1>0, <1>7 DEF DirectLog
  <2>3. pc[a] = "log" /\ UNCHANGED <<shown, emitting>>
    BY <1>7 DEF DirectLog
  <2>4. ShownBeforeLogged'
    BY <2>1, <2>2, <2>3
  <2> QED
    BY <2>2, <2>3, <2>4
<1>8. CASE Receive
  <2>1. emitting.batch = <<>> /\ ~emitting'.shown /\ UNCHANGED <<pc, held, shown, logged>>
    BY <1>8 DEF Receive
  <2>2. ~emitting.shown
    BY <2>1 DEF InStep
  <2> QED
    BY <2>1, <2>2
<1>9. CASE EmitterShow
  <2>1. /\ ToSet(shown') = ToSet(shown) \cup ToSet(emitting.batch)
        /\ UNCHANGED <<pc, held, logged>>
    BY <1>0, <1>9, ConcatSet DEF EmitterShow
  <2>2. ~emitting.shown /\ emitting'.shown /\ emitting'.batch = emitting.batch
    BY <1>9 DEF EmitterShow, TypeOK
  <2> QED
    BY <2>1, <2>2
<1>10. CASE EmitterLog
  <2>1. /\ ToSet(logged') = ToSet(logged) \cup ToSet(emitting.batch)
        /\ UNCHANGED <<pc, held, shown>>
    BY <1>0, <1>10, ConcatSet DEF EmitterLog
  <2>2. emitting.shown /\ ~emitting'.shown
    BY <1>10 DEF EmitterLog
  <2> QED
    BY <2>1, <2>2
<1>11. CASE ScanOver
  <2>1. CASE pending = <<>>
    BY <1>11, <2>1 DEF ScanOver
  <2>2. CASE pending # <<>>
    BY <1>1, <1>11, <2>2 DEF ScanOver, Actors
  <2> QED
    BY <2>1, <2>2
<1>12. CASE Completed
  BY <1>12 DEF Completed
<1>13. CASE UNCHANGED vars
  BY <1>13 DEF vars
<1> QED
  BY <1>2, <1>3, <1>4, <1>5, <1>6, <1>7, <1>8, <1>9, <1>10, <1>11, <1>12, <1>13
  DEF Next, EmitStep, EmitterStep

LEMMA Invariant == Spec => [](TypeOK /\ InStep /\ OneInv /\ ShownInv)
<1>1. Init => TypeOK /\ InStep /\ OneInv /\ ShownInv
  <2>1. Init => ShownInv
    BY DEF Init, ShownInv, ShownBeforeLogged, ToSet
  <2> QED
    BY <2>1, TypeInit, OneInit
<1>2. TypeOK /\ InStep /\ OneInv /\ ShownInv /\ [Next]_vars =>
        (TypeOK /\ InStep /\ OneInv /\ ShownInv)'
  BY TypeNext, OneNext, ShownNext
<1> QED
  BY <1>1, <1>2, PTL DEF Spec

(* Every reachable state of the pipeline is well typed: no batch is larger  *)
(* than BatchSize and the channel never holds more than its capacity.       *)
THEOREM TypeCorrect == Spec => []TypeOK
BY Invariant, PTL

(* Each file that was found is in exactly one place on its way to the log,  *)
(* for any number of goroutines and any size of batches and channel.        *)
THEOREM NoneLostOrDoubled == Spec => []InOnePlace
<1>1. OneInv => InOnePlace
  BY OnceIsOnePlace DEF OneInv, InOnePlace, Places, InHands, Queued, InAll, InHandsOf
<1> QED
  BY <1>1, Invariant, PTL

(* The front end hears of a file before the log has it, and what it has     *)
(* heard of and the log has not is in a batch about to be appended.         *)
THEOREM LogFollowsFrontEnd == Spec => []ShownBeforeLogged
<1>1. ShownInv => ShownBeforeLogged
  BY DEF ShownInv
<1> QED
  BY <1>1, Invariant, PTL

(* The pipeline implements FoundDelivery: the log only grows, by files that *)
(* were found and that it did not have.                                     *)
THEOREM PipelineDelivers == Spec => ImplementsDelivery
<1>1. Init => Delivery!Init
  BY DEF Init, Delivery!Init
<1>2. ASSUME TypeOK, InStep, OneInv, OneInv', [Next]_vars
      PROVE  [Delivery!Next]_<<found, logged>>
  <2>1. IsInjective(logged') /\ ToSet(logged') \subseteq found'
    BY <1>2 DEF OneInv, Once
  <2>2. ASSUME NEW b \in Seq(Files), b # <<>>, logged' = logged \o b, found' = found
        PROVE  Delivery!Write
    <3>1. IsStrictPrefix(logged, logged')
      BY <1>2, <2>2, ConcatSet DEF TypeOK, Batches
    <3> QED
      BY <2>1, <2>2, <3>1
      DEF Delivery!Write, Delivery!IsStrictPrefix, Delivery!IsPrefix, Delivery!IsInjective,
          Delivery!ToSet, IsStrictPrefix, IsPrefix, IsInjective, ToSet
  <2>3. ASSUME NEW w \in Workers, NEW f \in Files, Add(w, f) PROVE Delivery!Find(f)
    BY <2>3 DEF Add, Delivery!Find
  <2>4. ASSUME NEW a \in Actors, DirectLog(a) PROVE Delivery!Write
    <3>1. held[a] \in Seq(Files) /\ held[a] # <<>>
      BY <1>2, <2>4 DEF DirectLog, TypeOK, Batches, InStep
    <3> QED
      BY <2>2, <2>4, <3>1 DEF DirectLog
  <2>5. ASSUME EmitterLog PROVE Delivery!Write
    <3>1. emitting.batch \in Seq(Files) /\ emitting.batch # <<>>
      BY <1>2, <2>5 DEF EmitterLog, TypeOK, Batches, InStep
    <3> QED
      BY <2>2, <2>5, <3>1 DEF EmitterLog
  <2>6. ASSUME NEW a \in Actors, Enqueue(a) \/ Overflow(a) \/ DirectShow(a)
        PROVE  UNCHANGED <<found, logged>>
    BY <2>6 DEF Enqueue, Overflow, DirectShow
  <2>7. ASSUME Flush(Closer) \/ Receive \/ EmitterShow \/ ScanOver \/ Completed \/ UNCHANGED vars
        PROVE  UNCHANGED <<found, logged>>
    BY <2>7 DEF Flush, Receive, EmitterShow, ScanOver, Completed, vars
  <2> QED
    BY <1>2, <2>3, <2>4, <2>5, <2>6, <2>7 DEF Next, EmitStep, EmitterStep, Delivery!Next
<1> QED
  BY <1>1, <1>2, Invariant, PTL DEF Spec, ImplementsDelivery, Delivery!Spec

-----------------------------------------------------------------------------
(* Nothing is left pending when the scan is over: its last flush takes what *)
(* there is, and no file is added afterwards.                               *)
Emptied == phase # "running" => pending = <<>>

LEMMA EmptiedInvariance == Spec => []Emptied
<1>1. Init => Emptied
  BY DEF Init, Emptied
<1>2. ASSUME Emptied, [Next]_vars PROVE Emptied'
  <2>1. ASSUME NEW w \in Workers, NEW f \in Files, Add(w, f) PROVE Emptied'
    BY <2>1 DEF Add, Emptied
  <2>2. CASE Flush(Closer)
    BY <1>2, <2>2 DEF Flush, Take, Emptied
  <2>3. ASSUME NEW a \in Actors, EmitStep(a) PROVE Emptied'
    BY <1>2, <2>3 DEF EmitStep, Enqueue, Overflow, DirectShow, DirectLog, Emptied
  <2>4. CASE EmitterStep \/ Completed \/ UNCHANGED vars
    BY <1>2, <2>4 DEF EmitterStep, Receive, EmitterShow, EmitterLog, Completed, vars, Emptied
  <2>5. CASE ScanOver
    BY <2>5 DEF ScanOver, Take, Emptied
  <2> QED
    BY <1>2, <2>1, <2>2, <2>3, <2>4, <2>5 DEF Next
<1> QED
  BY <1>1, <1>2, PTL DEF Spec

(* When a goroutine can go.  One that has a batch never waits: if the       *)
(* channel is full it emits on the spot.                                    *)
ActorGoes(a) ==
  \/ pc[a] = "emit" /\ (Len(queue) < QueueSize \/ Len(queue) = QueueSize)
  \/ pc[a] \in {"show", "log"}
EmitterGoes ==
  \/ emitting.batch = <<>> /\ queue # <<>>
  \/ emitting.batch # <<>> /\ ~emitting.shown
  \/ emitting.shown
ScanGoes ==
  \/ phase = "running" /\ (\A w \in Workers : pc[w] = "idle") /\ pc[Scanner] = "idle"
  \/ phase = "flushing" /\ pc[Scanner] = "idle"
SomeoneGoes == EmitterGoes \/ ScanGoes \/ \E a \in Actors : ActorGoes(a)

(* When nobody can go on, the scan is over and the log and the front end    *)
(* have every file that was found: no goroutine waits forever on the        *)
(* channel, and none comes to rest with a file in its hands.                *)
EndsComplete ==
  SomeoneGoes \/ (phase = "over" /\ found = ToSet(logged) /\ found = ToSet(shown))

THEOREM EndIsComplete == Spec => []EndsComplete
<1>1. ASSUME TypeOK, InStep, OneInv, ShownInv, Emptied, ~SomeoneGoes
      PROVE  phase = "over" /\ found = ToSet(logged) /\ found = ToSet(shown)
  <2>1. \A a \in Actors : pc[a] = "idle"
    <3>1. SUFFICES ASSUME NEW a \in Actors PROVE pc[a] = "idle"
      OBVIOUS
    <3>2. pc[a] \in {"idle", "emit", "show", "log"} /\ Len(queue) <= QueueSize
          /\ Len(queue) \in Nat /\ QueueSize \in Nat
      BY <1>1, SizesAssumption DEF TypeOK
    <3>3. ~ ActorGoes(a)
      BY <1>1 DEF SomeoneGoes
    <3> QED BY <3>2, <3>3 DEF ActorGoes
  <2>2. phase = "over"
    BY <1>1, <2>1 DEF SomeoneGoes, ScanGoes, Actors, TypeOK
  <2>3. emitting.batch = <<>> /\ ~emitting.shown /\ queue = <<>>
    BY <1>1 DEF SomeoneGoes, EmitterGoes
  <2>4. pending = <<>> /\ \A a \in Actors : held[a] = <<>>
    BY <1>1, <2>1, <2>2 DEF Emptied, InStep
  <2>5. ToSet(<<>>) = {}
    BY DEF ToSet
  <2>6. InHandsOf(held) = {}
    BY <2>4, <2>5 DEF InHandsOf
  <2>7. InAll(queue) = {}
    BY <2>3 DEF InAll
  <2>8. found = ToSet(logged)
    BY <1>1, <2>3, <2>4, <2>5, <2>6, <2>7 DEF OneInv, Once
  <2>9. ToSet(shown) = ToSet(logged)
    <3>1. ToSet(logged) \subseteq ToSet(shown)
      BY <1>1 DEF ShownInv, ShownBeforeLogged
    <3>2. \A f \in ToSet(shown) \ ToSet(logged) : FALSE
      BY <1>1, <2>1, <2>3 DEF ShownInv, ShownBeforeLogged
    <3> QED BY <3>1, <3>2
  <2> QED BY <2>2, <2>8, <2>9
<1>2. TypeOK /\ InStep /\ OneInv /\ ShownInv /\ Emptied => EndsComplete
  BY <1>1 DEF EndsComplete
<1> QED
  BY <1>2, Invariant, EmptiedInvariance, PTL

(* What is left to do: for the scan, for a goroutine with a batch, for the  *)
(* emitter.                                                                 *)
PhaseLeft == IF phase = "running" THEN 2 ELSE IF phase = "flushing" THEN 1 ELSE 0
HandLeft(at) == IF at = "emit" THEN 3 ELSE IF at = "show" THEN 2 ELSE IF at = "log" THEN 1 ELSE 0
EmitterLeft == IF emitting.batch = <<>> THEN 0 ELSE IF emitting.shown THEN 1 ELSE 2
LessHeld ==
  /\ \A a \in Actors : HandLeft(pc'[a]) <= HandLeft(pc[a])
  /\ \E a \in Actors : HandLeft(pc'[a]) < HandLeft(pc[a])
(* A stage has less to do, and those before it have as much as they had.    *)
LessLeft ==
  \/ PhaseLeft' < PhaseLeft
  \/ UNCHANGED phase /\ LessHeld
  \/ UNCHANGED <<phase, pc>> /\ Len(queue') < Len(queue)
  \/ UNCHANGED <<phase, pc, queue>> /\ EmitterLeft' < EmitterLeft

LEMMA EmitLowers ==
  ASSUME TypeOK, NEW a \in Actors, EmitStep(a)
  PROVE  LessLeft
<1>1. pc \in [Actors -> {"idle", "emit", "show", "log"}]
  BY DEF TypeOK
<1>2. \E q \in {"idle", "show", "log"} :
        pc' = [pc EXCEPT ![a] = q] /\ HandLeft(q) < HandLeft(pc[a]) /\ UNCHANGED phase
  BY DEF EmitStep, Enqueue, Overflow, DirectShow, DirectLog, HandLeft
<1>3. PICK q \in {"idle", "show", "log"} :
        pc' = [pc EXCEPT ![a] = q] /\ HandLeft(q) < HandLeft(pc[a]) /\ UNCHANGED phase
  BY <1>2
<1>4. \A b \in Actors : pc'[b] = IF b = a THEN q ELSE pc[b]
  BY <1>1, <1>3
<1>5. \A b \in Actors : HandLeft(pc[b]) \in Nat
  BY DEF HandLeft
<1>6. HandLeft(q) \in Nat
  BY DEF HandLeft
<1> HIDE DEF HandLeft
<1>7. LessHeld
  BY <1>3, <1>4, <1>5, <1>6 DEF LessHeld
<1> QED
  BY <1>3, <1>7 DEF LessLeft

LEMMA EmitterLowers ==
  ASSUME TypeOK, InStep, EmitterStep
  PROVE  LessLeft
<1>1. CASE Receive
  <2>1. queue \in Seq(Batches) /\ queue # <<>> /\ queue' = Tail(queue) /\ UNCHANGED <<phase, pc>>
    BY <1>1 DEF Receive, TypeOK
  <2>2. Len(queue') < Len(queue)
    BY <2>1
  <2> QED BY <2>1, <2>2 DEF LessLeft
<1>2. CASE EmitterShow
  <2>1. /\ emitting.batch # <<>> /\ ~emitting.shown /\ emitting' = [emitting EXCEPT !.shown = TRUE]
        /\ UNCHANGED <<phase, pc, queue>> /\ emitting \in [batch : Batches, shown : BOOLEAN]
    BY <1>2 DEF EmitterShow, TypeOK
  <2>2. emitting'.batch = emitting.batch /\ emitting'.shown = TRUE
    BY <2>1
  <2> QED BY <2>1, <2>2 DEF LessLeft, EmitterLeft
<1>3. CASE EmitterLog
  <2>1. /\ emitting.batch # <<>> /\ emitting'.batch = <<>> /\ UNCHANGED <<phase, pc, queue>>
    BY <1>3 DEF EmitterLog, InStep
  <2> QED BY <2>1 DEF LessLeft, EmitterLeft
<1> QED
  BY <1>1, <1>2, <1>3 DEF EmitterStep

(* Every step of a goroutine with a batch and of the emitter leaves less to *)
(* do, and once the scan is over every step does: after the last flush only *)
(* finitely many steps remain, and EndIsComplete says where they end.       *)
THEOREM DeliveryRunsDown ==
  Spec => [][/\ (\E a \in Actors : EmitStep(a)) \/ EmitterStep => LessLeft
             /\ phase # "running" => LessLeft]_vars
<1>1. ASSUME TypeOK, InStep, Emptied, Next, phase # "running" PROVE LessLeft
  <2>1. ASSUME NEW w \in Workers, NEW f \in Files, Add(w, f) PROVE FALSE
    BY <1>1, <2>1 DEF Add
  <2>2. CASE Flush(Closer)
    BY <1>1, <2>2 DEF Flush, Emptied
  <2>3. CASE ScanOver
    BY <1>1, <2>3 DEF ScanOver
  <2>4. CASE Completed
    BY <2>4 DEF Completed, LessLeft, PhaseLeft
  <2> QED
    BY <1>1, <2>1, <2>2, <2>3, <2>4, EmitLowers, EmitterLowers DEF Next
<1>2. TypeOK /\ InStep /\ Emptied /\ [Next]_vars =>
        [/\ (\E a \in Actors : EmitStep(a)) \/ EmitterStep => LessLeft
         /\ phase # "running" => LessLeft]_vars
  BY <1>1, EmitLowers, EmitterLowers
<1> QED
  BY <1>2, Invariant, EmptiedInvariance, PTL DEF Spec
=============================================================================
