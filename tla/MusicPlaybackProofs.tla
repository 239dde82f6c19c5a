------------------------- MODULE MusicPlaybackProofs -------------------------
(***************************************************************************)
(* Theorems about MusicPlayback: no track is lost or doubled, the queue has    *)
(* its worker and the lease its owner, what is shown as paused is paused, and  *)
(* skips and additions are exact, for any number of tracks, errors and wishes.  *)
(***************************************************************************)
EXTENDS MusicPlayback, SequenceTheorems, TLAPS

(* ---- Where the worker is, and what it holds ---- *)

(* Between take_next and the end of _finish_attempt. *)
Attempting == {"resolve", "start", "play", "reset", "acquire", "acquired", "refused", "finish"}

WorkerAgrees ==
    /\ pc \in Attempting => current # Nothing
    /\ pc \in {"off", "take", "drain", "closing"} => current = Nothing
    /\ pc = "close" => closing
    /\ closing => pc \in {"off", "finish", "close", "closing"}
    /\ pc # "finish" => end = "none"
    /\ pc = "drain" => queue = <<>> /\ lock = "worker"
    /\ pc = "closing" => lock = "worker"
    /\ lock = "command" => cmd # "none" /\ next <= MaxItems /\ Fits(cmd)

(* ---- Tracks ---- *)

(* The tracks that wait and the one that is played are all different. *)
TracksApart ==
    /\ IsInjective(queue) /\ IsInjective(history)
    /\ ToSet(queue) \cap ToSet(history) = {}
    /\ current \notin Waiting
    /\ next > 0 /\ \A i \in Here : i < next

(* A track that a user skipped, that failed or that was played is excused, and  *)
(* the end of an attempt leaves out no other.                                    *)
EndsAreExcused ==
    /\ skip => current # Nothing /\ current \in excused
    /\ stopDue => skip
    /\ handle = "stopped" => skip \/ closing
    /\ pc = "finish" /\ end = "none" /\ ~closing => current \in excused
    /\ end = "completed" => current \in excused
    /\ ToSet(history) \subseteq excused

(* ---- The queue, the lease and the pause ---- *)

(* A worker that gave up left because of the voice backend. *)
GaveUp ==
    /\ end = "halt" => failure = "voice" /\ lock # "command"
    /\ pc = "closing" /\ ~closing => failure = "voice"
    /\ pc = "off" /\ ~closing /\ queue # <<>> => failure = "voice"

(* A playback is shown as what it is, but for a pause that is about to be noted. *)
PauseIsNoted ==
    /\ published \/ pausing = "here" => pc \in Attempting \ {"resolve", "start"} \/ closing
    /\ published /\ ~skip /\ pc = "play" /\ handle \in {"playing", "paused"} =>
          IF pausing = "here" THEN handle = "paused" /\ state = "playing"
                              ELSE state = "paused" <=> handle = "paused"

IInv ==
    /\ TypeOK /\ WorkerAgrees /\ TracksApart /\ EndsAreExcused /\ NoTrackLost
    /\ GaveUp /\ LeaseOwned /\ PauseIsNoted

-----------------------------------------------------------------------------
(* ---- Sequences of different tracks ---- *)

(* The empty sequence and the sequence of one track. *)
LEMMA ShortQueues ==
    /\ ToSet(<<>>) = {} /\ IsInjective(<<>>)
    /\ \A x : ToSet(<<x>>) = {x} /\ IsInjective(<<x>>)
<1>1. ToSet(<<>>) = {} /\ IsInjective(<<>>)
  BY DEF ToSet, IsInjective
<1>2. ASSUME NEW x PROVE ToSet(<<x>>) = {x} /\ IsInjective(<<x>>)
  BY DEF ToSet, IsInjective
<1> QED BY <1>1, <1>2

(* Only the empty sequence holds nothing. *)
LEMMA EmptyQueue ==
    ASSUME NEW S, NEW s \in Seq(S)
    PROVE  /\ s # <<>> <=> ToSet(s) # {}
           /\ ToSet(s) \subseteq S
           /\ \A k \in 1 .. Len(s) : s[k] \in ToSet(s)
  BY DEF ToSet

(* Adding a track at the end. *)
LEMMA Appending ==
    ASSUME NEW S, NEW s \in Seq(S), NEW x \in S
    PROVE  /\ Append(s, x) \in Seq(S) /\ Len(Append(s, x)) = Len(s) + 1
           /\ ToSet(Append(s, x)) = ToSet(s) \cup {x}
           /\ IsInjective(s) /\ x \notin ToSet(s) => IsInjective(Append(s, x))
<1> DEFINE t == Append(s, x)
<1>1. /\ t \in Seq(S) /\ Len(t) = Len(s) + 1 /\ t[Len(s) + 1] = x
      /\ \A k \in 1 .. Len(s) : t[k] = s[k]
  OBVIOUS
<1>2. DOMAIN t = 1 .. Len(s) + 1 /\ DOMAIN s = 1 .. Len(s) /\ Len(s) \in Nat
  BY <1>1
<1> HIDE DEF t
<1>3. ToSet(t) = ToSet(s) \cup {x}
  BY <1>1, <1>2 DEF ToSet
<1>4. IsInjective(s) /\ x \notin ToSet(s) => IsInjective(t)
  BY <1>1, <1>2 DEF ToSet, IsInjective
<1> QED BY <1>1, <1>3, <1>4 DEF t

(* Putting a track before the others. *)
LEMMA Heading ==
    ASSUME NEW S, NEW s \in Seq(S), NEW x \in S
    PROVE  /\ <<x>> \o s \in Seq(S) /\ Len(<<x>> \o s) = Len(s) + 1
           /\ ToSet(<<x>> \o s) = ToSet(s) \cup {x}
           /\ IsInjective(s) /\ x \notin ToSet(s) => IsInjective(<<x>> \o s)
<1> DEFINE t == <<x>> \o s
<1>1. /\ t \in Seq(S) /\ Len(t) = Len(s) + 1 /\ t[1] = x
      /\ \A k \in 1 .. Len(s) : t[k + 1] = s[k]
  OBVIOUS
<1>2. DOMAIN t = 1 .. Len(s) + 1 /\ DOMAIN s = 1 .. Len(s) /\ Len(s) \in Nat
  BY <1>1
<1> HIDE DEF t
<1>3. \A k \in DOMAIN t : k = 1 \/ (k - 1 \in DOMAIN s /\ t[k] = s[k - 1])
  <2> SUFFICES ASSUME NEW k \in DOMAIN t, k # 1 PROVE k - 1 \in DOMAIN s /\ t[k] = s[k - 1]
    OBVIOUS
  <2>1. k - 1 \in 1 .. Len(s) /\ (k - 1) + 1 = k
    BY <1>2
  <2> QED BY <2>1, <1>1, <1>2
<1>4. \A k \in DOMAIN s : k + 1 \in DOMAIN t
  BY <1>2
<1>5. ToSet(t) = ToSet(s) \cup {x}
  <2>1. ASSUME NEW k \in DOMAIN t PROVE t[k] \in ToSet(s) \cup {x}
    BY <1>1, <1>3 DEF ToSet
  <2>2. ASSUME NEW k \in DOMAIN s PROVE s[k] \in ToSet(t)
    BY <1>1, <1>2, <1>4 DEF ToSet
  <2>3. x \in ToSet(t)
    BY <1>1, <1>2 DEF ToSet
  <2> QED BY <2>1, <2>2, <2>3 DEF ToSet
<1>6. IsInjective(s) /\ x \notin ToSet(s) => IsInjective(t)
  <2> SUFFICES ASSUME IsInjective(s), x \notin ToSet(s),
                      NEW j \in DOMAIN t, NEW k \in DOMAIN t, t[j] = t[k]
               PROVE  j = k
    BY DEF IsInjective
  <2>1. CASE j = 1 \/ k = 1
    BY <2>1, <1>1, <1>3 DEF ToSet
  <2>2. CASE j # 1 /\ k # 1
    <3>1. j - 1 \in DOMAIN s /\ k - 1 \in DOMAIN s /\ s[j - 1] = s[k - 1]
      BY <2>2, <1>3
    <3>2. j - 1 = k - 1
      BY <3>1 DEF IsInjective
    <3> QED BY <3>2, <1>2
  <2> QED BY <2>1, <2>2
<1> QED BY <1>1, <1>5, <1>6 DEF t

(* Taking one of different tracks out leaves the others. *)
LEMMA Removing ==
    ASSUME NEW S, NEW s \in Seq(S), NEW i \in 1 .. Len(s), IsInjective(s)
    PROVE  /\ RemoveAt(s, i) \in Seq(S) /\ IsInjective(RemoveAt(s, i))
           /\ ToSet(RemoveAt(s, i)) = ToSet(s) \ {s[i]}
<1> DEFINE a == SubSeq(s, 1, i - 1)
           b == SubSeq(s, i + 1, Len(s))
           t == RemoveAt(s, i)
<1>0. Len(s) \in Nat /\ i \in Nat /\ 1 <= i /\ i <= Len(s) /\ DOMAIN s = 1 .. Len(s)
  OBVIOUS
<1>1. /\ a \in Seq(S) /\ Len(a) = i - 1
      /\ \A k \in 1 .. i - 1 : a[k] = s[k]
  BY <1>0
<1>2. /\ b \in Seq(S) /\ Len(b) = Len(s) - i
      /\ \A k \in 1 .. Len(s) - i : b[k] = s[i + k]
  <2> DEFINE p == i + 1
             n == Len(s)
  <2>1. p \in Int /\ n \in Int /\ \A k \in p .. n : s[k] \in S
    BY <1>0
  <2>2. p = i + 1 /\ n = Len(s)
    OBVIOUS
  <2>3. b = SubSeq(s, p, n)
    BY DEF b
  <2> HIDE DEF b, p, n
  <2>4. /\ b \in Seq(S)
        /\ Len(b) = IF p <= n THEN n - p + 1 ELSE 0
        /\ \A k \in 1 .. n - p + 1 : b[k] = s[p + k - 1]
    BY <2>1, <2>3, SubSeqProperties
  <2>5. n - p + 1 = Len(s) - i
    BY <1>0, <2>2
  <2>6. Len(b) = Len(s) - i
    <3>1. CASE p <= n
      BY <3>1, <2>4, <2>5
    <3>2. CASE ~(p <= n)
      <4>1. ~(i + 1 <= Len(s))
        BY <3>2, <2>2
      <4>2. Len(s) = i
        <5>1. \A x, y \in Nat : x <= y /\ ~(x + 1 <= y) => y = x
          OBVIOUS
        <5> QED BY <5>1, <4>1, <1>0, Zenon
      <4>3. Len(s) - i = 0
        BY <4>2, <1>0
      <4> QED BY <4>3, <3>2, <2>4
    <3> QED BY <3>1, <3>2
  <2>7. ASSUME NEW k \in 1 .. Len(s) - i PROVE b[k] = s[i + k]
    <3>1. p + k - 1 = i + k
      BY <1>0, <2>2
    <3> QED BY <3>1, <2>4, <2>5
  <2> QED BY <2>4, <2>6, <2>7
<1> HIDE DEF a, b
<1>3. t = a \o b
  BY DEF t, RemoveAt, a, b
<1>4. /\ t \in Seq(S) /\ Len(t) = Len(s) - 1 /\ DOMAIN t = 1 .. Len(s) - 1
      /\ \A k \in 1 .. i - 1 : t[k] = a[k]
      /\ \A k \in 1 .. Len(s) - i : t[i - 1 + k] = b[k]
  <2>1. /\ a \o b \in Seq(S) /\ Len(a \o b) = Len(a) + Len(b)
        /\ \A k \in 1 .. Len(a) + Len(b) :
              (a \o b)[k] = IF k <= Len(a) THEN a[k] ELSE b[k - Len(a)]
    BY <1>1, <1>2, ConcatProperties, Zenon
  <2>0. t \in Seq(S) /\ Len(t) = Len(a) + Len(b)
    BY <1>3, <2>1
  <2> HIDE DEF t
  <2>2. t \in Seq(S) /\ Len(t) = Len(s) - 1 /\ DOMAIN t = 1 .. Len(s) - 1
    <3>1. Len(t) = Len(s) - 1
      BY <2>0, <1>0, <1>1, <1>2
    <3> QED BY <3>1, <2>0
  <2>3. \A k \in 1 .. i - 1 : t[k] = a[k]
    BY <1>0, <1>1, <1>2, <1>3, <2>1
  <2>4. ASSUME NEW k \in 1 .. Len(s) - i PROVE t[i - 1 + k] = b[k]
    <3>1. i - 1 + k \in 1 .. Len(a) + Len(b) /\ ~(i - 1 + k <= Len(a)) /\ (i - 1 + k) - Len(a) = k
      BY <1>0, <1>1, <1>2
    <3> QED BY <3>1, <1>3, <2>1, Zenon
  <2> QED BY <2>2, <2>3, <2>4
<1> HIDE DEF t
<1>5. \A k \in DOMAIN t : t[k] = s[IF k < i THEN k ELSE k + 1]
  <2> SUFFICES ASSUME NEW k \in DOMAIN t PROVE t[k] = s[IF k < i THEN k ELSE k + 1]
    OBVIOUS
  <2>1. CASE k < i
    <3>1. k \in 1 .. i - 1
      BY <2>1, <1>0, <1>4
    <3> QED BY <3>1, <2>1, <1>1, <1>4
  <2>2. CASE ~(k < i)
    <3> DEFINE e == (k - i) + 1
    <3>0. k \in Nat /\ i <= k /\ k <= Len(s) - 1
      BY <2>2, <1>0, <1>4
    <3>1. e \in 1 .. Len(s) - i /\ i - 1 + e = k /\ i + e = k + 1
      BY <3>0, <1>0
    <3> HIDE DEF e
    <3>2. t[k] = b[e] /\ b[e] = s[k + 1]
      BY <3>1, <1>2, <1>4
    <3> QED BY <3>2, <2>2
  <2> QED BY <2>1, <2>2
<1>6. \A k \in DOMAIN t : LET m == IF k < i THEN k ELSE k + 1 IN m \in DOMAIN s /\ m # i
  BY <1>0, <1>4
<1>7. \A m \in DOMAIN s \ {i} : \E k \in DOMAIN t : m = IF k < i THEN k ELSE k + 1
  <2> SUFFICES ASSUME NEW m \in DOMAIN s \ {i}
               PROVE  \E k \in DOMAIN t : m = IF k < i THEN k ELSE k + 1
    OBVIOUS
  <2>1. CASE m < i
    <3>1. m \in DOMAIN t
      BY <2>1, <1>0, <1>4
    <3> QED BY <3>1, <2>1
  <2>2. CASE ~(m < i)
    <3>1. m - 1 \in DOMAIN t /\ ~(m - 1 < i) /\ (m - 1) + 1 = m
      BY <2>2, <1>0, <1>4
    <3> QED BY <3>1
  <2> QED BY <2>1, <2>2
<1>8. ToSet(t) = ToSet(s) \ {s[i]}
  <2>1. ASSUME NEW k \in DOMAIN t PROVE t[k] \in ToSet(s) \ {s[i]}
    BY <1>0, <1>5, <1>6 DEF ToSet, IsInjective
  <2>2. ASSUME NEW m \in DOMAIN s, s[m] # s[i] PROVE s[m] \in ToSet(t)
    <3>1. PICK k \in DOMAIN t : m = IF k < i THEN k ELSE k + 1
      BY <1>7, <2>2
    <3>2. t[k] = s[m]
      BY <3>1, <1>5
    <3> QED BY <3>2 DEF ToSet
  <2> QED BY <2>1, <2>2 DEF ToSet
<1>9. IsInjective(t)
  <2> SUFFICES ASSUME NEW j \in DOMAIN t, NEW k \in DOMAIN t, t[j] = t[k] PROVE j = k
    BY DEF IsInjective
  <2>1. (IF j < i THEN j ELSE j + 1) = (IF k < i THEN k ELSE k + 1)
    BY <1>5, <1>6 DEF IsInjective
  <2> QED BY <2>1, <1>0, <1>4
<1> QED BY <1>4, <1>8, <1>9 DEF t

(* Tracks that are apart are nowhere twice. *)
LEMMA ApartMeansOnce ==
    ASSUME queue \in Seq(Items), history \in Seq(Items), TracksApart
    PROVE  NoTrackTwice
<1> DEFINE last == IF current = Nothing THEN <<>> ELSE <<current>>
           all == (queue \o history) \o last
           n == Len(queue)
           m == Len(history)
<1>1. /\ n \in Nat /\ m \in Nat /\ Len(last) \in Nat /\ Len(last) <= 1
      /\ DOMAIN queue = 1 .. n /\ DOMAIN history = 1 .. m
      /\ Len(all) = (n + m) + Len(last)
  OBVIOUS
<1>2. /\ \A k \in 1 .. n : all[k] = queue[k]
      /\ \A k \in 1 .. m : all[n + k] = history[k]
      /\ Len(last) = 1 => all[(n + m) + 1] = current
  OBVIOUS
<1>3. /\ \A k \in 1 .. n : all[k] \in ToSet(queue)
      /\ \A k \in 1 .. m : all[n + k] \in ToSet(history)
  BY <1>1, <1>2 DEF ToSet
<1>4. SUFFICES ASSUME NEW i \in 1 .. Len(all), NEW j \in 1 .. Len(all), all[i] = all[j]
               PROVE  i = j
  BY DEF NoTrackTwice
<1> HIDE DEF all, last, n, m
<1>5. ASSUME NEW k \in 1 .. Len(all)
      PROVE  \/ k \in 1 .. n
             \/ k - n \in 1 .. m /\ k = n + (k - n)
             \/ Len(last) = 1 /\ k = (n + m) + 1
  <2>1. k \in Nat /\ 1 <= k /\ k <= (n + m) + Len(last)
    BY <1>1
  <2>2. CASE k <= n
    BY <1>1, <2>1, <2>2
  <2>3. CASE k > n /\ k <= n + m
    BY <1>1, <2>1, <2>3
  <2>4. CASE k > n + m
    <3> DEFINE l == Len(last)
    <3>1. l \in Nat /\ l <= 1 /\ k <= (n + m) + l
      BY <1>1, <2>1
    <3> HIDE DEF l
    <3>2. l = 1 /\ k = (n + m) + 1
      BY <3>1, <1>1, <2>1, <2>4
    <3> QED BY <3>2 DEF l
  <2> QED BY <1>1, <2>1, <2>2, <2>3, <2>4
<1>6. ASSUME NEW k \in 1 .. Len(all)
      PROVE  \/ k \in 1 .. n /\ all[k] \in ToSet(queue)
             \/ k - n \in 1 .. m /\ all[k] \in ToSet(history) /\ all[k] = history[k - n]
             \/ k = (n + m) + 1 /\ all[k] = current
  BY <1>2, <1>3, <1>5
<1>7. ToSet(queue) \cap ToSet(history) = {} /\ current \notin ToSet(queue) \cup ToSet(history)
  BY DEF TracksApart, Waiting
<1>8. CASE i \in 1 .. n /\ j \in 1 .. n
  BY <1>8, <1>1, <1>2, <1>4 DEF TracksApart, IsInjective
<1>9. CASE i - n \in 1 .. m /\ j - n \in 1 .. m /\ history[i - n] = history[j - n]
  <2>1. i - n = j - n
    BY <1>9, <1>1 DEF TracksApart, IsInjective
  <2> QED BY <2>1, <1>1, <1>4
<1> QED BY <1>4, <1>6, <1>7, <1>8, <1>9

-----------------------------------------------------------------------------
(* ---- What the actions that move tracks do ---- *)

(* Tracks are apart, spelled out. *)
LEMMA Apart ==
    ASSUME TypeOK, TracksApart
    PROVE  /\ Nothing \notin Waiting /\ Waiting \subseteq Items /\ next \notin Here
           /\ ToSet(queue) \subseteq Items /\ ToSet(history) \subseteq Items
           /\ ToSet(queue) = {} <=> queue = <<>>
<1>1. /\ ToSet(queue) \subseteq Items /\ queue # <<>> <=> ToSet(queue) # {}
      /\ ToSet(history) \subseteq Items
  BY EmptyQueue DEF TypeOK
<1>2. Nothing \notin Items
  BY DEF Nothing, Items
<1>3. next \notin Here
  <2>1. SUFFICES ASSUME next \in Here PROVE FALSE
    OBVIOUS
  <2>2. next < next
    BY <2>1 DEF TracksApart
  <2>3. next \in Nat
    BY DEF TypeOK
  <2> QED BY <2>2, <2>3
<1> QED BY <1>1, <1>2, <1>3 DEF Waiting

(* take_next takes one of the waiting tracks, and leaves the others. *)
LEMMA TakeDoes ==
    ASSUME TypeOK, TracksApart, Take
    PROVE  /\ queue' \in Seq(Items) /\ history' \in Seq(Items) /\ current' \in Items
           /\ IsInjective(queue') /\ IsInjective(history')
           /\ ToSet(queue') \cap ToSet(history') = {}
           /\ current' \in Waiting /\ Waiting' = Waiting \ {current'}
           /\ ToSet(history') \subseteq ToSet(history)
           /\ pc = "take" /\ pc' = "resolve" /\ lock = "free"
           /\ current' # Nothing
<1> DEFINE q == IF Recycles THEN history ELSE queue
<1>1. PICK i \in 1 .. Len(q) : current' = q[i] /\ queue' = RemoveAt(q, i)
  BY DEF Take, Popped
<1>2. q \in Seq(Items) /\ IsInjective(q) /\ IsInjective(history) /\ history \in Seq(Items)
  BY DEF TypeOK, TracksApart
<1>3. /\ Recycles => queue = <<>> /\ q = history /\ history' = <<>>
      /\ ~Recycles => q = queue /\ history' = history
  BY DEF Recycles, Take
<1> HIDE DEF q
<1>4. /\ queue' \in Seq(Items) /\ IsInjective(queue')
      /\ ToSet(queue') = ToSet(q) \ {current'}
      /\ current' \in ToSet(q) /\ ToSet(q) \subseteq Items
  BY <1>1, <1>2, Removing, EmptyQueue
<1>5. ToSet(<<>>) = {} /\ IsInjective(<<>>) /\ <<>> \in Seq(Items)
  BY ShortQueues
<1>6. history' \in Seq(Items) /\ IsInjective(history') /\ ToSet(history') \subseteq ToSet(history)
  BY <1>2, <1>3, <1>5
<1>7. ToSet(queue') \cap ToSet(history') = {} /\ current' \in Waiting
      /\ ToSet(queue') \cup ToSet(history') = Waiting \ {current'}
  <2>0. ToSet(queue) \cap ToSet(history) = {}
    BY DEF TracksApart
  <2>1. CASE Recycles
    <3>1. ToSet(queue) = {} /\ ToSet(history') = {} /\ ToSet(q) = ToSet(history)
      BY <2>1, <1>3, <1>5
    <3> QED BY <3>1, <1>4 DEF Waiting
  <2>2. CASE ~Recycles
    <3>1. ToSet(history') = ToSet(history) /\ ToSet(q) = ToSet(queue)
      BY <2>2, <1>3
    <3> QED BY <3>1, <2>0, <1>4 DEF Waiting
  <2> QED BY <2>1, <2>2
<1>8. current' \in Items /\ current' # Nothing
  BY <1>4 DEF Items, Nothing
<1>9. pc = "take" /\ pc' = "resolve" /\ lock = "free"
  BY DEF Take, Free
<1> QED BY <1>4, <1>6, <1>7, <1>8, <1>9 DEF Waiting

(* The end of an attempt puts the track back, keeps it for the cycle, or drops it. *)
LEMMA AttemptEndsDoes ==
    ASSUME TypeOK, TracksApart, AttemptEnds, current # Nothing
    PROVE  /\ queue' \in Seq(Items) /\ history' \in Seq(Items) /\ current' = Nothing
           /\ IsInjective(queue') /\ IsInjective(history')
           /\ ToSet(queue') \cap ToSet(history') = {}
           /\ Waiting \subseteq Waiting' /\ Waiting' \subseteq Waiting \cup {current}
           /\ ToSet(queue') = IF Returns \/ Repeats THEN ToSet(queue) \cup {current}
                                                    ELSE ToSet(queue)
           /\ ToSet(history') = IF Retained THEN ToSet(history) \cup {current}
                                            ELSE ToSet(history)
<1>1. /\ queue \in Seq(Items) /\ history \in Seq(Items) /\ current \in Items
      /\ IsInjective(queue) /\ IsInjective(history)
      /\ current \notin ToSet(queue) /\ current \notin ToSet(history)
      /\ ToSet(queue) \cap ToSet(history) = {}
  BY DEF TypeOK, TracksApart, Waiting
<1>2. /\ <<current>> \o queue \in Seq(Items) /\ IsInjective(<<current>> \o queue)
      /\ ToSet(<<current>> \o queue) = ToSet(queue) \cup {current}
  BY <1>1, Heading
<1>3. /\ Append(history, current) \in Seq(Items) /\ IsInjective(Append(history, current))
      /\ ToSet(Append(history, current)) = ToSet(history) \cup {current}
  BY <1>1, Appending
<1>4. /\ queue' = IF Returns \/ Repeats THEN <<current>> \o queue ELSE queue
      /\ history' = IF Retained THEN Append(history, current) ELSE history
      /\ current' = Nothing
  BY DEF AttemptEnds
<1>5. ~(Retained /\ (Returns \/ Repeats))
  BY DEF Retained, Returns, Repeats
<1>6. /\ queue' \in Seq(Items) /\ IsInjective(queue')
      /\ ToSet(queue') = IF Returns \/ Repeats THEN ToSet(queue) \cup {current} ELSE ToSet(queue)
  BY <1>1, <1>2, <1>4
<1>7. /\ history' \in Seq(Items) /\ IsInjective(history')
      /\ ToSet(history') = IF Retained THEN ToSet(history) \cup {current} ELSE ToSet(history)
  BY <1>1, <1>3, <1>4
<1>8. ToSet(queue') \cap ToSet(history') = {}
  BY <1>1, <1>5, <1>6, <1>7
<1>9. Waiting \subseteq Waiting' /\ Waiting' \subseteq Waiting \cup {current}
  BY <1>6, <1>7 DEF Waiting
<1> QED BY <1>4, <1>6, <1>7, <1>8, <1>9

(* A command that adds a track keeps, or excuses, the others. *)
LEMMA Applied ==
    ASSUME TypeOK, TracksApart, next <= MaxItems, NEW op, Apply(op)
    PROVE  /\ queue' \in Seq(Items) /\ history' \in Seq(Items)
           /\ IsInjective(queue') /\ IsInjective(history')
           /\ ToSet(queue') \cap ToSet(history') = {}
           /\ next \in Items /\ next \in ToSet(queue') /\ queue' # <<>>
           /\ next' = next + 1
           /\ ToSet(queue') \subseteq ToSet(queue) \cup {next}
           /\ ToSet(history') \subseteq ToSet(history)
           /\ Waiting \subseteq ToSet(queue') \cup ToSet(history') \cup excused'
           /\ excused \subseteq excused' /\ excused' \in SUBSET Items
<1>1. /\ queue \in Seq(Items) /\ history \in Seq(Items) /\ excused \in SUBSET Items
      /\ IsInjective(queue) /\ IsInjective(history)
      /\ ToSet(queue) \cap ToSet(history) = {}
  BY DEF TypeOK, TracksApart
<1>2. /\ next \in Items /\ next \notin ToSet(queue) /\ next \notin ToSet(history)
      /\ Waiting \subseteq Items /\ Here \subseteq Items
  <2>1. next \in Items
    BY MusicAssumption DEF TypeOK, TracksApart, Items
  <2> QED BY <2>1, Apart DEF Here, Waiting, TypeOK
<1>3. /\ Append(queue, next) \in Seq(Items) /\ IsInjective(Append(queue, next))
      /\ ToSet(Append(queue, next)) = ToSet(queue) \cup {next}
  BY <1>1, <1>2, Appending
<1>4. /\ <<next>> \in Seq(Items) /\ ToSet(<<next>>) = {next} /\ IsInjective(<<next>>)
      /\ <<>> \in Seq(Items) /\ ToSet(<<>>) = {} /\ IsInjective(<<>>)
  BY <1>2, ShortQueues
<1>5. CASE Appended
  <2>1. queue' = Append(queue, next) /\ history' = history /\ next' = next + 1
        /\ excused' = excused
    BY <1>5 DEF Appended
  <2>2. ToSet(queue') = ToSet(queue) \cup {next} /\ ToSet(history') = ToSet(history)
    BY <2>1, <1>3
  <2>3. queue' \in Seq(Items) /\ IsInjective(queue') /\ queue' # <<>>
    BY <2>1, <2>2, <1>3, EmptyQueue
  <2> QED BY <2>1, <2>2, <2>3, <1>1, <1>2 DEF Waiting
<1>6. CASE Replaced
  <2>1. queue' = <<next>> /\ history' = <<>> /\ next' = next + 1 /\ excused' = excused \cup Here
    BY <1>6 DEF Replaced
  <2>2. ToSet(queue') = {next} /\ ToSet(history') = {}
    BY <2>1, <1>4
  <2>3. queue' \in Seq(Items) /\ IsInjective(queue') /\ queue' # <<>>
    BY <2>1, <1>4
  <2> QED BY <2>1, <2>2, <2>3, <1>1, <1>2, <1>4 DEF Here
<1> QED BY <1>5, <1>6 DEF Apply

(* What else such a command changes. *)
LEMMA AppliedElsewhere ==
    ASSUME NEW op, Apply(op), TypeOK
    PROVE  /\ pc' = IF pc = "off" THEN "take" ELSE pc
           /\ \/ skip' = skip /\ retain' = retain /\ stopDue' = stopDue
              \/ /\ current # Nothing /\ current \in excused'
                 /\ skip' = TRUE /\ retain' = FALSE /\ stopDue' = published
           /\ failure' \in {failure, "none"}
           /\ state' = state \/ (state' = "waiting" /\ current = Nothing)
           /\ backendTried' \in SUBSET Items /\ mediaTried' \in SUBSET Items
<1>1. CASE Appended
  <2>1. /\ pc' = IF pc = "off" THEN "take" ELSE pc
        /\ backendTried' \in SUBSET Items /\ mediaTried' \in SUBSET Items
    BY <1>1 DEF Appended, StartWorker, TypeOK
  <2>2. /\ skip' = skip /\ retain' = retain /\ stopDue' = stopDue /\ failure' = failure
        /\ state' = IF current = Nothing THEN "waiting" ELSE state
    BY <1>1 DEF Appended, control
  <2> QED BY <2>1, <2>2
<1>2. CASE Replaced
  <2>1. /\ pc' = IF pc = "off" THEN "take" ELSE pc
        /\ backendTried' \in SUBSET Items /\ mediaTried' \in SUBSET Items
    BY <1>2 DEF Replaced, StartWorker, TypeOK
  <2>2. failure' = "none" /\ (current # Nothing => current \in excused')
    BY <1>2 DEF Replaced, Here
  <2>3. IF current # Nothing THEN skip' = TRUE /\ retain' = FALSE /\ stopDue' = published
                                  /\ state' = state
                             ELSE state' = "waiting" /\ skip' = skip /\ retain' = retain
                                  /\ stopDue' = stopDue
    BY <1>2 DEF Replaced, control
  <2> QED BY <2>1, <2>2, <2>3
<1> QED BY <1>1, <1>2 DEF Apply

(* aclose cancels the worker wherever it is. *)
LEMMA AcloseDoes ==
    ASSUME Aclose, WorkerAgrees
    PROVE  /\ pc' \in {"off", "close", "finish"}
           /\ pc' = "finish" => current # Nothing
           /\ pc' = "off" => current = Nothing
           /\ lock' = (IF lock = "worker" THEN "free" ELSE lock) /\ closing' = TRUE
<1>1. pc' \in {"off", "close", "finish"} /\ (pc' = "finish" => current # Nothing)
  BY DEF Aclose
<1>2. pc' = "off" => pc \in {"off", "closing", "take"}
  BY DEF Aclose
<1> QED BY <1>1, <1>2 DEF Aclose, WorkerAgrees

-----------------------------------------------------------------------------
(* ---- Types ---- *)

(* Every step keeps the types. *)
LEMMA TypeOKStep == IInv /\ [Next]_vars => TypeOK'
<1> SUFFICES ASSUME IInv, [Next]_vars PROVE TypeOK'
  OBVIOUS
<1>p. /\ TypeOK /\ WorkerAgrees /\ TracksApart /\ EndsAreExcused /\ NoTrackLost
      /\ GaveUp /\ LeaseOwned /\ PauseIsNoted
  BY DEF IInv
<1>s. <<>> \in Seq(Items)
  OBVIOUS
<1>1. ASSUME Take
      PROVE  TypeOK'
  <2>1. /\ queue' \in Seq(Items) /\ history' \in Seq(Items)
        /\ current' \in Items \cup {Nothing}
        /\ state' \in {"idle", "waiting", "loading", "playing", "paused", "recovering",
            "releasing", "failed"}
        /\ policy' \in Policies
        /\ failure' \in {"none", "track", "voice"}
    BY <1>1, TakeDoes, <1>p DEF TypeOK, Take, Free, tracks, control, attempt, commands, past,
             bounds, Default, Policies
  <2>2. /\ skip' \in BOOLEAN /\ retain' \in BOOLEAN
        /\ reserved' \in BOOLEAN /\ published' \in BOOLEAN
        /\ stopDue' \in BOOLEAN /\ closing' \in BOOLEAN
        /\ misled' \in BOOLEAN
    BY <1>1, TakeDoes, <1>p DEF TypeOK, Take, Free, tracks, control, attempt, commands, past,
             bounds
  <2>3. /\ lock' \in {"free", "worker", "command"}
        /\ pc' \in WorkerPcs
        /\ handle' \in {"none", "playing", "paused"} \cup Ended
        /\ end' \in {"none", "completed", "retry", "halt"}
        /\ backendTried' \in SUBSET Items /\ mediaTried' \in SUBSET Items
        /\ cmd' \in {"none", "enqueue", "replace"}
        /\ pausing' \in {"none", "here", "old"}
        /\ lease' \in {"none", "live", "dead"}
        /\ next' \in Nat /\ troubles' \in Nat /\ wishes' \in Nat
        /\ excused' \in SUBSET Items
    BY <1>1, TakeDoes, <1>p DEF TypeOK, Take, Free, tracks, control, attempt, commands, past,
             bounds, WorkerPcs, Ended
  <2> QED BY <2>1, <2>2, <2>3 DEF TypeOK
<1>2. ASSUME BeginDrain
      PROVE  TypeOK'
  BY <1>2, <1>p DEF TypeOK, BeginDrain, Free, Trouble, Recycles, Fails, tracks, control,
         attempt, commands, past, bounds, Default, Policies, WorkerPcs, Ended
<1>3. ASSUME Drained
      PROVE  TypeOK'
  <2>1. /\ queue' \in Seq(Items) /\ history' \in Seq(Items)
        /\ current' \in Items \cup {Nothing}
        /\ state' \in {"idle", "waiting", "loading", "playing", "paused", "recovering",
            "releasing", "failed"}
        /\ policy' \in Policies
        /\ failure' \in {"none", "track", "voice"}
        /\ skip' \in BOOLEAN /\ retain' \in BOOLEAN
        /\ reserved' \in BOOLEAN /\ published' \in BOOLEAN
        /\ stopDue' \in BOOLEAN /\ closing' \in BOOLEAN
        /\ misled' \in BOOLEAN
    BY <1>3, <1>p, <1>s, Apart DEF TypeOK, Drained, Free, Trouble, Recycles, Fails, tracks,
             control, attempt, commands, past, bounds, Here, Waiting, Default, Policies
  <2>2. /\ lock' \in {"free", "worker", "command"}
        /\ pc' \in WorkerPcs
        /\ handle' \in {"none", "playing", "paused"} \cup Ended
        /\ end' \in {"none", "completed", "retry", "halt"}
        /\ backendTried' \in SUBSET Items /\ mediaTried' \in SUBSET Items
        /\ cmd' \in {"none", "enqueue", "replace"}
        /\ pausing' \in {"none", "here", "old"}
        /\ lease' \in {"none", "live", "dead"}
        /\ next' \in Nat /\ troubles' \in Nat /\ wishes' \in Nat
        /\ excused' \in SUBSET Items
    BY <1>3, <1>p, <1>s, Apart DEF TypeOK, Drained, Free, Trouble, Recycles, Fails, tracks,
             control, attempt, commands, past, bounds, Here, Waiting, WorkerPcs, Ended
  <2> QED BY <2>1, <2>2 DEF TypeOK
<1>4. ASSUME DrainFails
      PROVE  TypeOK'
  BY <1>4, <1>p DEF TypeOK, DrainFails, Free, Trouble, Recycles, Fails, tracks, control,
         attempt, commands, past, bounds, Default, Policies, WorkerPcs, Ended
<1>5. ASSUME Resolved
      PROVE  TypeOK'
  BY <1>5, <1>p DEF TypeOK, Resolved, Free, Trouble, Recycles, Fails, tracks, control, attempt,
         commands, past, bounds, Default, Policies, WorkerPcs, Ended
<1>6. ASSUME Started
      PROVE  TypeOK'
  <2>1. /\ queue' \in Seq(Items) /\ history' \in Seq(Items)
        /\ current' \in Items \cup {Nothing}
        /\ state' \in {"idle", "waiting", "loading", "playing", "paused", "recovering",
            "releasing", "failed"}
        /\ policy' \in Policies
    BY <1>6, <1>p DEF TypeOK, Started, Free, Trouble, Recycles, Fails, tracks, control, attempt,
             commands, past, bounds, Default, Policies
  <2>2. /\ failure' \in {"none", "track", "voice"}
        /\ skip' \in BOOLEAN /\ retain' \in BOOLEAN
        /\ reserved' \in BOOLEAN /\ published' \in BOOLEAN
        /\ stopDue' \in BOOLEAN /\ closing' \in BOOLEAN
        /\ misled' \in BOOLEAN
    BY <1>6, <1>p DEF TypeOK, Started, Free, Trouble, Recycles, Fails, tracks, control, attempt,
             commands, past, bounds
  <2>3. /\ lock' \in {"free", "worker", "command"}
        /\ pc' \in WorkerPcs
        /\ handle' \in {"none", "playing", "paused"} \cup Ended
        /\ end' \in {"none", "completed", "retry", "halt"}
        /\ backendTried' \in SUBSET Items /\ mediaTried' \in SUBSET Items
        /\ cmd' \in {"none", "enqueue", "replace"}
        /\ pausing' \in {"none", "here", "old"}
        /\ lease' \in {"none", "live", "dead"}
        /\ next' \in Nat /\ troubles' \in Nat /\ wishes' \in Nat
        /\ excused' \in SUBSET Items
    BY <1>6, <1>p DEF TypeOK, Started, Free, Trouble, Recycles, Fails, tracks, control, attempt,
             commands, past, bounds, WorkerPcs, Ended
  <2> QED BY <2>1, <2>2, <2>3 DEF TypeOK
<1>7. ASSUME TrackFails
      PROVE  TypeOK'
  BY <1>7, <1>p DEF TypeOK, TrackFails, Free, Trouble, Fails, MayRetry, tracks, control,
         attempt, commands, past, bounds, WorkerAgrees, Attempting, Default, Policies, WorkerPcs, Ended
<1>8. ASSUME BackendErrs
      PROVE  TypeOK'
  BY <1>8, <1>p DEF TypeOK, BackendErrs, Free, Trouble, Fails, MayRetry, tracks, control,
         attempt, commands, past, bounds, WorkerAgrees, Attempting, Default, Policies, WorkerPcs, Ended
<1>9. ASSUME DecoderErrs
      PROVE  TypeOK'
  BY <1>9, <1>p DEF TypeOK, DecoderErrs, Free, Trouble, Fails, MayRetry, tracks, control,
         attempt, commands, past, bounds, WorkerAgrees, Attempting, Default, Policies, WorkerPcs, Ended
<1>10. ASSUME PlaybackEnds
       PROVE  TypeOK'
  BY <1>10, <1>p DEF TypeOK, PlaybackEnds, Trouble, tracks, control, attempt, commands, past,
         bounds, Default, Policies, WorkerPcs, Ended
<1>11. ASSUME Result, TrackFinished
       PROVE  TypeOK'
  BY <1>11, <1>p DEF TypeOK, Result, TrackFinished, Free, Fails, MayRetry, tracks, control,
         attempt, commands, past, bounds, WorkerAgrees, Attempting, Default, Policies, WorkerPcs, Ended
<1>12. ASSUME Result, TrackStopped
       PROVE  TypeOK'
  BY <1>12, <1>p DEF TypeOK, Result, TrackStopped, Free, Fails, MayRetry, tracks, control,
         attempt, commands, past, bounds, Default, Policies, WorkerPcs, Ended
<1>13. ASSUME Result, BackendClosed
       PROVE  TypeOK'
  BY <1>13, <1>p DEF TypeOK, Result, BackendClosed, Free, Fails, MayRetry, tracks, control,
         attempt, commands, past, bounds, WorkerAgrees, Attempting, Default, Policies, WorkerPcs, Ended
<1>14. ASSUME Result, VoiceLeft
       PROVE  TypeOK'
  <2>1. /\ queue' \in Seq(Items) /\ history' \in Seq(Items)
        /\ current' \in Items \cup {Nothing}
        /\ state' \in {"idle", "waiting", "loading", "playing", "paused", "recovering",
            "releasing", "failed"}
        /\ policy' \in Policies
        /\ failure' \in {"none", "track", "voice"}
        /\ skip' \in BOOLEAN /\ retain' \in BOOLEAN
        /\ reserved' \in BOOLEAN /\ published' \in BOOLEAN
        /\ stopDue' \in BOOLEAN /\ closing' \in BOOLEAN
        /\ misled' \in BOOLEAN
    BY <1>14, <1>p DEF TypeOK, Result, VoiceLeft, Free, Fails, MayRetry, tracks, control,
             attempt, commands, past, bounds, WorkerAgrees, Attempting, Default, Policies
  <2>2. /\ lock' \in {"free", "worker", "command"}
        /\ pc' \in WorkerPcs
        /\ handle' \in {"none", "playing", "paused"} \cup Ended
        /\ end' \in {"none", "completed", "retry", "halt"}
        /\ backendTried' \in SUBSET Items /\ mediaTried' \in SUBSET Items
        /\ cmd' \in {"none", "enqueue", "replace"}
        /\ pausing' \in {"none", "here", "old"}
        /\ lease' \in {"none", "live", "dead"}
        /\ next' \in Nat /\ troubles' \in Nat /\ wishes' \in Nat
        /\ excused' \in SUBSET Items
    BY <1>14, <1>p DEF TypeOK, Result, VoiceLeft, Free, Fails, MayRetry, tracks, control,
             attempt, commands, past, bounds, WorkerAgrees, Attempting, WorkerPcs, Ended
  <2> QED BY <2>1, <2>2 DEF TypeOK
<1>15. ASSUME Result, VoiceGone
       PROVE  TypeOK'
  BY <1>15, <1>p DEF TypeOK, Result, VoiceGone, Free, Fails, MayRetry, tracks, control, attempt,
         commands, past, bounds, Default, Policies, WorkerPcs, Ended
<1>16. ASSUME Result, TrackBroke
       PROVE  TypeOK'
  BY <1>16, <1>p DEF TypeOK, Result, TrackBroke, Free, Fails, MayRetry, tracks, control,
         attempt, commands, past, bounds, WorkerAgrees, Attempting, Default, Policies, WorkerPcs, Ended
<1>17. ASSUME ResetVoice
       PROVE  TypeOK'
  BY <1>17, <1>p DEF TypeOK, ResetVoice, Free, Trouble, tracks, control, attempt, commands,
         past, bounds, Default, Policies, WorkerPcs, Ended
<1>18. ASSUME AcquireVoice
       PROVE  TypeOK'
  BY <1>18, <1>p DEF TypeOK, AcquireVoice, Free, Trouble, tracks, control, attempt, commands,
         past, bounds, Default, Policies, WorkerPcs, Ended
<1>19. ASSUME Reacquired
       PROVE  TypeOK'
  <2>1. /\ queue' \in Seq(Items) /\ history' \in Seq(Items)
        /\ current' \in Items \cup {Nothing}
        /\ state' \in {"idle", "waiting", "loading", "playing", "paused", "recovering",
            "releasing", "failed"}
        /\ policy' \in Policies
    BY <1>19, <1>p DEF TypeOK, Reacquired, Free, Trouble, tracks, control, attempt, commands,
             past, bounds, Default, Policies
  <2>2. /\ failure' \in {"none", "track", "voice"}
        /\ skip' \in BOOLEAN /\ retain' \in BOOLEAN
        /\ reserved' \in BOOLEAN /\ published' \in BOOLEAN
        /\ stopDue' \in BOOLEAN /\ closing' \in BOOLEAN
        /\ misled' \in BOOLEAN
    BY <1>19, <1>p DEF TypeOK, Reacquired, Free, Trouble, tracks, control, attempt, commands,
             past, bounds
  <2>3. /\ lock' \in {"free", "worker", "command"}
        /\ pc' \in WorkerPcs
        /\ handle' \in {"none", "playing", "paused"} \cup Ended
        /\ end' \in {"none", "completed", "retry", "halt"}
        /\ backendTried' \in SUBSET Items /\ mediaTried' \in SUBSET Items
        /\ cmd' \in {"none", "enqueue", "replace"}
        /\ pausing' \in {"none", "here", "old"}
        /\ lease' \in {"none", "live", "dead"}
        /\ next' \in Nat /\ troubles' \in Nat /\ wishes' \in Nat
        /\ excused' \in SUBSET Items
    BY <1>19, <1>p DEF TypeOK, Reacquired, Free, Trouble, tracks, control, attempt, commands,
             past, bounds, WorkerPcs, Ended
  <2> QED BY <2>1, <2>2, <2>3 DEF TypeOK
<1>20. ASSUME FinishAttempt
       PROVE  TypeOK'
  BY <1>20, AttemptEndsDoes, <1>p DEF TypeOK, FinishAttempt, AttemptEnds, Free, tracks, control,
         attempt, commands, past, bounds, WorkerAgrees, Attempting, Retained, Default, Policies,
         WorkerPcs, Ended
<1>21. ASSUME GiveUp
       PROVE  TypeOK'
  <2>1. /\ queue' \in Seq(Items) /\ history' \in Seq(Items)
        /\ current' \in Items \cup {Nothing}
        /\ state' \in {"idle", "waiting", "loading", "playing", "paused", "recovering",
            "releasing", "failed"}
        /\ policy' \in Policies
        /\ failure' \in {"none", "track", "voice"}
        /\ skip' \in BOOLEAN /\ retain' \in BOOLEAN
        /\ reserved' \in BOOLEAN /\ published' \in BOOLEAN
        /\ stopDue' \in BOOLEAN /\ closing' \in BOOLEAN
        /\ misled' \in BOOLEAN
        /\ lock' \in {"free", "worker", "command"}
    BY <1>21, AttemptEndsDoes, <1>p DEF TypeOK, GiveUp, AttemptEnds, SessionCloses, Free,
             tracks, control, attempt, commands, past, bounds, WorkerAgrees, Attempting, Retained,
             Default, Policies
  <2>2. /\ pc' \in WorkerPcs
        /\ handle' \in {"none", "playing", "paused"} \cup Ended
        /\ end' \in {"none", "completed", "retry", "halt"}
        /\ backendTried' \in SUBSET Items /\ mediaTried' \in SUBSET Items
        /\ cmd' \in {"none", "enqueue", "replace"}
        /\ pausing' \in {"none", "here", "old"}
        /\ lease' \in {"none", "live", "dead"}
        /\ next' \in Nat /\ troubles' \in Nat /\ wishes' \in Nat
        /\ excused' \in SUBSET Items
    BY <1>21, AttemptEndsDoes, <1>p DEF TypeOK, GiveUp, AttemptEnds, SessionCloses, Free,
             tracks, control, attempt, commands, past, bounds, WorkerAgrees, Attempting, Retained,
             WorkerPcs, Ended
  <2> QED BY <2>1, <2>2 DEF TypeOK
<1>22. ASSUME CloseSession
       PROVE  TypeOK'
  <2>1. /\ queue' \in Seq(Items) /\ history' \in Seq(Items)
        /\ current' \in Items \cup {Nothing}
        /\ state' \in {"idle", "waiting", "loading", "playing", "paused", "recovering",
            "releasing", "failed"}
        /\ policy' \in Policies
        /\ failure' \in {"none", "track", "voice"}
        /\ skip' \in BOOLEAN /\ retain' \in BOOLEAN
        /\ reserved' \in BOOLEAN /\ published' \in BOOLEAN
        /\ stopDue' \in BOOLEAN /\ closing' \in BOOLEAN
        /\ misled' \in BOOLEAN
    BY <1>22, <1>p DEF TypeOK, CloseSession, SessionCloses, Free, tracks, control, attempt,
             commands, past, bounds, Default, Policies
  <2>2. /\ lock' \in {"free", "worker", "command"}
        /\ pc' \in WorkerPcs
        /\ handle' \in {"none", "playing", "paused"} \cup Ended
        /\ end' \in {"none", "completed", "retry", "halt"}
        /\ backendTried' \in SUBSET Items /\ mediaTried' \in SUBSET Items
        /\ cmd' \in {"none", "enqueue", "replace"}
        /\ pausing' \in {"none", "here", "old"}
        /\ lease' \in {"none", "live", "dead"}
        /\ next' \in Nat /\ troubles' \in Nat /\ wishes' \in Nat
        /\ excused' \in SUBSET Items
    BY <1>22, <1>p DEF TypeOK, CloseSession, SessionCloses, Free, tracks, control, attempt,
             commands, past, bounds, WorkerPcs, Ended
  <2> QED BY <2>1, <2>2 DEF TypeOK
<1>23. ASSUME Closed
       PROVE  TypeOK'
  <2>1. /\ queue' \in Seq(Items) /\ history' \in Seq(Items)
        /\ current' \in Items \cup {Nothing}
        /\ state' \in {"idle", "waiting", "loading", "playing", "paused", "recovering",
            "releasing", "failed"}
        /\ policy' \in Policies
    BY <1>23, <1>p DEF TypeOK, Closed, Trouble, tracks, control, attempt, commands, past,
             bounds, Default, Policies
  <2>2. /\ failure' \in {"none", "track", "voice"}
        /\ skip' \in BOOLEAN /\ retain' \in BOOLEAN
        /\ reserved' \in BOOLEAN /\ published' \in BOOLEAN
        /\ stopDue' \in BOOLEAN /\ closing' \in BOOLEAN
        /\ misled' \in BOOLEAN
    BY <1>23, <1>p DEF TypeOK, Closed, Trouble, tracks, control, attempt, commands, past, bounds
  <2>3. /\ lock' \in {"free", "worker", "command"}
        /\ pc' \in WorkerPcs
        /\ handle' \in {"none", "playing", "paused"} \cup Ended
        /\ end' \in {"none", "completed", "retry", "halt"}
        /\ backendTried' \in SUBSET Items /\ mediaTried' \in SUBSET Items
        /\ cmd' \in {"none", "enqueue", "replace"}
        /\ pausing' \in {"none", "here", "old"}
        /\ lease' \in {"none", "live", "dead"}
        /\ next' \in Nat /\ troubles' \in Nat /\ wishes' \in Nat
        /\ excused' \in SUBSET Items
    BY <1>23, <1>p DEF TypeOK, Closed, Trouble, tracks, control, attempt, commands, past,
             bounds, WorkerPcs, Ended
  <2> QED BY <2>1, <2>2, <2>3 DEF TypeOK
<1>24. ASSUME NEW op, Request(op), reserved
       PROVE  TypeOK'
  <2>1. /\ lock' \in {"free", "worker", "command"}
        /\ pc' \in WorkerPcs
        /\ handle' \in {"none", "playing", "paused"} \cup Ended
        /\ end' \in {"none", "completed", "retry", "halt"}
        /\ backendTried' \in SUBSET Items /\ mediaTried' \in SUBSET Items
    BY <1>24, Applied, AppliedElsewhere, <1>p DEF TypeOK, Request, Free, Turn, tracks, control,
             attempt, commands, past, bounds, WorkerPcs, Ended
  <2>2. /\ cmd' \in {"none", "enqueue", "replace"}
        /\ pausing' \in {"none", "here", "old"}
        /\ lease' \in {"none", "live", "dead"}
        /\ next' \in Nat /\ troubles' \in Nat /\ wishes' \in Nat
        /\ excused' \in SUBSET Items
    BY <1>24, Applied, AppliedElsewhere, <1>p DEF TypeOK, Request, Free, Turn, tracks, control,
             attempt, commands, past, bounds
  <2>3. /\ queue' \in Seq(Items) /\ history' \in Seq(Items)
        /\ current' \in Items \cup {Nothing}
        /\ state' \in {"idle", "waiting", "loading", "playing", "paused", "recovering",
            "releasing", "failed"}
        /\ policy' \in Policies
    BY <1>24, Applied, AppliedElsewhere, <1>p DEF TypeOK, Request, Free, Turn, tracks, control,
             attempt, commands, past, bounds, Default, Policies
  <2>4. /\ failure' \in {"none", "track", "voice"}
        /\ skip' \in BOOLEAN /\ retain' \in BOOLEAN
        /\ reserved' \in BOOLEAN /\ published' \in BOOLEAN
        /\ stopDue' \in BOOLEAN /\ closing' \in BOOLEAN
        /\ misled' \in BOOLEAN
    BY <1>24, Applied, AppliedElsewhere, <1>p DEF TypeOK, Request, Free, Turn, tracks, control,
             attempt, commands, past, bounds
  <2> QED BY <2>1, <2>2, <2>3, <2>4 DEF TypeOK
<1>25. ASSUME NEW op \in {"enqueue", "replace"}, Request(op), ~reserved
       PROVE  TypeOK'
  BY <1>25, <1>p DEF TypeOK, Request, Free, Turn, tracks, control, attempt, commands, past,
         bounds, Default, Policies, WorkerPcs, Ended
<1>26. ASSUME Granted, ~closing, Apply(cmd)
       PROVE  TypeOK'
  <2>1. /\ lock' \in {"free", "worker", "command"}
        /\ pc' \in WorkerPcs
        /\ handle' \in {"none", "playing", "paused"} \cup Ended
        /\ end' \in {"none", "completed", "retry", "halt"}
        /\ backendTried' \in SUBSET Items /\ mediaTried' \in SUBSET Items
    BY <1>26, Applied, AppliedElsewhere, <1>p, <1>s DEF TypeOK, Granted, tracks, control,
             attempt, commands, past, bounds, WorkerAgrees, WorkerPcs, Ended
  <2>2. /\ cmd' \in {"none", "enqueue", "replace"}
        /\ pausing' \in {"none", "here", "old"}
        /\ lease' \in {"none", "live", "dead"}
        /\ next' \in Nat /\ troubles' \in Nat /\ wishes' \in Nat
        /\ excused' \in SUBSET Items
    BY <1>26, Applied, AppliedElsewhere, <1>p, <1>s DEF TypeOK, Granted, tracks, control,
             attempt, commands, past, bounds, WorkerAgrees
  <2>3. /\ queue' \in Seq(Items) /\ history' \in Seq(Items)
        /\ current' \in Items \cup {Nothing}
        /\ state' \in {"idle", "waiting", "loading", "playing", "paused", "recovering",
            "releasing", "failed"}
        /\ policy' \in Policies
    BY <1>26, Applied, AppliedElsewhere, <1>p, <1>s DEF TypeOK, Granted, tracks, control,
             attempt, commands, past, bounds, WorkerAgrees, Default, Policies
  <2>4. /\ failure' \in {"none", "track", "voice"}
        /\ skip' \in BOOLEAN /\ retain' \in BOOLEAN
        /\ reserved' \in BOOLEAN /\ published' \in BOOLEAN
        /\ stopDue' \in BOOLEAN /\ closing' \in BOOLEAN
        /\ misled' \in BOOLEAN
    BY <1>26, Applied, AppliedElsewhere, <1>p, <1>s DEF TypeOK, Granted, tracks, control,
             attempt, commands, past, bounds, WorkerAgrees
  <2> QED BY <2>1, <2>2, <2>3, <2>4 DEF TypeOK
<1>27. ASSUME Granted, closing
       PROVE  TypeOK'
  BY <1>27, <1>p DEF TypeOK, Granted, tracks, control, attempt, commands, past, bounds, Default,
         Policies, WorkerPcs, Ended
<1>28. ASSUME Denied
       PROVE  TypeOK'
  BY <1>28, <1>p DEF TypeOK, Denied, Trouble, tracks, control, attempt, commands, past, bounds,
         Default, Policies, WorkerPcs, Ended
<1>29. ASSUME Skip
       PROVE  TypeOK'
  BY <1>29, <1>p DEF TypeOK, Skip, Turn, Free, tracks, control, attempt, commands, past, bounds,
         Default, Policies, WorkerPcs, Ended
<1>30. ASSUME Clear
       PROVE  TypeOK'
  <2>1. /\ queue' \in Seq(Items) /\ history' \in Seq(Items)
        /\ current' \in Items \cup {Nothing}
        /\ state' \in {"idle", "waiting", "loading", "playing", "paused", "recovering",
            "releasing", "failed"}
        /\ policy' \in Policies
        /\ failure' \in {"none", "track", "voice"}
        /\ skip' \in BOOLEAN /\ retain' \in BOOLEAN
        /\ reserved' \in BOOLEAN /\ published' \in BOOLEAN
        /\ stopDue' \in BOOLEAN /\ closing' \in BOOLEAN
        /\ misled' \in BOOLEAN
    BY <1>30, <1>p, <1>s, Apart DEF TypeOK, Clear, WakeIdle, StartWorker, Turn, Free, tracks,
             control, attempt, commands, past, bounds, Here, Waiting, Default, Policies
  <2>2. /\ lock' \in {"free", "worker", "command"}
        /\ pc' \in WorkerPcs
        /\ handle' \in {"none", "playing", "paused"} \cup Ended
        /\ end' \in {"none", "completed", "retry", "halt"}
        /\ backendTried' \in SUBSET Items /\ mediaTried' \in SUBSET Items
        /\ cmd' \in {"none", "enqueue", "replace"}
        /\ pausing' \in {"none", "here", "old"}
        /\ lease' \in {"none", "live", "dead"}
        /\ next' \in Nat /\ troubles' \in Nat /\ wishes' \in Nat
        /\ excused' \in SUBSET Items
    BY <1>30, <1>p, <1>s, Apart DEF TypeOK, Clear, WakeIdle, StartWorker, Turn, Free, tracks,
             control, attempt, commands, past, bounds, Here, Waiting, WorkerPcs, Ended
  <2> QED BY <2>1, <2>2 DEF TypeOK
<1>31. ASSUME SetPolicy
       PROVE  TypeOK'
  BY <1>31, <1>p DEF TypeOK, SetPolicy, Wish, Turn, Free, tracks, control, attempt, commands,
         past, bounds, Default, Policies, WorkerPcs, Ended
<1>32. ASSUME Stop
       PROVE  TypeOK'
  <2>1. /\ queue' \in Seq(Items) /\ history' \in Seq(Items)
        /\ current' \in Items \cup {Nothing}
        /\ state' \in {"idle", "waiting", "loading", "playing", "paused", "recovering",
            "releasing", "failed"}
        /\ policy' \in Policies
    BY <1>32, <1>p DEF TypeOK, Stop, tracks, control, attempt, commands, past, bounds, Default,
             Policies
  <2>2. /\ failure' \in {"none", "track", "voice"}
        /\ skip' \in BOOLEAN /\ retain' \in BOOLEAN
        /\ reserved' \in BOOLEAN /\ published' \in BOOLEAN
        /\ stopDue' \in BOOLEAN /\ closing' \in BOOLEAN
        /\ misled' \in BOOLEAN
    BY <1>32, <1>p DEF TypeOK, Stop, tracks, control, attempt, commands, past, bounds
  <2>3. /\ lock' \in {"free", "worker", "command"}
        /\ pc' \in WorkerPcs
        /\ handle' \in {"none", "playing", "paused"} \cup Ended
        /\ end' \in {"none", "completed", "retry", "halt"}
        /\ backendTried' \in SUBSET Items /\ mediaTried' \in SUBSET Items
        /\ cmd' \in {"none", "enqueue", "replace"}
        /\ pausing' \in {"none", "here", "old"}
        /\ lease' \in {"none", "live", "dead"}
        /\ next' \in Nat /\ troubles' \in Nat /\ wishes' \in Nat
        /\ excused' \in SUBSET Items
    BY <1>32, <1>p DEF TypeOK, Stop, tracks, control, attempt, commands, past, bounds,
             WorkerPcs, Ended
  <2> QED BY <2>1, <2>2, <2>3 DEF TypeOK
<1>33. ASSUME Pause
       PROVE  TypeOK'
  BY <1>33, <1>p DEF TypeOK, Pause, Wish, Turn, Free, tracks, control, attempt, commands, past,
         bounds, Default, Policies, WorkerPcs, Ended
<1>34. ASSUME PauseNoted
       PROVE  TypeOK'
  BY <1>34, <1>p DEF TypeOK, PauseNoted, Wish, Turn, Free, tracks, control, attempt, commands,
         past, bounds, Default, Policies, WorkerPcs, Ended
<1>35. ASSUME Resume
       PROVE  TypeOK'
  BY <1>35, <1>p DEF TypeOK, Resume, Wish, Turn, Free, tracks, control, attempt, commands, past,
         bounds, Default, Policies, WorkerPcs, Ended
<1>36. ASSUME LoseVoice
       PROVE  TypeOK'
  BY <1>36, <1>p DEF TypeOK, LoseVoice, Trouble, tracks, control, attempt, commands, past,
         bounds, Default, Policies, WorkerPcs, Ended
<1>37. ASSUME Aclose
       PROVE  TypeOK'
  BY <1>37, AcloseDoes, <1>p DEF TypeOK, Aclose, tracks, control, attempt, commands, past,
         bounds, Default, Policies, WorkerPcs, Ended
<1>38. ASSUME CloseGateway
       PROVE  TypeOK'
  BY <1>38, <1>p DEF TypeOK, CloseGateway, Free, tracks, control, attempt, commands, past,
         bounds, Default, Policies, WorkerPcs, Ended
<1>39. ASSUME UNCHANGED vars
       PROVE  TypeOK'
  BY <1>39, <1>p DEF TypeOK, vars, tracks, control, attempt, commands, past, bounds, Default,
         Policies, WorkerPcs, Ended
<1> QED BY <1>1, <1>2, <1>3, <1>4, <1>5, <1>6, <1>7, <1>8, <1>9, <1>10, <1>11, <1>12, <1>13,
        <1>14, <1>15, <1>16, <1>17, <1>18, <1>19, <1>20, <1>21, <1>22, <1>23, <1>24, <1>25,
        <1>26, <1>27, <1>28, <1>29, <1>30, <1>31, <1>32, <1>33, <1>34, <1>35, <1>36, <1>37,
        <1>38, <1>39, <1>p
        DEF Next, Result, Granted

-----------------------------------------------------------------------------
(* ---- The worker, its tracks and what it owes ---- *)

(* Every step keeps the worker where its track, its end and the lock say. *)
LEMMA WorkerAgreesStep == IInv /\ [Next]_vars => WorkerAgrees'
<1> SUFFICES ASSUME IInv, [Next]_vars PROVE WorkerAgrees'
  OBVIOUS
<1>p. /\ TypeOK /\ WorkerAgrees /\ TracksApart /\ EndsAreExcused /\ NoTrackLost
      /\ GaveUp /\ LeaseOwned /\ PauseIsNoted
  BY DEF IInv
<1>1. ASSUME Take
      PROVE  WorkerAgrees'
  BY <1>1, TakeDoes, <1>p DEF Take, Free, tracks, control, attempt, commands, past, bounds,
         WorkerAgrees, Attempting, Fits
<1>2. ASSUME BeginDrain
      PROVE  WorkerAgrees'
  BY <1>2, <1>p DEF BeginDrain, Free, Trouble, Recycles, Fails, tracks, control, attempt,
         commands, past, bounds, WorkerAgrees, Attempting, Fits
<1>3. ASSUME Drained
      PROVE  WorkerAgrees'
  BY <1>3, <1>p DEF Drained, Free, Trouble, Recycles, Fails, tracks, control, attempt, commands,
         past, bounds, WorkerAgrees, Attempting, Fits
<1>4. ASSUME DrainFails
      PROVE  WorkerAgrees'
  BY <1>4, <1>p DEF DrainFails, Free, Trouble, Recycles, Fails, tracks, control, attempt,
         commands, past, bounds, WorkerAgrees, Attempting, Fits
<1>5. ASSUME Resolved
      PROVE  WorkerAgrees'
  BY <1>5, <1>p DEF Resolved, Free, Trouble, Recycles, Fails, tracks, control, attempt,
         commands, past, bounds, WorkerAgrees, Attempting, Fits
<1>6. ASSUME Started
      PROVE  WorkerAgrees'
  BY <1>6, <1>p DEF Started, Free, Trouble, Recycles, Fails, tracks, control, attempt, commands,
         past, bounds, WorkerAgrees, Attempting, Fits
<1>7. ASSUME TrackFails
      PROVE  WorkerAgrees'
  BY <1>7, <1>p DEF TrackFails, Free, Trouble, Fails, MayRetry, tracks, control, attempt,
         commands, past, bounds, WorkerAgrees, Attempting, Fits
<1>8. ASSUME BackendErrs
      PROVE  WorkerAgrees'
  BY <1>8, <1>p DEF BackendErrs, Free, Trouble, Fails, MayRetry, tracks, control, attempt,
         commands, past, bounds, WorkerAgrees, Attempting, Fits
<1>9. ASSUME DecoderErrs
      PROVE  WorkerAgrees'
  BY <1>9, <1>p DEF DecoderErrs, Free, Trouble, Fails, MayRetry, tracks, control, attempt,
         commands, past, bounds, WorkerAgrees, Attempting, Fits
<1>10. ASSUME PlaybackEnds
       PROVE  WorkerAgrees'
  BY <1>10, <1>p DEF PlaybackEnds, Trouble, tracks, control, attempt, commands, past, bounds,
         WorkerAgrees, Attempting, Fits
<1>11. ASSUME Result, TrackFinished
       PROVE  WorkerAgrees'
  BY <1>11, <1>p DEF Result, TrackFinished, Free, Fails, MayRetry, tracks, control, attempt,
         commands, past, bounds, WorkerAgrees, Attempting, Fits
<1>12. ASSUME Result, TrackStopped
       PROVE  WorkerAgrees'
  BY <1>12, <1>p DEF Result, TrackStopped, Free, Fails, MayRetry, tracks, control, attempt,
         commands, past, bounds, WorkerAgrees, Attempting, Fits
<1>13. ASSUME Result, BackendClosed
       PROVE  WorkerAgrees'
  BY <1>13, <1>p DEF Result, BackendClosed, Free, Fails, MayRetry, tracks, control, attempt,
         commands, past, bounds, WorkerAgrees, Attempting, Fits
<1>14. ASSUME Result, VoiceLeft
       PROVE  WorkerAgrees'
  BY <1>14, <1>p DEF Result, VoiceLeft, Free, Fails, MayRetry, tracks, control, attempt,
         commands, past, bounds, WorkerAgrees, Attempting, Fits
<1>15. ASSUME Result, VoiceGone
       PROVE  WorkerAgrees'
  BY <1>15, <1>p DEF Result, VoiceGone, Free, Fails, MayRetry, tracks, control, attempt,
         commands, past, bounds, WorkerAgrees, Attempting, Fits
<1>16. ASSUME Result, TrackBroke
       PROVE  WorkerAgrees'
  BY <1>16, <1>p DEF Result, TrackBroke, Free, Fails, MayRetry, tracks, control, attempt,
         commands, past, bounds, WorkerAgrees, Attempting, Fits
<1>17. ASSUME ResetVoice
       PROVE  WorkerAgrees'
  BY <1>17, <1>p DEF ResetVoice, Free, Trouble, tracks, control, attempt, commands, past,
         bounds, WorkerAgrees, Attempting, Fits
<1>18. ASSUME AcquireVoice
       PROVE  WorkerAgrees'
  BY <1>18, <1>p DEF AcquireVoice, Free, Trouble, tracks, control, attempt, commands, past,
         bounds, WorkerAgrees, Attempting, Fits
<1>19. ASSUME Reacquired
       PROVE  WorkerAgrees'
  BY <1>19, <1>p DEF Reacquired, Free, Trouble, tracks, control, attempt, commands, past,
         bounds, WorkerAgrees, Attempting, Fits
<1>20. ASSUME FinishAttempt
       PROVE  WorkerAgrees'
  BY <1>20, AttemptEndsDoes, <1>p DEF FinishAttempt, AttemptEnds, Free, tracks, control,
         attempt, commands, past, bounds, WorkerAgrees, Attempting, Fits
<1>21. ASSUME GiveUp
       PROVE  WorkerAgrees'
  BY <1>21, AttemptEndsDoes, <1>p DEF GiveUp, AttemptEnds, SessionCloses, Free, tracks, control,
         attempt, commands, past, bounds, WorkerAgrees, Attempting, Fits
<1>22. ASSUME CloseSession
       PROVE  WorkerAgrees'
  BY <1>22, <1>p DEF CloseSession, SessionCloses, Free, tracks, control, attempt, commands,
         past, bounds, WorkerAgrees, Attempting, Fits
<1>23. ASSUME Closed
       PROVE  WorkerAgrees'
  BY <1>23, <1>p DEF Closed, Trouble, tracks, control, attempt, commands, past, bounds,
         WorkerAgrees, Attempting, Fits
<1>24. ASSUME NEW op, Request(op), reserved
       PROVE  WorkerAgrees'
  BY <1>24, Applied, AppliedElsewhere, <1>p DEF Request, Free, Turn, tracks, control, attempt,
         commands, past, bounds, WorkerAgrees, Attempting, Fits
<1>25. ASSUME NEW op \in {"enqueue", "replace"}, Request(op), ~reserved
       PROVE  WorkerAgrees'
  BY <1>25, <1>p DEF Request, Free, Turn, tracks, control, attempt, commands, past, bounds,
         WorkerAgrees, Attempting, Fits
<1>26. ASSUME Granted, ~closing, Apply(cmd)
       PROVE  WorkerAgrees'
  BY <1>26, Applied, AppliedElsewhere, <1>p DEF Granted, tracks, control, attempt, commands,
         past, bounds, WorkerAgrees, Attempting, Fits
<1>27. ASSUME Granted, closing
       PROVE  WorkerAgrees'
  BY <1>27, <1>p DEF Granted, tracks, control, attempt, commands, past, bounds, WorkerAgrees,
         Attempting, Fits
<1>28. ASSUME Denied
       PROVE  WorkerAgrees'
  BY <1>28, <1>p DEF Denied, Trouble, tracks, control, attempt, commands, past, bounds,
         WorkerAgrees, Attempting, Fits
<1>29. ASSUME Skip
       PROVE  WorkerAgrees'
  BY <1>29, <1>p DEF Skip, Turn, Free, tracks, control, attempt, commands, past, bounds,
         WorkerAgrees, Attempting, Fits
<1>30. ASSUME Clear
       PROVE  WorkerAgrees'
  BY <1>30, <1>p DEF Clear, WakeIdle, StartWorker, Turn, Free, tracks, control, attempt,
         commands, past, bounds, WorkerAgrees, Attempting, Fits
<1>31. ASSUME SetPolicy
       PROVE  WorkerAgrees'
  BY <1>31, <1>p DEF SetPolicy, Wish, Turn, Free, tracks, control, attempt, commands, past,
         bounds, WorkerAgrees, Attempting, Fits
<1>32. ASSUME Stop
       PROVE  WorkerAgrees'
  BY <1>32, <1>p DEF Stop, tracks, control, attempt, commands, past, bounds, WorkerAgrees,
         Attempting, Fits
<1>33. ASSUME Pause
       PROVE  WorkerAgrees'
  BY <1>33, <1>p DEF Pause, Wish, Turn, Free, tracks, control, attempt, commands, past, bounds,
         WorkerAgrees, Attempting, Fits
<1>34. ASSUME PauseNoted
       PROVE  WorkerAgrees'
  BY <1>34, <1>p DEF PauseNoted, Wish, Turn, Free, tracks, control, attempt, commands, past,
         bounds, WorkerAgrees, Attempting, Fits
<1>35. ASSUME Resume
       PROVE  WorkerAgrees'
  BY <1>35, <1>p DEF Resume, Wish, Turn, Free, tracks, control, attempt, commands, past, bounds,
         WorkerAgrees, Attempting, Fits
<1>36. ASSUME LoseVoice
       PROVE  WorkerAgrees'
  BY <1>36, <1>p DEF LoseVoice, Trouble, tracks, control, attempt, commands, past, bounds,
         WorkerAgrees, Attempting, Fits
<1>37. ASSUME Aclose
       PROVE  WorkerAgrees'
  BY <1>37, AcloseDoes, <1>p DEF Aclose, tracks, control, attempt, commands, past, bounds,
         WorkerAgrees, Attempting, Fits
<1>38. ASSUME CloseGateway
       PROVE  WorkerAgrees'
  BY <1>38, <1>p DEF CloseGateway, Free, tracks, control, attempt, commands, past, bounds,
         WorkerAgrees, Attempting, Fits
<1>39. ASSUME UNCHANGED vars
       PROVE  WorkerAgrees'
  BY <1>39, <1>p DEF vars, tracks, control, attempt, commands, past, bounds, WorkerAgrees,
         Attempting, Fits
<1> QED BY <1>1, <1>2, <1>3, <1>4, <1>5, <1>6, <1>7, <1>8, <1>9, <1>10, <1>11, <1>12, <1>13,
        <1>14, <1>15, <1>16, <1>17, <1>18, <1>19, <1>20, <1>21, <1>22, <1>23, <1>24, <1>25,
        <1>26, <1>27, <1>28, <1>29, <1>30, <1>31, <1>32, <1>33, <1>34, <1>35, <1>36, <1>37,
        <1>38, <1>39, <1>p
        DEF Next, Result, Granted

(* Every step leaves the tracks apart. *)
LEMMA TracksApartStep == IInv /\ [Next]_vars => TracksApart'
<1> SUFFICES ASSUME IInv, [Next]_vars PROVE TracksApart'
  OBVIOUS
<1>p. /\ TypeOK /\ WorkerAgrees /\ TracksApart /\ EndsAreExcused /\ NoTrackLost
      /\ GaveUp /\ LeaseOwned /\ PauseIsNoted
  BY DEF IInv
<1>n. /\ \A i \in Here : i \in Nat /\ i < next
      /\ next \in Nat /\ next < next + 1 /\ \A i \in Nat : i < next => i < next + 1
      /\ Nothing \notin Items
  BY <1>p, Apart DEF TypeOK, TracksApart, Here, Items, Nothing
<1>w. lock = "command" => next <= MaxItems
  BY <1>p DEF WorkerAgrees
<1>1. ASSUME Take
      PROVE  TracksApart'
  BY <1>1, <1>p, TakeDoes, Apart DEF TracksApart, Take, Free, tracks, control, attempt,
         commands, past, bounds, Waiting, TypeOK, Here
<1>2. ASSUME BeginDrain
      PROVE  TracksApart'
  BY <1>2, <1>p DEF TracksApart, BeginDrain, Free, Trouble, Recycles, Fails, tracks, control,
         attempt, commands, past, bounds, Waiting, TypeOK, Here
<1>3. ASSUME Drained
      PROVE  TracksApart'
  BY <1>3, <1>p, ShortQueues, Apart DEF TracksApart, Drained, Free, Trouble, Recycles, Fails,
         tracks, control, attempt, commands, past, bounds, Waiting, TypeOK, Here
<1>4. ASSUME DrainFails
      PROVE  TracksApart'
  BY <1>4, <1>p DEF TracksApart, DrainFails, Free, Trouble, Recycles, Fails, tracks, control,
         attempt, commands, past, bounds, Waiting, TypeOK, Here
<1>5. ASSUME Resolved
      PROVE  TracksApart'
  BY <1>5, <1>p DEF TracksApart, Resolved, Free, Trouble, Recycles, Fails, tracks, control,
         attempt, commands, past, bounds, Waiting, TypeOK, Here
<1>6. ASSUME Started
      PROVE  TracksApart'
  BY <1>6, <1>p DEF TracksApart, Started, Free, Trouble, Recycles, Fails, tracks, control,
         attempt, commands, past, bounds, Waiting, TypeOK, Here
<1>7. ASSUME TrackFails
      PROVE  TracksApart'
  BY <1>7, <1>p DEF TracksApart, TrackFails, Free, Trouble, Fails, MayRetry, tracks, control,
         attempt, commands, past, bounds, Waiting, TypeOK, Here
<1>8. ASSUME BackendErrs
      PROVE  TracksApart'
  BY <1>8, <1>p DEF TracksApart, BackendErrs, Free, Trouble, Fails, MayRetry, tracks, control,
         attempt, commands, past, bounds, Waiting, TypeOK, Here
<1>9. ASSUME DecoderErrs
      PROVE  TracksApart'
  BY <1>9, <1>p DEF TracksApart, DecoderErrs, Free, Trouble, Fails, MayRetry, tracks, control,
         attempt, commands, past, bounds, Waiting, TypeOK, Here
<1>10. ASSUME PlaybackEnds
       PROVE  TracksApart'
  BY <1>10, <1>p DEF TracksApart, PlaybackEnds, Trouble, tracks, control, attempt, commands,
         past, bounds, Waiting, TypeOK, Here
<1>11. ASSUME Result, TrackFinished
       PROVE  TracksApart'
  BY <1>11, <1>p DEF TracksApart, Result, TrackFinished, Free, Fails, MayRetry, tracks, control,
         attempt, commands, past, bounds, Waiting, TypeOK, Here
<1>12. ASSUME Result, TrackStopped
       PROVE  TracksApart'
  BY <1>12, <1>p DEF TracksApart, Result, TrackStopped, Free, Fails, MayRetry, tracks, control,
         attempt, commands, past, bounds, Waiting, TypeOK, Here
<1>13. ASSUME Result, BackendClosed
       PROVE  TracksApart'
  BY <1>13, <1>p DEF TracksApart, Result, BackendClosed, Free, Fails, MayRetry, tracks, control,
         attempt, commands, past, bounds, Waiting, TypeOK, Here
<1>14. ASSUME Result, VoiceLeft
       PROVE  TracksApart'
  BY <1>14, <1>p DEF TracksApart, Result, VoiceLeft, Free, Fails, MayRetry, tracks, control,
         attempt, commands, past, bounds, Waiting, TypeOK, Here
<1>15. ASSUME Result, VoiceGone
       PROVE  TracksApart'
  BY <1>15, <1>p DEF TracksApart, Result, VoiceGone, Free, Fails, MayRetry, tracks, control,
         attempt, commands, past, bounds, Waiting, TypeOK, Here
<1>16. ASSUME Result, TrackBroke
       PROVE  TracksApart'
  BY <1>16, <1>p DEF TracksApart, Result, TrackBroke, Free, Fails, MayRetry, tracks, control,
         attempt, commands, past, bounds, Waiting, TypeOK, Here
<1>17. ASSUME ResetVoice
       PROVE  TracksApart'
  BY <1>17, <1>p DEF TracksApart, ResetVoice, Free, Trouble, tracks, control, attempt, commands,
         past, bounds, Waiting, TypeOK, Here
<1>18. ASSUME AcquireVoice
       PROVE  TracksApart'
  BY <1>18, <1>p DEF TracksApart, AcquireVoice, Free, Trouble, tracks, control, attempt,
         commands, past, bounds, Waiting, TypeOK, Here
<1>19. ASSUME Reacquired
       PROVE  TracksApart'
  BY <1>19, <1>p DEF TracksApart, Reacquired, Free, Trouble, tracks, control, attempt, commands,
         past, bounds, Waiting, TypeOK, Here
<1>20. ASSUME FinishAttempt
       PROVE  TracksApart'
  BY <1>20, <1>p, AttemptEndsDoes, Apart, <1>n DEF TracksApart, FinishAttempt, AttemptEnds,
         Free, tracks, control, attempt, commands, past, bounds, WorkerAgrees, Attempting, Waiting,
         TypeOK, Here
<1>21. ASSUME GiveUp
       PROVE  TracksApart'
  BY <1>21, <1>p, AttemptEndsDoes, Apart, <1>n DEF TracksApart, GiveUp, AttemptEnds,
         SessionCloses, Free, tracks, control, attempt, commands, past, bounds, WorkerAgrees,
         Attempting, Waiting, TypeOK, Here
<1>22. ASSUME CloseSession
       PROVE  TracksApart'
  BY <1>22, <1>p, Apart DEF TracksApart, CloseSession, SessionCloses, Free, tracks, control,
         attempt, commands, past, bounds, Waiting, TypeOK, Here
<1>23. ASSUME Closed
       PROVE  TracksApart'
  BY <1>23, <1>p DEF TracksApart, Closed, Trouble, tracks, control, attempt, commands, past,
         bounds, Waiting, TypeOK, Here
<1>24. ASSUME NEW op, Request(op), reserved
       PROVE  TracksApart'
  BY <1>24, <1>p, Applied, AppliedElsewhere, Apart, <1>n, <1>w DEF TracksApart, Request, Free,
         Turn, tracks, control, attempt, commands, past, bounds, WorkerAgrees, Waiting, Here, TypeOK
<1>25. ASSUME NEW op \in {"enqueue", "replace"}, Request(op), ~reserved
       PROVE  TracksApart'
  BY <1>25, <1>p DEF TracksApart, Request, Free, Turn, tracks, control, attempt, commands, past,
         bounds, Waiting, TypeOK, Here
<1>26. ASSUME Granted, ~closing, Apply(cmd)
       PROVE  TracksApart'
  BY <1>26, <1>p, Applied, AppliedElsewhere, Apart, <1>n, <1>w DEF TracksApart, Granted, tracks,
         control, attempt, commands, past, bounds, WorkerAgrees, Waiting, Here, TypeOK
<1>27. ASSUME Granted, closing
       PROVE  TracksApart'
  BY <1>27, <1>p DEF TracksApart, Granted, tracks, control, attempt, commands, past, bounds,
         Waiting, TypeOK, Here
<1>28. ASSUME Denied
       PROVE  TracksApart'
  BY <1>28, <1>p DEF TracksApart, Denied, Trouble, tracks, control, attempt, commands, past,
         bounds, Waiting, TypeOK, Here
<1>29. ASSUME Skip
       PROVE  TracksApart'
  BY <1>29, <1>p DEF TracksApart, Skip, Turn, Free, tracks, control, attempt, commands, past,
         bounds, Waiting, TypeOK, Here
<1>30. ASSUME Clear
       PROVE  TracksApart'
  BY <1>30, <1>p, ShortQueues, Apart DEF TracksApart, Clear, WakeIdle, StartWorker, Turn, Free,
         tracks, control, attempt, commands, past, bounds, Waiting, TypeOK, Here
<1>31. ASSUME SetPolicy
       PROVE  TracksApart'
  BY <1>31, <1>p DEF TracksApart, SetPolicy, Wish, Turn, Free, tracks, control, attempt,
         commands, past, bounds, Waiting, TypeOK, Here
<1>32. ASSUME Stop
       PROVE  TracksApart'
  BY <1>32, <1>p DEF TracksApart, Stop, tracks, control, attempt, commands, past, bounds,
         Waiting, TypeOK, Here
<1>33. ASSUME Pause
       PROVE  TracksApart'
  BY <1>33, <1>p DEF TracksApart, Pause, Wish, Turn, Free, tracks, control, attempt, commands,
         past, bounds, Waiting, TypeOK, Here
<1>34. ASSUME PauseNoted
       PROVE  TracksApart'
  BY <1>34, <1>p DEF TracksApart, PauseNoted, Wish, Turn, Free, tracks, control, attempt,
         commands, past, bounds, Waiting, TypeOK, Here
<1>35. ASSUME Resume
       PROVE  TracksApart'
  BY <1>35, <1>p DEF TracksApart, Resume, Wish, Turn, Free, tracks, control, attempt, commands,
         past, bounds, Waiting, TypeOK, Here
<1>36. ASSUME LoseVoice
       PROVE  TracksApart'
  BY <1>36, <1>p DEF TracksApart, LoseVoice, Trouble, tracks, control, attempt, commands, past,
         bounds, Waiting, TypeOK, Here
<1>37. ASSUME Aclose
       PROVE  TracksApart'
  BY <1>37, <1>p, AcloseDoes DEF TracksApart, Aclose, tracks, control, attempt, commands, past,
         bounds, Waiting, TypeOK, Here
<1>38. ASSUME CloseGateway
       PROVE  TracksApart'
  BY <1>38, <1>p DEF TracksApart, CloseGateway, Free, tracks, control, attempt, commands, past,
         bounds, Waiting, TypeOK, Here
<1>39. ASSUME UNCHANGED vars
       PROVE  TracksApart'
  BY <1>39, <1>p DEF TracksApart, vars, tracks, control, attempt, commands, past, bounds,
         Waiting, TypeOK, Here
<1> QED BY <1>1, <1>2, <1>3, <1>4, <1>5, <1>6, <1>7, <1>8, <1>9, <1>10, <1>11, <1>12, <1>13,
        <1>14, <1>15, <1>16, <1>17, <1>18, <1>19, <1>20, <1>21, <1>22, <1>23, <1>24, <1>25,
        <1>26, <1>27, <1>28, <1>29, <1>30, <1>31, <1>32, <1>33, <1>34, <1>35, <1>36, <1>37,
        <1>38, <1>39, <1>p
        DEF Next, Result, Granted

(* Every step excuses the tracks it skips, fails or finishes. *)
LEMMA EndsAreExcusedStep == IInv /\ [Next]_vars => EndsAreExcused'
<1> SUFFICES ASSUME IInv, [Next]_vars PROVE EndsAreExcused'
  OBVIOUS
<1>p. /\ TypeOK /\ WorkerAgrees /\ TracksApart /\ EndsAreExcused /\ NoTrackLost
      /\ GaveUp /\ LeaseOwned /\ PauseIsNoted
  BY DEF IInv
<1>w. lock = "command" => next <= MaxItems
  BY <1>p DEF WorkerAgrees
<1>1. ASSUME Take
      PROVE  EndsAreExcused'
  BY <1>1, <1>p, TakeDoes, Apart DEF EndsAreExcused, Take, Free, tracks, control, attempt,
         commands, past, bounds, WorkerAgrees, Attempting
<1>2. ASSUME BeginDrain
      PROVE  EndsAreExcused'
  BY <1>2, <1>p DEF EndsAreExcused, BeginDrain, Free, Trouble, Recycles, Fails, tracks, control,
         attempt, commands, past, bounds, WorkerAgrees, Attempting
<1>3. ASSUME Drained
      PROVE  EndsAreExcused'
  BY <1>3, <1>p, ShortQueues, Apart DEF EndsAreExcused, Drained, Free, Trouble, Recycles, Fails,
         tracks, control, attempt, commands, past, bounds, WorkerAgrees, Attempting
<1>4. ASSUME DrainFails
      PROVE  EndsAreExcused'
  BY <1>4, <1>p DEF EndsAreExcused, DrainFails, Free, Trouble, Recycles, Fails, tracks, control,
         attempt, commands, past, bounds, WorkerAgrees, Attempting
<1>5. ASSUME Resolved
      PROVE  EndsAreExcused'
  BY <1>5, <1>p DEF EndsAreExcused, Resolved, Free, Trouble, Recycles, Fails, tracks, control,
         attempt, commands, past, bounds, WorkerAgrees, Attempting
<1>6. ASSUME Started
      PROVE  EndsAreExcused'
  BY <1>6, <1>p DEF EndsAreExcused, Started, Free, Trouble, Recycles, Fails, tracks, control,
         attempt, commands, past, bounds, WorkerAgrees, Attempting
<1>7. ASSUME TrackFails
      PROVE  EndsAreExcused'
  BY <1>7, <1>p DEF EndsAreExcused, TrackFails, Free, Trouble, Fails, MayRetry, tracks, control,
         attempt, commands, past, bounds, WorkerAgrees, Attempting
<1>8. ASSUME BackendErrs
      PROVE  EndsAreExcused'
  BY <1>8, <1>p DEF EndsAreExcused, BackendErrs, Free, Trouble, Fails, MayRetry, tracks,
         control, attempt, commands, past, bounds, WorkerAgrees, Attempting
<1>9. ASSUME DecoderErrs
      PROVE  EndsAreExcused'
  BY <1>9, <1>p DEF EndsAreExcused, DecoderErrs, Free, Trouble, Fails, MayRetry, tracks,
         control, attempt, commands, past, bounds, WorkerAgrees, Attempting
<1>10. ASSUME PlaybackEnds
       PROVE  EndsAreExcused'
  BY <1>10, <1>p DEF EndsAreExcused, PlaybackEnds, Trouble, tracks, control, attempt, commands,
         past, bounds, WorkerAgrees, Attempting
<1>11. ASSUME Result, TrackFinished
       PROVE  EndsAreExcused'
  BY <1>11, <1>p DEF EndsAreExcused, Result, TrackFinished, Free, Fails, MayRetry, tracks,
         control, attempt, commands, past, bounds, WorkerAgrees, Attempting
<1>12. ASSUME Result, TrackStopped
       PROVE  EndsAreExcused'
  BY <1>12, <1>p DEF EndsAreExcused, Result, TrackStopped, Free, Fails, MayRetry, tracks,
         control, attempt, commands, past, bounds, WorkerAgrees, Attempting
<1>13. ASSUME Result, BackendClosed
       PROVE  EndsAreExcused'
  BY <1>13, <1>p DEF EndsAreExcused, Result, BackendClosed, Free, Fails, MayRetry, tracks,
         control, attempt, commands, past, bounds, WorkerAgrees, Attempting
<1>14. ASSUME Result, VoiceLeft
       PROVE  EndsAreExcused'
  BY <1>14, <1>p DEF EndsAreExcused, Result, VoiceLeft, Free, Fails, MayRetry, tracks, control,
         attempt, commands, past, bounds, WorkerAgrees, Attempting
<1>15. ASSUME Result, VoiceGone
       PROVE  EndsAreExcused'
  BY <1>15, <1>p DEF EndsAreExcused, Result, VoiceGone, Free, Fails, MayRetry, tracks, control,
         attempt, commands, past, bounds, WorkerAgrees, Attempting
<1>16. ASSUME Result, TrackBroke
       PROVE  EndsAreExcused'
  BY <1>16, <1>p DEF EndsAreExcused, Result, TrackBroke, Free, Fails, MayRetry, tracks, control,
         attempt, commands, past, bounds, WorkerAgrees, Attempting
<1>17. ASSUME ResetVoice
       PROVE  EndsAreExcused'
  BY <1>17, <1>p DEF EndsAreExcused, ResetVoice, Free, Trouble, tracks, control, attempt,
         commands, past, bounds, WorkerAgrees, Attempting
<1>18. ASSUME AcquireVoice
       PROVE  EndsAreExcused'
  BY <1>18, <1>p DEF EndsAreExcused, AcquireVoice, Free, Trouble, tracks, control, attempt,
         commands, past, bounds, WorkerAgrees, Attempting
<1>19. ASSUME Reacquired
       PROVE  EndsAreExcused'
  BY <1>19, <1>p DEF EndsAreExcused, Reacquired, Free, Trouble, tracks, control, attempt,
         commands, past, bounds, WorkerAgrees, Attempting
<1>20. ASSUME FinishAttempt
       PROVE  EndsAreExcused'
  BY <1>20, <1>p, AttemptEndsDoes, Apart DEF EndsAreExcused, FinishAttempt, AttemptEnds, Free,
         tracks, control, attempt, commands, past, bounds, WorkerAgrees, Attempting, Retained
<1>21. ASSUME GiveUp
       PROVE  EndsAreExcused'
  BY <1>21, <1>p, AttemptEndsDoes, Apart DEF EndsAreExcused, GiveUp, AttemptEnds, SessionCloses,
         Free, tracks, control, attempt, commands, past, bounds, WorkerAgrees, Attempting, Retained
<1>22. ASSUME CloseSession
       PROVE  EndsAreExcused'
  BY <1>22, <1>p DEF EndsAreExcused, CloseSession, SessionCloses, Free, tracks, control,
         attempt, commands, past, bounds, WorkerAgrees, Attempting
<1>23. ASSUME Closed
       PROVE  EndsAreExcused'
  BY <1>23, <1>p DEF EndsAreExcused, Closed, Trouble, tracks, control, attempt, commands, past,
         bounds, WorkerAgrees, Attempting
<1>24. ASSUME NEW op, Request(op), reserved
       PROVE  EndsAreExcused'
  BY <1>24, <1>p, Applied, AppliedElsewhere, <1>w DEF EndsAreExcused, Request, Free, Turn,
         tracks, control, attempt, commands, past, bounds, WorkerAgrees, Attempting
<1>25. ASSUME NEW op \in {"enqueue", "replace"}, Request(op), ~reserved
       PROVE  EndsAreExcused'
  BY <1>25, <1>p DEF EndsAreExcused, Request, Free, Turn, tracks, control, attempt, commands,
         past, bounds, WorkerAgrees, Attempting
<1>26. ASSUME Granted, ~closing, Apply(cmd)
       PROVE  EndsAreExcused'
  BY <1>26, <1>p, Applied, AppliedElsewhere, <1>w DEF EndsAreExcused, Granted, tracks, control,
         attempt, commands, past, bounds, WorkerAgrees, Attempting
<1>27. ASSUME Granted, closing
       PROVE  EndsAreExcused'
  BY <1>27, <1>p DEF EndsAreExcused, Granted, tracks, control, attempt, commands, past, bounds,
         WorkerAgrees, Attempting
<1>28. ASSUME Denied
       PROVE  EndsAreExcused'
  BY <1>28, <1>p DEF EndsAreExcused, Denied, Trouble, tracks, control, attempt, commands, past,
         bounds, WorkerAgrees, Attempting
<1>29. ASSUME Skip
       PROVE  EndsAreExcused'
  BY <1>29, <1>p DEF EndsAreExcused, Skip, Turn, Free, tracks, control, attempt, commands, past,
         bounds, WorkerAgrees, Attempting
<1>30. ASSUME Clear
       PROVE  EndsAreExcused'
  BY <1>30, <1>p, ShortQueues, Apart DEF EndsAreExcused, Clear, WakeIdle, StartWorker, Turn,
         Free, tracks, control, attempt, commands, past, bounds, WorkerAgrees, Attempting, Here
<1>31. ASSUME SetPolicy
       PROVE  EndsAreExcused'
  BY <1>31, <1>p DEF EndsAreExcused, SetPolicy, Wish, Turn, Free, tracks, control, attempt,
         commands, past, bounds, WorkerAgrees, Attempting
<1>32. ASSUME Stop
       PROVE  EndsAreExcused'
  BY <1>32, <1>p DEF EndsAreExcused, Stop, tracks, control, attempt, commands, past, bounds,
         WorkerAgrees, Attempting
<1>33. ASSUME Pause
       PROVE  EndsAreExcused'
  BY <1>33, <1>p DEF EndsAreExcused, Pause, Wish, Turn, Free, tracks, control, attempt,
         commands, past, bounds, WorkerAgrees, Attempting
<1>34. ASSUME PauseNoted
       PROVE  EndsAreExcused'
  BY <1>34, <1>p DEF EndsAreExcused, PauseNoted, Wish, Turn, Free, tracks, control, attempt,
         commands, past, bounds, WorkerAgrees, Attempting
<1>35. ASSUME Resume
       PROVE  EndsAreExcused'
  BY <1>35, <1>p DEF EndsAreExcused, Resume, Wish, Turn, Free, tracks, control, attempt,
         commands, past, bounds, WorkerAgrees, Attempting
<1>36. ASSUME LoseVoice
       PROVE  EndsAreExcused'
  BY <1>36, <1>p DEF EndsAreExcused, LoseVoice, Trouble, tracks, control, attempt, commands,
         past, bounds, WorkerAgrees, Attempting
<1>37. ASSUME Aclose
       PROVE  EndsAreExcused'
  BY <1>37, <1>p, AcloseDoes DEF EndsAreExcused, Aclose, tracks, control, attempt, commands,
         past, bounds, WorkerAgrees, Attempting
<1>38. ASSUME CloseGateway
       PROVE  EndsAreExcused'
  BY <1>38, <1>p DEF EndsAreExcused, CloseGateway, Free, tracks, control, attempt, commands,
         past, bounds, WorkerAgrees, Attempting
<1>39. ASSUME UNCHANGED vars
       PROVE  EndsAreExcused'
  BY <1>39, <1>p DEF EndsAreExcused, vars, tracks, control, attempt, commands, past, bounds,
         WorkerAgrees, Attempting
<1> QED BY <1>1, <1>2, <1>3, <1>4, <1>5, <1>6, <1>7, <1>8, <1>9, <1>10, <1>11, <1>12, <1>13,
        <1>14, <1>15, <1>16, <1>17, <1>18, <1>19, <1>20, <1>21, <1>22, <1>23, <1>24, <1>25,
        <1>26, <1>27, <1>28, <1>29, <1>30, <1>31, <1>32, <1>33, <1>34, <1>35, <1>36, <1>37,
        <1>38, <1>39, <1>p
        DEF Next, Result, Granted

(* Every step keeps the tracks that are not excused. *)
LEMMA NoTrackLostStep == IInv /\ [Next]_vars => NoTrackLost'
<1> SUFFICES ASSUME IInv, [Next]_vars PROVE NoTrackLost'
  OBVIOUS
<1>p. /\ TypeOK /\ WorkerAgrees /\ TracksApart /\ EndsAreExcused /\ NoTrackLost
      /\ GaveUp /\ LeaseOwned /\ PauseIsNoted
  BY DEF IInv
<1>w. lock = "command" => next <= MaxItems
  BY <1>p DEF WorkerAgrees
<1>n. \A i \in Items : i \in Nat /\ (i < next + 1 => i = next \/ i < next)
  BY <1>p DEF TypeOK, Items
<1>e. end \in {"none", "completed", "retry", "halt"}
  BY <1>p DEF TypeOK
<1>1. ASSUME Take
      PROVE  NoTrackLost'
  BY <1>1, <1>p, TakeDoes, Apart DEF NoTrackLost, Take, Free, tracks, control, attempt,
         commands, past, bounds, WorkerAgrees, Here, Waiting
<1>2. ASSUME BeginDrain
      PROVE  NoTrackLost'
  BY <1>2, <1>p DEF NoTrackLost, BeginDrain, Free, Trouble, Recycles, Fails, tracks, control,
         attempt, commands, past, bounds, Here, Waiting
<1>3. ASSUME Drained
      PROVE  NoTrackLost'
  BY <1>3, <1>p, ShortQueues, Apart DEF NoTrackLost, Drained, Free, Trouble, Recycles, Fails,
         tracks, control, attempt, commands, past, bounds, WorkerAgrees, EndsAreExcused, Here, Waiting
<1>4. ASSUME DrainFails
      PROVE  NoTrackLost'
  BY <1>4, <1>p DEF NoTrackLost, DrainFails, Free, Trouble, Recycles, Fails, tracks, control,
         attempt, commands, past, bounds, Here, Waiting
<1>5. ASSUME Resolved
      PROVE  NoTrackLost'
  BY <1>5, <1>p DEF NoTrackLost, Resolved, Free, Trouble, Recycles, Fails, tracks, control,
         attempt, commands, past, bounds, Here, Waiting
<1>6. ASSUME Started
      PROVE  NoTrackLost'
  BY <1>6, <1>p DEF NoTrackLost, Started, Free, Trouble, Recycles, Fails, tracks, control,
         attempt, commands, past, bounds, Here, Waiting
<1>7. ASSUME TrackFails
      PROVE  NoTrackLost'
  BY <1>7, <1>p DEF NoTrackLost, TrackFails, Free, Trouble, Fails, MayRetry, tracks, control,
         attempt, commands, past, bounds, Here, Waiting
<1>8. ASSUME BackendErrs
      PROVE  NoTrackLost'
  BY <1>8, <1>p DEF NoTrackLost, BackendErrs, Free, Trouble, Fails, MayRetry, tracks, control,
         attempt, commands, past, bounds, Here, Waiting
<1>9. ASSUME DecoderErrs
      PROVE  NoTrackLost'
  BY <1>9, <1>p DEF NoTrackLost, DecoderErrs, Free, Trouble, Fails, MayRetry, tracks, control,
         attempt, commands, past, bounds, Here, Waiting
<1>10. ASSUME PlaybackEnds
       PROVE  NoTrackLost'
  BY <1>10, <1>p DEF NoTrackLost, PlaybackEnds, Trouble, tracks, control, attempt, commands,
         past, bounds, Here, Waiting
<1>11. ASSUME Result, TrackFinished
       PROVE  NoTrackLost'
  BY <1>11, <1>p DEF NoTrackLost, Result, TrackFinished, Free, Fails, MayRetry, tracks, control,
         attempt, commands, past, bounds, Here, Waiting
<1>12. ASSUME Result, TrackStopped
       PROVE  NoTrackLost'
  BY <1>12, <1>p DEF NoTrackLost, Result, TrackStopped, Free, Fails, MayRetry, tracks, control,
         attempt, commands, past, bounds, Here, Waiting
<1>13. ASSUME Result, BackendClosed
       PROVE  NoTrackLost'
  BY <1>13, <1>p DEF NoTrackLost, Result, BackendClosed, Free, Fails, MayRetry, tracks, control,
         attempt, commands, past, bounds, Here, Waiting
<1>14. ASSUME Result, VoiceLeft
       PROVE  NoTrackLost'
  BY <1>14, <1>p DEF NoTrackLost, Result, VoiceLeft, Free, Fails, MayRetry, tracks, control,
         attempt, commands, past, bounds, Here, Waiting
<1>15. ASSUME Result, VoiceGone
       PROVE  NoTrackLost'
  BY <1>15, <1>p DEF NoTrackLost, Result, VoiceGone, Free, Fails, MayRetry, tracks, control,
         attempt, commands, past, bounds, Here, Waiting
<1>16. ASSUME Result, TrackBroke
       PROVE  NoTrackLost'
  BY <1>16, <1>p DEF NoTrackLost, Result, TrackBroke, Free, Fails, MayRetry, tracks, control,
         attempt, commands, past, bounds, Here, Waiting
<1>17. ASSUME ResetVoice
       PROVE  NoTrackLost'
  BY <1>17, <1>p DEF NoTrackLost, ResetVoice, Free, Trouble, tracks, control, attempt, commands,
         past, bounds, Here, Waiting
<1>18. ASSUME AcquireVoice
       PROVE  NoTrackLost'
  BY <1>18, <1>p DEF NoTrackLost, AcquireVoice, Free, Trouble, tracks, control, attempt,
         commands, past, bounds, Here, Waiting
<1>19. ASSUME Reacquired
       PROVE  NoTrackLost'
  BY <1>19, <1>p DEF NoTrackLost, Reacquired, Free, Trouble, tracks, control, attempt, commands,
         past, bounds, Here, Waiting
<1>20. ASSUME FinishAttempt
       PROVE  NoTrackLost'
  BY <1>20, <1>p, AttemptEndsDoes, Apart, <1>e DEF NoTrackLost, FinishAttempt, AttemptEnds,
         Free, tracks, control, attempt, commands, past, bounds, WorkerAgrees, Attempting, Retained,
         Returns, EndsAreExcused, Waiting, Here
<1>21. ASSUME GiveUp
       PROVE  NoTrackLost'
  BY <1>21, <1>p, AttemptEndsDoes, Apart, <1>e DEF NoTrackLost, GiveUp, AttemptEnds,
         SessionCloses, Free, tracks, control, attempt, commands, past, bounds, WorkerAgrees,
         Attempting, Retained, Returns, EndsAreExcused, Waiting, Here
<1>22. ASSUME CloseSession
       PROVE  NoTrackLost'
  BY <1>22, <1>p DEF NoTrackLost, CloseSession, SessionCloses, Free, tracks, control, attempt,
         commands, past, bounds, WorkerAgrees, Here, Waiting
<1>23. ASSUME Closed
       PROVE  NoTrackLost'
  BY <1>23, <1>p DEF NoTrackLost, Closed, Trouble, tracks, control, attempt, commands, past,
         bounds, Here, Waiting
<1>24. ASSUME NEW op, Request(op), reserved
       PROVE  NoTrackLost'
  BY <1>24, <1>p, Applied, AppliedElsewhere, <1>w, <1>n DEF NoTrackLost, Request, Free, Turn,
         tracks, control, attempt, commands, past, bounds, WorkerAgrees, Waiting, Here
<1>25. ASSUME NEW op \in {"enqueue", "replace"}, Request(op), ~reserved
       PROVE  NoTrackLost'
  BY <1>25, <1>p DEF NoTrackLost, Request, Free, Turn, tracks, control, attempt, commands, past,
         bounds, Here, Waiting
<1>26. ASSUME Granted, ~closing, Apply(cmd)
       PROVE  NoTrackLost'
  BY <1>26, <1>p, Applied, AppliedElsewhere, <1>w, <1>n DEF NoTrackLost, Granted, tracks,
         control, attempt, commands, past, bounds, WorkerAgrees, Waiting, Here
<1>27. ASSUME Granted, closing
       PROVE  NoTrackLost'
  BY <1>27, <1>p DEF NoTrackLost, Granted, tracks, control, attempt, commands, past, bounds,
         Here, Waiting
<1>28. ASSUME Denied
       PROVE  NoTrackLost'
  BY <1>28, <1>p DEF NoTrackLost, Denied, Trouble, tracks, control, attempt, commands, past,
         bounds, Here, Waiting
<1>29. ASSUME Skip
       PROVE  NoTrackLost'
  BY <1>29, <1>p DEF NoTrackLost, Skip, Turn, Free, tracks, control, attempt, commands, past,
         bounds, Here, Waiting
<1>30. ASSUME Clear
       PROVE  NoTrackLost'
  BY <1>30, <1>p, ShortQueues, Apart DEF NoTrackLost, Clear, WakeIdle, StartWorker, Turn, Free,
         tracks, control, attempt, commands, past, bounds, WorkerAgrees, EndsAreExcused, Here, Waiting
<1>31. ASSUME SetPolicy
       PROVE  NoTrackLost'
  BY <1>31, <1>p DEF NoTrackLost, SetPolicy, Wish, Turn, Free, tracks, control, attempt,
         commands, past, bounds, Here, Waiting
<1>32. ASSUME Stop
       PROVE  NoTrackLost'
  BY <1>32, <1>p DEF NoTrackLost, Stop, tracks, control, attempt, commands, past, bounds, Here,
         Waiting
<1>33. ASSUME Pause
       PROVE  NoTrackLost'
  BY <1>33, <1>p DEF NoTrackLost, Pause, Wish, Turn, Free, tracks, control, attempt, commands,
         past, bounds, Here, Waiting
<1>34. ASSUME PauseNoted
       PROVE  NoTrackLost'
  BY <1>34, <1>p DEF NoTrackLost, PauseNoted, Wish, Turn, Free, tracks, control, attempt,
         commands, past, bounds, Here, Waiting
<1>35. ASSUME Resume
       PROVE  NoTrackLost'
  BY <1>35, <1>p DEF NoTrackLost, Resume, Wish, Turn, Free, tracks, control, attempt, commands,
         past, bounds, Here, Waiting
<1>36. ASSUME LoseVoice
       PROVE  NoTrackLost'
  BY <1>36, <1>p DEF NoTrackLost, LoseVoice, Trouble, tracks, control, attempt, commands, past,
         bounds, Here, Waiting
<1>37. ASSUME Aclose
       PROVE  NoTrackLost'
  BY <1>37, <1>p, AcloseDoes DEF NoTrackLost, Aclose, tracks, control, attempt, commands, past,
         bounds, Here, Waiting
<1>38. ASSUME CloseGateway
       PROVE  NoTrackLost'
  BY <1>38, <1>p DEF NoTrackLost, CloseGateway, Free, tracks, control, attempt, commands, past,
         bounds, Here, Waiting
<1>39. ASSUME UNCHANGED vars
       PROVE  NoTrackLost'
  BY <1>39, <1>p DEF NoTrackLost, vars, tracks, control, attempt, commands, past, bounds, Here,
         Waiting
<1> QED BY <1>1, <1>2, <1>3, <1>4, <1>5, <1>6, <1>7, <1>8, <1>9, <1>10, <1>11, <1>12, <1>13,
        <1>14, <1>15, <1>16, <1>17, <1>18, <1>19, <1>20, <1>21, <1>22, <1>23, <1>24, <1>25,
        <1>26, <1>27, <1>28, <1>29, <1>30, <1>31, <1>32, <1>33, <1>34, <1>35, <1>36, <1>37,
        <1>38, <1>39, <1>p
        DEF Next, Result, Granted

(* Every step that leaves tracks without a worker has the voice backend to blame. *)
LEMMA GaveUpStep == IInv /\ [Next]_vars => GaveUp'
<1> SUFFICES ASSUME IInv, [Next]_vars PROVE GaveUp'
  OBVIOUS
<1>p. /\ TypeOK /\ WorkerAgrees /\ TracksApart /\ EndsAreExcused /\ NoTrackLost
      /\ GaveUp /\ LeaseOwned /\ PauseIsNoted
  BY DEF IInv
<1>w. lock = "command" => next <= MaxItems
  BY <1>p DEF WorkerAgrees
<1>1. ASSUME Take
      PROVE  GaveUp'
  BY <1>1, <1>p, TakeDoes DEF GaveUp, Take, Free, tracks, control, attempt, commands, past,
         bounds, WorkerAgrees, Attempting
<1>2. ASSUME BeginDrain
      PROVE  GaveUp'
  BY <1>2, <1>p DEF GaveUp, BeginDrain, Free, Trouble, Recycles, Fails, tracks, control,
         attempt, commands, past, bounds, WorkerAgrees, Attempting
<1>3. ASSUME Drained
      PROVE  GaveUp'
  BY <1>3, <1>p DEF GaveUp, Drained, Free, Trouble, Recycles, Fails, tracks, control, attempt,
         commands, past, bounds, WorkerAgrees, Attempting
<1>4. ASSUME DrainFails
      PROVE  GaveUp'
  BY <1>4, <1>p DEF GaveUp, DrainFails, Free, Trouble, Recycles, Fails, tracks, control,
         attempt, commands, past, bounds, WorkerAgrees, Attempting
<1>5. ASSUME Resolved
      PROVE  GaveUp'
  BY <1>5, <1>p DEF GaveUp, Resolved, Free, Trouble, Recycles, Fails, tracks, control, attempt,
         commands, past, bounds, WorkerAgrees, Attempting
<1>6. ASSUME Started
      PROVE  GaveUp'
  BY <1>6, <1>p DEF GaveUp, Started, Free, Trouble, Recycles, Fails, tracks, control, attempt,
         commands, past, bounds, WorkerAgrees, Attempting
<1>7. ASSUME TrackFails
      PROVE  GaveUp'
  BY <1>7, <1>p DEF GaveUp, TrackFails, Free, Trouble, Fails, MayRetry, tracks, control,
         attempt, commands, past, bounds, WorkerAgrees, Attempting
<1>8. ASSUME BackendErrs
      PROVE  GaveUp'
  BY <1>8, <1>p DEF GaveUp, BackendErrs, Free, Trouble, Fails, MayRetry, tracks, control,
         attempt, commands, past, bounds, WorkerAgrees, Attempting
<1>9. ASSUME DecoderErrs
      PROVE  GaveUp'
  BY <1>9, <1>p DEF GaveUp, DecoderErrs, Free, Trouble, Fails, MayRetry, tracks, control,
         attempt, commands, past, bounds, WorkerAgrees, Attempting
<1>10. ASSUME PlaybackEnds
       PROVE  GaveUp'
  BY <1>10, <1>p DEF GaveUp, PlaybackEnds, Trouble, tracks, control, attempt, commands, past,
         bounds, WorkerAgrees, Attempting
<1>11. ASSUME Result, TrackFinished
       PROVE  GaveUp'
  BY <1>11, <1>p DEF GaveUp, Result, TrackFinished, Free, Fails, MayRetry, tracks, control,
         attempt, commands, past, bounds, WorkerAgrees, Attempting
<1>12. ASSUME Result, TrackStopped
       PROVE  GaveUp'
  BY <1>12, <1>p DEF GaveUp, Result, TrackStopped, Free, Fails, MayRetry, tracks, control,
         attempt, commands, past, bounds, WorkerAgrees, Attempting
<1>13. ASSUME Result, BackendClosed
       PROVE  GaveUp'
  BY <1>13, <1>p DEF GaveUp, Result, BackendClosed, Free, Fails, MayRetry, tracks, control,
         attempt, commands, past, bounds, WorkerAgrees, Attempting
<1>14. ASSUME Result, VoiceLeft
       PROVE  GaveUp'
  BY <1>14, <1>p DEF GaveUp, Result, VoiceLeft, Free, Fails, MayRetry, tracks, control, attempt,
         commands, past, bounds, WorkerAgrees, Attempting
<1>15. ASSUME Result, VoiceGone
       PROVE  GaveUp'
  BY <1>15, <1>p DEF GaveUp, Result, VoiceGone, Free, Fails, MayRetry, tracks, control, attempt,
         commands, past, bounds, WorkerAgrees, Attempting
<1>16. ASSUME Result, TrackBroke
       PROVE  GaveUp'
  BY <1>16, <1>p DEF GaveUp, Result, TrackBroke, Free, Fails, MayRetry, tracks, control,
         attempt, commands, past, bounds, WorkerAgrees, Attempting
<1>17. ASSUME ResetVoice
       PROVE  GaveUp'
  BY <1>17, <1>p DEF GaveUp, ResetVoice, Free, Trouble, tracks, control, attempt, commands,
         past, bounds, WorkerAgrees, Attempting
<1>18. ASSUME AcquireVoice
       PROVE  GaveUp'
  BY <1>18, <1>p DEF GaveUp, AcquireVoice, Free, Trouble, tracks, control, attempt, commands,
         past, bounds, WorkerAgrees, Attempting
<1>19. ASSUME Reacquired
       PROVE  GaveUp'
  BY <1>19, <1>p DEF GaveUp, Reacquired, Free, Trouble, tracks, control, attempt, commands,
         past, bounds, WorkerAgrees, Attempting
<1>20. ASSUME FinishAttempt
       PROVE  GaveUp'
  BY <1>20, <1>p, AttemptEndsDoes DEF GaveUp, FinishAttempt, AttemptEnds, Free, tracks, control,
         attempt, commands, past, bounds, WorkerAgrees, Attempting
<1>21. ASSUME GiveUp
       PROVE  GaveUp'
  BY <1>21, <1>p, AttemptEndsDoes DEF GaveUp, GiveUp, AttemptEnds, SessionCloses, Free, tracks,
         control, attempt, commands, past, bounds, WorkerAgrees, Attempting
<1>22. ASSUME CloseSession
       PROVE  GaveUp'
  BY <1>22, <1>p DEF GaveUp, CloseSession, SessionCloses, Free, tracks, control, attempt,
         commands, past, bounds, WorkerAgrees, Attempting
<1>23. ASSUME Closed
       PROVE  GaveUp'
  BY <1>23, <1>p DEF GaveUp, Closed, Trouble, tracks, control, attempt, commands, past, bounds,
         WorkerAgrees, Attempting
<1>24. ASSUME NEW op, Request(op), reserved
       PROVE  GaveUp'
  BY <1>24, <1>p, Applied, AppliedElsewhere, <1>w DEF GaveUp, Request, Free, Turn, tracks,
         control, attempt, commands, past, bounds, WorkerAgrees, Attempting
<1>25. ASSUME NEW op \in {"enqueue", "replace"}, Request(op), ~reserved
       PROVE  GaveUp'
  BY <1>25, <1>p DEF GaveUp, Request, Free, Turn, tracks, control, attempt, commands, past,
         bounds, WorkerAgrees, Attempting
<1>26. ASSUME Granted, ~closing, Apply(cmd)
       PROVE  GaveUp'
  BY <1>26, <1>p, Applied, AppliedElsewhere, <1>w DEF GaveUp, Granted, tracks, control, attempt,
         commands, past, bounds, WorkerAgrees, Attempting
<1>27. ASSUME Granted, closing
       PROVE  GaveUp'
  BY <1>27, <1>p DEF GaveUp, Granted, tracks, control, attempt, commands, past, bounds,
         WorkerAgrees, Attempting
<1>28. ASSUME Denied
       PROVE  GaveUp'
  BY <1>28, <1>p DEF GaveUp, Denied, Trouble, tracks, control, attempt, commands, past, bounds,
         WorkerAgrees, Attempting
<1>29. ASSUME Skip
       PROVE  GaveUp'
  BY <1>29, <1>p DEF GaveUp, Skip, Turn, Free, tracks, control, attempt, commands, past, bounds,
         WorkerAgrees, Attempting
<1>30. ASSUME Clear
       PROVE  GaveUp'
  BY <1>30, <1>p DEF GaveUp, Clear, WakeIdle, StartWorker, Turn, Free, tracks, control, attempt,
         commands, past, bounds, WorkerAgrees, Attempting
<1>31. ASSUME SetPolicy
       PROVE  GaveUp'
  BY <1>31, <1>p DEF GaveUp, SetPolicy, Wish, Turn, Free, tracks, control, attempt, commands,
         past, bounds, WorkerAgrees, Attempting
<1>32. ASSUME Stop
       PROVE  GaveUp'
  BY <1>32, <1>p DEF GaveUp, Stop, tracks, control, attempt, commands, past, bounds,
         WorkerAgrees, Attempting
<1>33. ASSUME Pause
       PROVE  GaveUp'
  BY <1>33, <1>p DEF GaveUp, Pause, Wish, Turn, Free, tracks, control, attempt, commands, past,
         bounds, WorkerAgrees, Attempting
<1>34. ASSUME PauseNoted
       PROVE  GaveUp'
  BY <1>34, <1>p DEF GaveUp, PauseNoted, Wish, Turn, Free, tracks, control, attempt, commands,
         past, bounds, WorkerAgrees, Attempting
<1>35. ASSUME Resume
       PROVE  GaveUp'
  BY <1>35, <1>p DEF GaveUp, Resume, Wish, Turn, Free, tracks, control, attempt, commands, past,
         bounds, WorkerAgrees, Attempting
<1>36. ASSUME LoseVoice
       PROVE  GaveUp'
  BY <1>36, <1>p DEF GaveUp, LoseVoice, Trouble, tracks, control, attempt, commands, past,
         bounds, WorkerAgrees, Attempting
<1>37. ASSUME Aclose
       PROVE  GaveUp'
  BY <1>37, <1>p, AcloseDoes DEF GaveUp, Aclose, tracks, control, attempt, commands, past,
         bounds, WorkerAgrees, Attempting
<1>38. ASSUME CloseGateway
       PROVE  GaveUp'
  BY <1>38, <1>p DEF GaveUp, CloseGateway, Free, tracks, control, attempt, commands, past,
         bounds, WorkerAgrees, Attempting
<1>39. ASSUME UNCHANGED vars
       PROVE  GaveUp'
  BY <1>39, <1>p DEF GaveUp, vars, tracks, control, attempt, commands, past, bounds,
         WorkerAgrees, Attempting
<1> QED BY <1>1, <1>2, <1>3, <1>4, <1>5, <1>6, <1>7, <1>8, <1>9, <1>10, <1>11, <1>12, <1>13,
        <1>14, <1>15, <1>16, <1>17, <1>18, <1>19, <1>20, <1>21, <1>22, <1>23, <1>24, <1>25,
        <1>26, <1>27, <1>28, <1>29, <1>30, <1>31, <1>32, <1>33, <1>34, <1>35, <1>36, <1>37,
        <1>38, <1>39, <1>p
        DEF Next, Result, Granted

(* Every step leaves a live lease with somebody who answers for it. *)
LEMMA LeaseOwnedStep == IInv /\ [Next]_vars => LeaseOwned'
<1> SUFFICES ASSUME IInv, [Next]_vars PROVE LeaseOwned'
  OBVIOUS
<1>p. /\ TypeOK /\ WorkerAgrees /\ TracksApart /\ EndsAreExcused /\ NoTrackLost
      /\ GaveUp /\ LeaseOwned /\ PauseIsNoted
  BY DEF IInv
<1>w. lock = "command" => next <= MaxItems
  BY <1>p DEF WorkerAgrees
<1>1. ASSUME Take
      PROVE  LeaseOwned'
  BY <1>1, <1>p, TakeDoes DEF LeaseOwned, Take, Free, tracks, control, attempt, commands, past,
         bounds, WorkerAgrees, Attempting
<1>2. ASSUME BeginDrain
      PROVE  LeaseOwned'
  BY <1>2, <1>p DEF LeaseOwned, BeginDrain, Free, Trouble, Recycles, Fails, tracks, control,
         attempt, commands, past, bounds, WorkerAgrees, Attempting
<1>3. ASSUME Drained
      PROVE  LeaseOwned'
  BY <1>3, <1>p DEF LeaseOwned, Drained, Free, Trouble, Recycles, Fails, tracks, control,
         attempt, commands, past, bounds, WorkerAgrees, Attempting
<1>4. ASSUME DrainFails
      PROVE  LeaseOwned'
  BY <1>4, <1>p DEF LeaseOwned, DrainFails, Free, Trouble, Recycles, Fails, tracks, control,
         attempt, commands, past, bounds, WorkerAgrees, Attempting
<1>5. ASSUME Resolved
      PROVE  LeaseOwned'
  BY <1>5, <1>p DEF LeaseOwned, Resolved, Free, Trouble, Recycles, Fails, tracks, control,
         attempt, commands, past, bounds, WorkerAgrees, Attempting
<1>6. ASSUME Started
      PROVE  LeaseOwned'
  BY <1>6, <1>p DEF LeaseOwned, Started, Free, Trouble, Recycles, Fails, tracks, control,
         attempt, commands, past, bounds, WorkerAgrees, Attempting
<1>7. ASSUME TrackFails
      PROVE  LeaseOwned'
  BY <1>7, <1>p DEF LeaseOwned, TrackFails, Free, Trouble, Fails, MayRetry, tracks, control,
         attempt, commands, past, bounds, WorkerAgrees, Attempting
<1>8. ASSUME BackendErrs
      PROVE  LeaseOwned'
  BY <1>8, <1>p DEF LeaseOwned, BackendErrs, Free, Trouble, Fails, MayRetry, tracks, control,
         attempt, commands, past, bounds, WorkerAgrees, Attempting
<1>9. ASSUME DecoderErrs
      PROVE  LeaseOwned'
  BY <1>9, <1>p DEF LeaseOwned, DecoderErrs, Free, Trouble, Fails, MayRetry, tracks, control,
         attempt, commands, past, bounds, WorkerAgrees, Attempting
<1>10. ASSUME PlaybackEnds
       PROVE  LeaseOwned'
  BY <1>10, <1>p DEF LeaseOwned, PlaybackEnds, Trouble, tracks, control, attempt, commands,
         past, bounds, WorkerAgrees, Attempting
<1>11. ASSUME Result, TrackFinished
       PROVE  LeaseOwned'
  BY <1>11, <1>p DEF LeaseOwned, Result, TrackFinished, Free, Fails, MayRetry, tracks, control,
         attempt, commands, past, bounds, WorkerAgrees, Attempting
<1>12. ASSUME Result, TrackStopped
       PROVE  LeaseOwned'
  BY <1>12, <1>p DEF LeaseOwned, Result, TrackStopped, Free, Fails, MayRetry, tracks, control,
         attempt, commands, past, bounds, WorkerAgrees, Attempting
<1>13. ASSUME Result, BackendClosed
       PROVE  LeaseOwned'
  BY <1>13, <1>p DEF LeaseOwned, Result, BackendClosed, Free, Fails, MayRetry, tracks, control,
         attempt, commands, past, bounds, WorkerAgrees, Attempting
<1>14. ASSUME Result, VoiceLeft
       PROVE  LeaseOwned'
  BY <1>14, <1>p DEF LeaseOwned, Result, VoiceLeft, Free, Fails, MayRetry, tracks, control,
         attempt, commands, past, bounds, WorkerAgrees, Attempting
<1>15. ASSUME Result, VoiceGone
       PROVE  LeaseOwned'
  BY <1>15, <1>p DEF LeaseOwned, Result, VoiceGone, Free, Fails, MayRetry, tracks, control,
         attempt, commands, past, bounds, WorkerAgrees, Attempting
<1>16. ASSUME Result, TrackBroke
       PROVE  LeaseOwned'
  BY <1>16, <1>p DEF LeaseOwned, Result, TrackBroke, Free, Fails, MayRetry, tracks, control,
         attempt, commands, past, bounds, WorkerAgrees, Attempting
<1>17. ASSUME ResetVoice
       PROVE  LeaseOwned'
  BY <1>17, <1>p DEF LeaseOwned, ResetVoice, Free, Trouble, tracks, control, attempt, commands,
         past, bounds, WorkerAgrees, Attempting
<1>18. ASSUME AcquireVoice
       PROVE  LeaseOwned'
  BY <1>18, <1>p DEF LeaseOwned, AcquireVoice, Free, Trouble, tracks, control, attempt,
         commands, past, bounds, WorkerAgrees, Attempting
<1>19. ASSUME Reacquired
       PROVE  LeaseOwned'
  BY <1>19, <1>p DEF LeaseOwned, Reacquired, Free, Trouble, tracks, control, attempt, commands,
         past, bounds, WorkerAgrees, Attempting
<1>20. ASSUME FinishAttempt
       PROVE  LeaseOwned'
  BY <1>20, <1>p, AttemptEndsDoes DEF LeaseOwned, FinishAttempt, AttemptEnds, Free, tracks,
         control, attempt, commands, past, bounds, WorkerAgrees, Attempting
<1>21. ASSUME GiveUp
       PROVE  LeaseOwned'
  BY <1>21, <1>p, AttemptEndsDoes DEF LeaseOwned, GiveUp, AttemptEnds, SessionCloses, Free,
         tracks, control, attempt, commands, past, bounds, WorkerAgrees, Attempting
<1>22. ASSUME CloseSession
       PROVE  LeaseOwned'
  BY <1>22, <1>p DEF LeaseOwned, CloseSession, SessionCloses, Free, tracks, control, attempt,
         commands, past, bounds, WorkerAgrees, Attempting
<1>23. ASSUME Closed
       PROVE  LeaseOwned'
  BY <1>23, <1>p DEF LeaseOwned, Closed, Trouble, tracks, control, attempt, commands, past,
         bounds, WorkerAgrees, Attempting
<1>24. ASSUME NEW op, Request(op), reserved
       PROVE  LeaseOwned'
  BY <1>24, <1>p, Applied, AppliedElsewhere, <1>w DEF LeaseOwned, Request, Free, Turn, tracks,
         control, attempt, commands, past, bounds, WorkerAgrees, Attempting
<1>25. ASSUME NEW op \in {"enqueue", "replace"}, Request(op), ~reserved
       PROVE  LeaseOwned'
  BY <1>25, <1>p DEF LeaseOwned, Request, Free, Turn, tracks, control, attempt, commands, past,
         bounds, WorkerAgrees, Attempting
<1>26. ASSUME Granted, ~closing, Apply(cmd)
       PROVE  LeaseOwned'
  BY <1>26, <1>p, Applied, AppliedElsewhere, <1>w DEF LeaseOwned, Granted, tracks, control,
         attempt, commands, past, bounds, WorkerAgrees, Attempting
<1>27. ASSUME Granted, closing
       PROVE  LeaseOwned'
  BY <1>27, <1>p DEF LeaseOwned, Granted, tracks, control, attempt, commands, past, bounds,
         WorkerAgrees, Attempting
<1>28. ASSUME Denied
       PROVE  LeaseOwned'
  BY <1>28, <1>p DEF LeaseOwned, Denied, Trouble, tracks, control, attempt, commands, past,
         bounds, WorkerAgrees, Attempting
<1>29. ASSUME Skip
       PROVE  LeaseOwned'
  BY <1>29, <1>p DEF LeaseOwned, Skip, Turn, Free, tracks, control, attempt, commands, past,
         bounds, WorkerAgrees, Attempting
<1>30. ASSUME Clear
       PROVE  LeaseOwned'
  BY <1>30, <1>p DEF LeaseOwned, Clear, WakeIdle, StartWorker, Turn, Free, tracks, control,
         attempt, commands, past, bounds, WorkerAgrees, Attempting
<1>31. ASSUME SetPolicy
       PROVE  LeaseOwned'
  BY <1>31, <1>p DEF LeaseOwned, SetPolicy, Wish, Turn, Free, tracks, control, attempt,
         commands, past, bounds, WorkerAgrees, Attempting
<1>32. ASSUME Stop
       PROVE  LeaseOwned'
  BY <1>32, <1>p DEF LeaseOwned, Stop, tracks, control, attempt, commands, past, bounds,
         WorkerAgrees, Attempting
<1>33. ASSUME Pause
       PROVE  LeaseOwned'
  BY <1>33, <1>p DEF LeaseOwned, Pause, Wish, Turn, Free, tracks, control, attempt, commands,
         past, bounds, WorkerAgrees, Attempting
<1>34. ASSUME PauseNoted
       PROVE  LeaseOwned'
  BY <1>34, <1>p DEF LeaseOwned, PauseNoted, Wish, Turn, Free, tracks, control, attempt,
         commands, past, bounds, WorkerAgrees, Attempting
<1>35. ASSUME Resume
       PROVE  LeaseOwned'
  BY <1>35, <1>p DEF LeaseOwned, Resume, Wish, Turn, Free, tracks, control, attempt, commands,
         past, bounds, WorkerAgrees, Attempting
<1>36. ASSUME LoseVoice
       PROVE  LeaseOwned'
  BY <1>36, <1>p DEF LeaseOwned, LoseVoice, Trouble, tracks, control, attempt, commands, past,
         bounds, WorkerAgrees, Attempting
<1>37. ASSUME Aclose
       PROVE  LeaseOwned'
  BY <1>37, <1>p, AcloseDoes DEF LeaseOwned, Aclose, tracks, control, attempt, commands, past,
         bounds, WorkerAgrees, Attempting
<1>38. ASSUME CloseGateway
       PROVE  LeaseOwned'
  BY <1>38, <1>p DEF LeaseOwned, CloseGateway, Free, tracks, control, attempt, commands, past,
         bounds, WorkerAgrees, Attempting
<1>39. ASSUME UNCHANGED vars
       PROVE  LeaseOwned'
  BY <1>39, <1>p DEF LeaseOwned, vars, tracks, control, attempt, commands, past, bounds,
         WorkerAgrees, Attempting
<1> QED BY <1>1, <1>2, <1>3, <1>4, <1>5, <1>6, <1>7, <1>8, <1>9, <1>10, <1>11, <1>12, <1>13,
        <1>14, <1>15, <1>16, <1>17, <1>18, <1>19, <1>20, <1>21, <1>22, <1>23, <1>24, <1>25,
        <1>26, <1>27, <1>28, <1>29, <1>30, <1>31, <1>32, <1>33, <1>34, <1>35, <1>36, <1>37,
        <1>38, <1>39, <1>p
        DEF Next, Result, Granted

(* Every step shows a pause that is over, or has somebody who will. *)
LEMMA PauseIsNotedStep == IInv /\ [Next]_vars => PauseIsNoted'
<1> SUFFICES ASSUME IInv, [Next]_vars PROVE PauseIsNoted'
  OBVIOUS
<1>p. /\ TypeOK /\ WorkerAgrees /\ TracksApart /\ EndsAreExcused /\ NoTrackLost
      /\ GaveUp /\ LeaseOwned /\ PauseIsNoted
  BY DEF IInv
<1>w. lock = "command" => next <= MaxItems
  BY <1>p DEF WorkerAgrees
<1>1. ASSUME Take
      PROVE  PauseIsNoted'
  BY <1>1, <1>p, TakeDoes DEF PauseIsNoted, Take, Free, tracks, control, attempt, commands,
         past, bounds, WorkerAgrees, Attempting
<1>2. ASSUME BeginDrain
      PROVE  PauseIsNoted'
  BY <1>2, <1>p DEF PauseIsNoted, BeginDrain, Free, Trouble, Recycles, Fails, tracks, control,
         attempt, commands, past, bounds, WorkerAgrees, Attempting
<1>3. ASSUME Drained
      PROVE  PauseIsNoted'
  BY <1>3, <1>p DEF PauseIsNoted, Drained, Free, Trouble, Recycles, Fails, tracks, control,
         attempt, commands, past, bounds, WorkerAgrees, Attempting
<1>4. ASSUME DrainFails
      PROVE  PauseIsNoted'
  BY <1>4, <1>p DEF PauseIsNoted, DrainFails, Free, Trouble, Recycles, Fails, tracks, control,
         attempt, commands, past, bounds, WorkerAgrees, Attempting
<1>5. ASSUME Resolved
      PROVE  PauseIsNoted'
  BY <1>5, <1>p DEF PauseIsNoted, Resolved, Free, Trouble, Recycles, Fails, tracks, control,
         attempt, commands, past, bounds, WorkerAgrees, Attempting
<1>6. ASSUME Started
      PROVE  PauseIsNoted'
  BY <1>6, <1>p DEF PauseIsNoted, Started, Free, Trouble, Recycles, Fails, tracks, control,
         attempt, commands, past, bounds, WorkerAgrees, Attempting
<1>7. ASSUME TrackFails
      PROVE  PauseIsNoted'
  BY <1>7, <1>p DEF PauseIsNoted, TrackFails, Free, Trouble, Fails, MayRetry, tracks, control,
         attempt, commands, past, bounds, WorkerAgrees, Attempting
<1>8. ASSUME BackendErrs
      PROVE  PauseIsNoted'
  BY <1>8, <1>p DEF PauseIsNoted, BackendErrs, Free, Trouble, Fails, MayRetry, tracks, control,
         attempt, commands, past, bounds, WorkerAgrees, Attempting
<1>9. ASSUME DecoderErrs
      PROVE  PauseIsNoted'
  BY <1>9, <1>p DEF PauseIsNoted, DecoderErrs, Free, Trouble, Fails, MayRetry, tracks, control,
         attempt, commands, past, bounds, WorkerAgrees, Attempting
<1>10. ASSUME PlaybackEnds
       PROVE  PauseIsNoted'
  BY <1>10, <1>p DEF PauseIsNoted, PlaybackEnds, Trouble, tracks, control, attempt, commands,
         past, bounds, WorkerAgrees, Attempting
<1>11. ASSUME Result, TrackFinished
       PROVE  PauseIsNoted'
  BY <1>11, <1>p DEF PauseIsNoted, Result, TrackFinished, Free, Fails, MayRetry, tracks,
         control, attempt, commands, past, bounds, WorkerAgrees, Attempting
<1>12. ASSUME Result, TrackStopped
       PROVE  PauseIsNoted'
  BY <1>12, <1>p DEF PauseIsNoted, Result, TrackStopped, Free, Fails, MayRetry, tracks, control,
         attempt, commands, past, bounds, WorkerAgrees, Attempting
<1>13. ASSUME Result, BackendClosed
       PROVE  PauseIsNoted'
  BY <1>13, <1>p DEF PauseIsNoted, Result, BackendClosed, Free, Fails, MayRetry, tracks,
         control, attempt, commands, past, bounds, WorkerAgrees, Attempting
<1>14. ASSUME Result, VoiceLeft
       PROVE  PauseIsNoted'
  BY <1>14, <1>p DEF PauseIsNoted, Result, VoiceLeft, Free, Fails, MayRetry, tracks, control,
         attempt, commands, past, bounds, WorkerAgrees, Attempting
<1>15. ASSUME Result, VoiceGone
       PROVE  PauseIsNoted'
  BY <1>15, <1>p DEF PauseIsNoted, Result, VoiceGone, Free, Fails, MayRetry, tracks, control,
         attempt, commands, past, bounds, WorkerAgrees, Attempting
<1>16. ASSUME Result, TrackBroke
       PROVE  PauseIsNoted'
  BY <1>16, <1>p DEF PauseIsNoted, Result, TrackBroke, Free, Fails, MayRetry, tracks, control,
         attempt, commands, past, bounds, WorkerAgrees, Attempting
<1>17. ASSUME ResetVoice
       PROVE  PauseIsNoted'
  BY <1>17, <1>p DEF PauseIsNoted, ResetVoice, Free, Trouble, tracks, control, attempt,
         commands, past, bounds, WorkerAgrees, Attempting
<1>18. ASSUME AcquireVoice
       PROVE  PauseIsNoted'
  BY <1>18, <1>p DEF PauseIsNoted, AcquireVoice, Free, Trouble, tracks, control, attempt,
         commands, past, bounds, WorkerAgrees, Attempting
<1>19. ASSUME Reacquired
       PROVE  PauseIsNoted'
  BY <1>19, <1>p DEF PauseIsNoted, Reacquired, Free, Trouble, tracks, control, attempt,
         commands, past, bounds, WorkerAgrees, Attempting
<1>20. ASSUME FinishAttempt
       PROVE  PauseIsNoted'
  BY <1>20, <1>p, AttemptEndsDoes DEF PauseIsNoted, FinishAttempt, AttemptEnds, Free, tracks,
         control, attempt, commands, past, bounds, WorkerAgrees, Attempting
<1>21. ASSUME GiveUp
       PROVE  PauseIsNoted'
  BY <1>21, <1>p, AttemptEndsDoes DEF PauseIsNoted, GiveUp, AttemptEnds, SessionCloses, Free,
         tracks, control, attempt, commands, past, bounds, WorkerAgrees, Attempting
<1>22. ASSUME CloseSession
       PROVE  PauseIsNoted'
  BY <1>22, <1>p DEF PauseIsNoted, CloseSession, SessionCloses, Free, tracks, control, attempt,
         commands, past, bounds, WorkerAgrees, Attempting
<1>23. ASSUME Closed
       PROVE  PauseIsNoted'
  BY <1>23, <1>p DEF PauseIsNoted, Closed, Trouble, tracks, control, attempt, commands, past,
         bounds, WorkerAgrees, Attempting
<1>24. ASSUME NEW op, Request(op), reserved
       PROVE  PauseIsNoted'
  BY <1>24, <1>p, Applied, AppliedElsewhere, <1>w DEF PauseIsNoted, Request, Free, Turn, tracks,
         control, attempt, commands, past, bounds, WorkerAgrees, Attempting
<1>25. ASSUME NEW op \in {"enqueue", "replace"}, Request(op), ~reserved
       PROVE  PauseIsNoted'
  BY <1>25, <1>p DEF PauseIsNoted, Request, Free, Turn, tracks, control, attempt, commands,
         past, bounds, WorkerAgrees, Attempting
<1>26. ASSUME Granted, ~closing, Apply(cmd)
       PROVE  PauseIsNoted'
  BY <1>26, <1>p, Applied, AppliedElsewhere, <1>w DEF PauseIsNoted, Granted, tracks, control,
         attempt, commands, past, bounds, WorkerAgrees, Attempting
<1>27. ASSUME Granted, closing
       PROVE  PauseIsNoted'
  BY <1>27, <1>p DEF PauseIsNoted, Granted, tracks, control, attempt, commands, past, bounds,
         WorkerAgrees, Attempting
<1>28. ASSUME Denied
       PROVE  PauseIsNoted'
  BY <1>28, <1>p DEF PauseIsNoted, Denied, Trouble, tracks, control, attempt, commands, past,
         bounds, WorkerAgrees, Attempting
<1>29. ASSUME Skip
       PROVE  PauseIsNoted'
  BY <1>29, <1>p DEF PauseIsNoted, Skip, Turn, Free, tracks, control, attempt, commands, past,
         bounds, WorkerAgrees, Attempting
<1>30. ASSUME Clear
       PROVE  PauseIsNoted'
  BY <1>30, <1>p DEF PauseIsNoted, Clear, WakeIdle, StartWorker, Turn, Free, tracks, control,
         attempt, commands, past, bounds, WorkerAgrees, Attempting
<1>31. ASSUME SetPolicy
       PROVE  PauseIsNoted'
  BY <1>31, <1>p DEF PauseIsNoted, SetPolicy, Wish, Turn, Free, tracks, control, attempt,
         commands, past, bounds, WorkerAgrees, Attempting
<1>32. ASSUME Stop
       PROVE  PauseIsNoted'
  BY <1>32, <1>p DEF PauseIsNoted, Stop, tracks, control, attempt, commands, past, bounds,
         WorkerAgrees, Attempting
<1>33. ASSUME Pause
       PROVE  PauseIsNoted'
  BY <1>33, <1>p DEF PauseIsNoted, Pause, Wish, Turn, Free, tracks, control, attempt, commands,
         past, bounds, WorkerAgrees, Attempting
<1>34. ASSUME PauseNoted
       PROVE  PauseIsNoted'
  BY <1>34, <1>p DEF PauseIsNoted, PauseNoted, Wish, Turn, Free, tracks, control, attempt,
         commands, past, bounds, WorkerAgrees, Attempting
<1>35. ASSUME Resume
       PROVE  PauseIsNoted'
  BY <1>35, <1>p DEF PauseIsNoted, Resume, Wish, Turn, Free, tracks, control, attempt, commands,
         past, bounds, WorkerAgrees, Attempting
<1>36. ASSUME LoseVoice
       PROVE  PauseIsNoted'
  BY <1>36, <1>p DEF PauseIsNoted, LoseVoice, Trouble, tracks, control, attempt, commands, past,
         bounds, WorkerAgrees, Attempting
<1>37. ASSUME Aclose
       PROVE  PauseIsNoted'
  BY <1>37, <1>p, AcloseDoes DEF PauseIsNoted, Aclose, tracks, control, attempt, commands, past,
         bounds, WorkerAgrees, Attempting
<1>38. ASSUME CloseGateway
       PROVE  PauseIsNoted'
  BY <1>38, <1>p DEF PauseIsNoted, CloseGateway, Free, tracks, control, attempt, commands, past,
         bounds, WorkerAgrees, Attempting
<1>39. ASSUME UNCHANGED vars
       PROVE  PauseIsNoted'
  BY <1>39, <1>p DEF PauseIsNoted, vars, tracks, control, attempt, commands, past, bounds,
         WorkerAgrees, Attempting
<1> QED BY <1>1, <1>2, <1>3, <1>4, <1>5, <1>6, <1>7, <1>8, <1>9, <1>10, <1>11, <1>12, <1>13,
        <1>14, <1>15, <1>16, <1>17, <1>18, <1>19, <1>20, <1>21, <1>22, <1>23, <1>24, <1>25,
        <1>26, <1>27, <1>28, <1>29, <1>30, <1>31, <1>32, <1>33, <1>34, <1>35, <1>36, <1>37,
        <1>38, <1>39, <1>p
        DEF Next, Result, Granted

-----------------------------------------------------------------------------
(* ---- What holds of every behaviour ---- *)

(* The invariant holds at first. *)
LEMMA InitIInv == Init => IInv
<1> SUFFICES ASSUME Init PROVE IInv
  OBVIOUS
<1>1. TypeOK
  <2>1. Default \in Policies
    BY DEF Default, Policies
  <2>2. queue \in Seq(Items) /\ history \in Seq(Items)
    BY DEF Init
  <2> QED BY <2>1, <2>2 DEF Init, TypeOK, WorkerPcs
<1>2. WorkerAgrees
  BY DEF Init, WorkerAgrees, Attempting
<1>3. TracksApart
  BY ShortQueues DEF Init, TracksApart, Waiting, Here
<1>4. EndsAreExcused
  BY ShortQueues DEF Init, EndsAreExcused
<1>5. NoTrackLost
  <2>1. \A i \in Items : ~(i < next)
    BY DEF Init, Items
  <2> QED BY <2>1 DEF NoTrackLost
<1>6. GaveUp /\ LeaseOwned /\ PauseIsNoted
  BY DEF Init, GaveUp, LeaseOwned, PauseIsNoted
<1> QED BY <1>1, <1>2, <1>3, <1>4, <1>5, <1>6 DEF IInv

(* The inductive invariant: where the worker is and what it holds, tracks that *)
(* are apart and only left out when excused, and who answers for queue, lease   *)
(* and pause (playback.py:59-503, service.py:214-569).                           *)
THEOREM MusicInvariant == Spec => []IInv
<1>1. IInv /\ [Next]_vars => IInv'
  <2>1. SUFFICES ASSUME IInv /\ [Next]_vars PROVE IInv'
    OBVIOUS
  <2>2. TypeOK' /\ WorkerAgrees' /\ TracksApart' /\ EndsAreExcused'
    BY <2>1, TypeOKStep, WorkerAgreesStep, TracksApartStep, EndsAreExcusedStep
  <2>3. NoTrackLost' /\ GaveUp' /\ LeaseOwned' /\ PauseIsNoted'
    BY <2>1, NoTrackLostStep, GaveUpStep, LeaseOwnedStep, PauseIsNotedStep
  <2> QED BY <2>2, <2>3 DEF IInv
<1> QED BY <1>1, InitIInv, PTL DEF Spec

(* Every variable keeps its type. *)
THEOREM MusicTyped == Spec => []TypeOK
<1>1. IInv => TypeOK
  BY DEF IInv
<1> QED BY <1>1, MusicInvariant, PTL

(* A track is in one place at a time, and it only goes away because a user      *)
(* removed it, it was played to its end or an error of its own ended it.         *)
THEOREM TracksStay == Spec => []TracksAreKept
<1>1. IInv => TracksAreKept
  <2> SUFFICES ASSUME IInv PROVE TracksAreKept
    OBVIOUS
  <2>1. queue \in Seq(Items) /\ history \in Seq(Items) /\ TracksApart /\ NoTrackLost
    BY DEF IInv, TypeOK
  <2> QED BY <2>1, ApartMeansOnce DEF TracksAreKept
<1> QED BY <1>1, MusicInvariant, PTL

(* Queued tracks have a worker unless the voice backend made it give up, a live *)
(* lease is answered for, and what is shown as paused is paused.                 *)
THEOREM SessionIsWhole == Spec => []SessionAgrees
<1>1. IInv => SessionAgrees
  <2> SUFFICES ASSUME IInv PROVE SessionAgrees
    OBVIOUS
  <2>1. QueueIsServed
    BY DEF IInv, GaveUp, QueueIsServed
  <2>2. PauseAgrees
    BY DEF IInv, PauseIsNoted, PauseAgrees
  <2> QED BY <2>1, <2>2 DEF SessionAgrees, IInv
<1> QED BY <1>1, MusicInvariant, PTL

-----------------------------------------------------------------------------
(* ---- Skips and additions ---- *)

(* A skipped track does not return to the queue. *)
LEMMA SkippedStaysAway ==
    IInv /\ [Next]_vars => /\ current = Nothing => ~skip
                           /\ current # Nothing /\ skip /\ current' # current =>
                                 current \notin ToSet(queue')
<1> SUFFICES ASSUME IInv, [Next]_vars
             PROVE  /\ current = Nothing => ~skip
                    /\ current # Nothing /\ skip /\ current' # current =>
                          current \notin ToSet(queue')
  OBVIOUS
<1>p. TypeOK /\ WorkerAgrees /\ TracksApart /\ EndsAreExcused
  BY DEF IInv
<1>1. current = Nothing => ~skip
  BY <1>p DEF EndsAreExcused
<1>2. ASSUME current # Nothing, skip, current' # current PROVE current \notin ToSet(queue')
  <2>0. current \notin ToSet(queue)
    BY <1>p DEF TracksApart, Waiting
  <2>1. CASE AttemptEnds
    <3>1. ToSet(queue') = ToSet(queue)
      BY <1>p, <1>2, <2>1, AttemptEndsDoes DEF Returns, Repeats
    <3> QED BY <3>1, <2>0
  <2>2. CASE CloseSession
    BY <2>0, <2>2 DEF CloseSession
  <2>3. ~Take
    BY <1>2, <1>p DEF Take, WorkerAgrees
  <2>4. AttemptEnds \/ CloseSession \/ Take
    BY <1>2 DEF Next, vars, tracks, BeginDrain, Drained, DrainFails, Resolved, Started, TrackFails,
         BackendErrs, DecoderErrs, PlaybackEnds, Result, ResetVoice, AcquireVoice, Reacquired,
         FinishAttempt, GiveUp, Closed, Request, Granted, Denied, Skip, Clear, SetPolicy, Stop,
         Pause, PauseNoted, Resume, LoseVoice, Aclose, CloseGateway
  <2> QED BY <2>1, <2>2, <2>3, <2>4
<1> QED BY <1>1, <1>2

(* A track that is added respects the bound. *)
LEMMA FittingStays ==
    ASSUME TypeOK, NEW op, Apply(op), Fits(op), current' = current,
           queue' = Append(queue, next), skip' => queue # <<>>
    PROVE  Len(queue') + (IF current' # Nothing THEN 1 ELSE 0) <= MaxQueue
<1> DEFINE c == IF current # Nothing THEN 1 ELSE 0
<1>1. Len(queue) \in Nat /\ Len(queue') = Len(queue) + 1 /\ c \in Nat /\ MaxQueue \in Nat \ {0}
  BY MusicAssumption DEF TypeOK
<1>2. CASE op = "enqueue" /\ Appended
  <2>1. Len(queue) + c < MaxQueue
    BY <1>2 DEF Fits
  <2> QED BY <2>1, <1>1
<1>3. CASE Replaced
  <2>1. Len(queue') = 1
    BY <1>3 DEF Replaced
  <2>2. queue = <<>>
    BY <2>1, <1>1 DEF TypeOK
  <2>3. current = Nothing
    BY <2>2, <1>3 DEF Replaced
  <2> QED BY <2>1, <2>3, <1>1
<1> QED BY <1>2, <1>3 DEF Apply

(* Only a command that adds a track puts the next one into the queue. *)
LEMMA OnlyAddingAdds ==
    IInv /\ [Next]_vars /\ next \in ToSet(queue') =>
        \E op : Apply(op) /\ Fits(op) /\ current' = current
<1> SUFFICES ASSUME IInv, [Next]_vars, next \in ToSet(queue')
             PROVE  \E op : Apply(op) /\ Fits(op) /\ current' = current
  OBVIOUS
<1>p. TypeOK /\ WorkerAgrees /\ TracksApart
  BY DEF IInv
<1>0. next \notin ToSet(queue) /\ next \notin Waiting /\ (current # Nothing => next # current)
  BY <1>p, Apart DEF Here, Waiting
<1>1. ~Take
  BY <1>p, <1>0, TakeDoes DEF Waiting
<1>2. ~(FinishAttempt \/ GiveUp)
  BY <1>p, <1>0, AttemptEndsDoes DEF FinishAttempt, GiveUp, WorkerAgrees, Attempting
<1>3. ~Clear
  BY ShortQueues DEF Clear
<1>4. ASSUME NEW op, Request(op)
      PROVE  \E o : Apply(o) /\ Fits(o) /\ current' = current
  BY <1>4, <1>0 DEF Request
<1>5. CASE Granted
  <2>1. CASE ~closing /\ Apply(cmd)
    BY <2>1, <1>5, <1>p DEF Granted, WorkerAgrees
  <2> QED BY <2>1, <1>0, <1>5 DEF Granted
<1>6. queue' # queue
  BY <1>0
<1> QED BY <1>1, <1>2, <1>3, <1>4, <1>5, <1>6
    DEF Next, vars, tracks, BeginDrain, Drained, DrainFails, Resolved, Started, TrackFails,
        BackendErrs, DecoderErrs, PlaybackEnds, Result, ResetVoice, AcquireVoice, Reacquired,
        CloseSession, Closed, Denied, Skip, SetPolicy, Stop, Pause, PauseNoted, Resume,
        LoseVoice, Aclose, CloseGateway

(* A skip is of the track that is being played and takes it away for good, and   *)
(* enqueue keeps the tracks within max_queue_length.                              *)
THEOREM WishesComeTrue == Spec => WishesAreExact
<1>1. IInv /\ [Next]_vars =>
          [/\ current = Nothing => ~skip
           /\ current # Nothing /\ skip /\ current' # current => current \notin ToSet(queue')]_vars
  BY SkippedStaysAway
<1>2. IInv /\ [Next]_vars =>
          [queue' = Append(queue, next) /\ (skip' => queue # <<>>) =>
               Len(queue') + (IF current' # Nothing THEN 1 ELSE 0) <= MaxQueue]_vars
  <2> SUFFICES ASSUME IInv, [Next]_vars, queue' = Append(queue, next), skip' => queue # <<>>
               PROVE  Len(queue') + (IF current' # Nothing THEN 1 ELSE 0) <= MaxQueue
    OBVIOUS
  <2>1. TypeOK /\ TracksApart
    BY DEF IInv
  <2>2. next \in ToSet(queue')
    <3>0. queue \in Seq(Items) /\ next \in Nat
      BY <2>1 DEF TypeOK
    <3> DEFINE k == Len(queue) + 1
    <3>1. Append(queue, next)[k] = next /\ k \in DOMAIN Append(queue, next)
      BY <3>0
    <3> QED BY <3>1 DEF ToSet
  <2>3. PICK op : Apply(op) /\ Fits(op) /\ current' = current
    BY <2>2, OnlyAddingAdds
  <2> QED BY <2>1, <2>3, FittingStays
<1> QED BY <1>1, <1>2, MusicInvariant, PTL DEF Spec, WishesAreExact, SkipHitsCurrent, EnqueueBounded
=============================================================================
