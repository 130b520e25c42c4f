------------------------- MODULE HistoryStore_proofs -------------------------
(***************************************************************************)
(* Theorems about HistoryStore, for every set of songs, every cap and      *)
(* every file that save() or an older version wrote: an id names one       *)
(* record, a deletion takes what was on screen, and the store implements   *)
(* HistoryPromise.                                                         *)
(***************************************************************************)
EXTENDS HistoryStore, SequenceTheorems, FiniteSetTheorems, WellFoundedInduction, TLAPS

\* The first state satisfies the invariant: nothing is attached.
LEMMA RecorderInit == Init => RecorderInv
<1> SUFFICES ASSUME Init PROVE RecorderInv
  OBVIOUS
<1>1. Unprimed \in [identity : MaybeSong, last : PlayState, primed : BOOLEAN]
  BY DEF Unprimed, MaybeSong, PlayState
<1>2. NoSong \in MaybeSong
  BY DEF MaybeSong
<1> QED
  BY <1>1, <1>2 DEF Init, RecorderInv, TypeOK

\* What a sample, taken from a primed recorder or not, does to the recorder.
LEMMA ObservedType ==
  ASSUME NEW p \in [state : PlayState, id : MaybeSong, tags : MaybeSong],
         NEW r
  PROVE  /\ Observed(p, r) \in
              [identity : MaybeSong, last : PlayState, primed : BOOLEAN]
         /\ Observed(p, r).primed
         /\ Observed(p, r).last = p.state
         /\ Observed(p, r).identity = IF HasSong(p) THEN p.id ELSE NoSong
  BY DEF Observed, MaybeSong

\* Every sample of a fetch is a sample of a loaded or an empty server.
LEMMA SampleType ==
  ASSUME NEW m \in Loaded \cup {Empty}, NEW n \in Loaded \cup {Empty}
  PROVE  Sample(m, n) \in [state : PlayState, id : MaybeSong, tags : MaybeSong]
  BY DEF Sample, Loaded, Empty, PlayState, MaybeSong

\* A sample keeps the invariant, whatever the recorder was before.
LEMMA SampledKeepsInv ==
  ASSUME TypeOK, NEW r, Sampled(r)
  PROVE  RecorderInv'
<1>1. CASE \E n \in DuringSample(mpd) :
             /\ attached' = TRUE
             /\ mpd' = n
             /\ MaybeRecordHistory(Sample(mpd, n), r)
             /\ unheard' = StartsNow(mpd, n)
             /\ seen' = mpd.song
  <2>1. PICK n \in DuringSample(mpd) :
             /\ attached' = TRUE
             /\ mpd' = n
             /\ MaybeRecordHistory(Sample(mpd, n), r)
             /\ unheard' = StartsNow(mpd, n)
             /\ seen' = mpd.song
    BY <1>1
  <2>2. mpd \in Loaded \cup {Empty} /\ n \in Loaded \cup {Empty}
    BY DEF TypeOK, DuringSample, Loaded, PlayState
  <2> DEFINE p == Sample(mpd, n)
  <2>3. p \in [state : PlayState, id : MaybeSong, tags : MaybeSong]
    BY <2>2, SampleType
  <2>4. recorder' = Observed(p, r)
    BY <2>1 DEF MaybeRecordHistory
  <2>5. p.state = mpd.state /\ p.id = mpd.song /\ p.tags = n.song
    BY DEF Sample
  <2>6. TypeOK'
    <3>1. recorded' \in SUBSET Song
      BY <2>1, <2>2, <2>5, RecorderAssumption
      DEF MaybeRecordHistory, IsStart, HasSong, Loaded, Empty
    <3>2. unheard' \in SUBSET Song /\ seen' \in MaybeSong
      BY <2>1, <2>2 DEF StartsNow, Loaded, Empty, MaybeSong
    <3> QED
      BY <2>1, <2>2, <2>3, <2>4, <3>1, <3>2, ObservedType DEF TypeOK
  <2>7. recorder'.primed /\ (recorder'.identity # NoSong => recorder'.identity = seen')
    BY <2>1, <2>3, <2>4, <2>5, ObservedType
  <2>8. ASSUME mpd'.song # NoSong, mpd'.song \notin unheard'
        PROVE  /\ recorder'.identity = mpd'.song
               /\ mpd'.state # "stopped" => recorder'.last # "stopped"
    <3>1. n = mpd
      BY <2>1, <2>8 DEF StartsNow
    <3>2. HasSong(p)
      BY <2>1, <2>5, <2>8, <3>1 DEF HasSong
    <3> QED
      BY <2>1, <2>3, <2>4, <2>5, <3>1, <3>2, ObservedType
  <2> QED
    BY <2>6, <2>7, <2>8 DEF RecorderInv
<1>2. CASE \E p \in BrokenSamples(mpd) :
             /\ attached' = FALSE
             /\ MaybeRecordHistory(p, r)
             /\ unheard' = {}
             /\ seen' = NoSong
             /\ UNCHANGED mpd
  <2>1. PICK p \in BrokenSamples(mpd) :
             /\ attached' = FALSE
             /\ MaybeRecordHistory(p, r)
             /\ unheard' = {}
             /\ seen' = NoSong
             /\ UNCHANGED mpd
    BY <1>2
  <2>2. p \in [state : PlayState, id : MaybeSong, tags : MaybeSong] /\ ~HasSong(p)
    <3>1. \E m \in Loaded \cup {Empty} : p = Sample(m, Empty)
      BY DEF BrokenSamples, TypeOK
    <3>2. PICK m \in Loaded \cup {Empty} : p = Sample(m, Empty)
      BY <3>1
    <3>3. p \in [state : PlayState, id : MaybeSong, tags : MaybeSong]
      BY <3>2, SampleType
    <3>4. ~HasSong(p)
      BY <3>2 DEF HasSong, Sample, Empty
    <3> QED
      BY <3>3, <3>4
  <2>3. recorded' = {} /\ recorder' = Observed(p, r)
    BY <2>1, <2>2 DEF MaybeRecordHistory, IsStart
  <2> QED
    BY <2>1, <2>2, <2>3, ObservedType DEF RecorderInv, TypeOK, MaybeSong
<1> QED
  BY <1>1, <1>2 DEF Sampled

\* Every step keeps the invariant.
LEMMA RecorderStep == RecorderInv /\ [Next]_vars => RecorderInv'
<1> SUFFICES ASSUME RecorderInv, [Next]_vars PROVE RecorderInv'
  OBVIOUS
<1>0. TypeOK
  BY DEF RecorderInv
<1>1. CASE RefreshPlayer
  BY <1>0, <1>1, SampledKeepsInv DEF RefreshPlayer
<1>2. CASE Attach
  BY <1>0, <1>2, SampledKeepsInv DEF Attach
<1>3. CASE Detach
  BY <1>0, <1>3 DEF Detach, RecorderInv, TypeOK, MaybeSong
<1>4. CASE Restart
  BY <1>0, <1>4 DEF Restart, RecorderInv, TypeOK, MaybeSong, Unprimed, PlayState
<1>5. ASSUME NEW s \in Song, MpdStarts(s) PROVE RecorderInv'
  <2>1. mpd' \in Loaded /\ mpd'.song = s /\ unheard' \in SUBSET Song
    BY <1>0, <1>5 DEF MpdStarts, TypeOK, Loaded, PlayState
  <2>2. TypeOK'
    BY <1>0, <1>5, <2>1 DEF MpdStarts, TypeOK
  <2>3. attached => s \in unheard'
    BY <1>5 DEF MpdStarts
  <2> QED
    BY <1>5, <2>1, <2>2, <2>3 DEF MpdStarts, RecorderInv
<1>6. CASE MpdHolds
  <2>1. mpd' \in Loaded \cup {Empty}
    BY <1>0, <1>6 DEF MpdHolds, TypeOK, Loaded, Empty, PlayState
  <2>2. TypeOK'
    BY <1>0, <1>6, <2>1 DEF MpdHolds, TypeOK
  <2>3. \/ mpd' = Empty
        \/ /\ mpd'.song = mpd.song
           /\ mpd'.state # "stopped" => mpd.state # "stopped"
    BY <1>0, <1>6 DEF MpdHolds, TypeOK, Loaded, Empty
  <2> QED
    BY <1>6, <2>2, <2>3 DEF MpdHolds, RecorderInv, Empty
<1>7. CASE UNCHANGED vars
  BY <1>7 DEF RecorderInv, TypeOK, vars
<1> QED
  BY <1>1, <1>2, <1>3, <1>4, <1>5, <1>6, <1>7 DEF Next

\* RecorderInvariant: what the recorder knows stays in step with the server,
\* in every reachable state (maybeRecordHistory, controller.cpp).
THEOREM RecorderInvariant == Spec => []RecorderInv
  BY RecorderInit, RecorderStep, PTL DEF Spec

\* RecorderTypes: every variable of the recorder stays in its range, and only
\* songs are recorded.
THEOREM RecorderTypes == Spec => []TypeOK
  BY RecorderInvariant, PTL DEF RecorderInv

-----------------------------------------------------------------------------
\* A sample of the recorder in step records a song that started.
LEMMA StepRecordsStarts ==
  RecorderInv /\ [Next]_vars => [recorded' \subseteq unheard \cup unheard']_vars
<1> SUFFICES ASSUME RecorderInv, Next
             PROVE  recorded' \subseteq unheard \cup unheard'
  OBVIOUS
<1>1. ASSUME NEW r, Sampled(r), r.primed => attached /\ r = recorder
      PROVE  recorded' \subseteq unheard \cup unheard'
  <2>1. CASE \E n \in DuringSample(mpd) :
               /\ attached' = TRUE
               /\ mpd' = n
               /\ MaybeRecordHistory(Sample(mpd, n), r)
               /\ unheard' = StartsNow(mpd, n)
               /\ seen' = mpd.song
    <3>1. PICK n \in DuringSample(mpd) :
               /\ MaybeRecordHistory(Sample(mpd, n), r)
               /\ unheard' = StartsNow(mpd, n)
      BY <2>1
    <3>2. CASE IsStart(Sample(mpd, n), r)
      <4>1. recorded' = {n.song} /\ n.song # NoSong /\ mpd.song # NoSong
        BY <3>1, <3>2 DEF MaybeRecordHistory, IsStart, HasSong, Sample
      <4>2. CASE n = mpd
        <5>1. \/ recorder.identity = NoSong
              \/ mpd.song # recorder.identity
              \/ mpd.state = "playing" /\ recorder.last = "stopped"
          BY <1>1, <3>2, <4>2 DEF IsStart, Sample
        <5>2. mpd.song \in unheard
          BY <1>1, <3>2, <4>1, <5>1 DEF RecorderInv, IsStart
        <5> QED
          BY <4>1, <4>2, <5>2
      <4>3. CASE n # mpd
        BY <3>1, <4>1, <4>3 DEF StartsNow
      <4> QED
        BY <4>2, <4>3
    <3> QED
      BY <3>1, <3>2 DEF MaybeRecordHistory
  <2>2. CASE \E p \in BrokenSamples(mpd) :
               /\ attached' = FALSE
               /\ MaybeRecordHistory(p, r)
               /\ unheard' = {}
               /\ seen' = NoSong
               /\ UNCHANGED mpd
    BY <2>2 DEF BrokenSamples, MaybeRecordHistory, IsStart, HasSong, Sample, Empty
  <2> QED
    BY <1>1, <2>1, <2>2 DEF Sampled
<1>2. CASE RefreshPlayer
  BY <1>1, <1>2 DEF RefreshPlayer
<1>3. CASE Attach
  <2>1. recorder \in [identity : MaybeSong, last : PlayState, primed : BOOLEAN]
    BY DEF RecorderInv, TypeOK
  <2> DEFINE r == [recorder EXCEPT !.primed = FALSE]
  <2>2. ~r.primed
    BY <2>1
  <2>3. Sampled(r)
    BY <1>3 DEF Attach
  <2> HIDE DEF r
  <2> QED
    BY <1>1, <2>2, <2>3
<1>4. CASE Detach \/ Restart \/ MpdHolds \/ \E s \in Song : MpdStarts(s)
  BY <1>4 DEF Detach, Restart, MpdHolds, MpdStarts
<1> QED
  BY <1>2, <1>3, <1>4 DEF Next

\* OnlyStartsAreRecorded: no record is ever made of a song that did not start
\* since the last sample while termusic was attached (RecordsAreStarts).
THEOREM OnlyStartsAreRecorded == Spec => RecordsAreStarts
<1>1. Spec => [][recorded' \subseteq unheard \cup unheard']_vars
  BY RecorderInvariant, StepRecordsStarts, PTL DEF Spec
<1> QED
  BY <1>1 DEF RecordsAreStarts

\* A clean sample that finds another song, started since, records it.
LEMMA StepRecordsSeenStart ==
  RecorderInv /\ [Next]_vars =>
    [mpd.song \in unheard /\ mpd.song # seen
       /\ attached' /\ mpd' = mpd /\ RefreshPlayer
     => mpd.song \in recorded']_vars
<1> SUFFICES ASSUME RecorderInv, RefreshPlayer, attached', mpd' = mpd,
                    mpd.song \in unheard, mpd.song # seen
             PROVE  mpd.song \in recorded'
  OBVIOUS
<1>1. MaybeRecordHistory(Sample(mpd, mpd), recorder)
  BY DEF RefreshPlayer, Sampled
<1>2. mpd.song # NoSong
  BY RecorderAssumption DEF RecorderInv, TypeOK
<1>3. IsStart(Sample(mpd, mpd), recorder)
  BY <1>2 DEF RecorderInv, RefreshPlayer, IsStart, HasSong, Sample
<1> QED
  BY <1>1, <1>3 DEF MaybeRecordHistory, Sample

\* SeenStartsAreRecorded: a start that a sample can see is recorded
\* (StartIsRecorded).
THEOREM SeenStartsAreRecorded == Spec => StartIsRecorded
<1>1. Spec => [][mpd.song \in unheard /\ mpd.song # seen
                   /\ attached' /\ mpd' = mpd /\ RefreshPlayer
                 => mpd.song \in recorded']_vars
  BY RecorderInvariant, StepRecordsSeenStart, PTL DEF Spec
<1> QED
  BY <1>1 DEF StartIsRecorded

-----------------------------------------------------------------------------
(* Lists.                                                                  *)

\* A set of numbers that is not empty has a first one.
LEMMA FirstOf ==
  ASSUME NEW S \in SUBSET Nat, S # {}
  PROVE  \E m \in S : \A n \in S : m <= n
<1>1. PICK m \in S : \A n \in S : ~(<<n, m>> \in OpToRel(<, Nat))
  BY NatLessThanWellFounded, WFMin
<1>2. ASSUME NEW n \in S PROVE m <= n
  <2>1. <<n, m>> \in Nat \X Nat
    OBVIOUS
  <2>2. <<n, m>>[1] = n /\ <<n, m>>[2] = m
    OBVIOUS
  <2>3. ~(n < m)
    BY <1>1, <2>1, <2>2 DEF OpToRel
  <2> QED BY <2>3
<1> QED BY <1>2

\* The end of a list: the offset is what was cut off.
LEMMA NewestOf ==
  ASSUME NEW S, NEW list \in Seq(S), NEW n \in Nat \ {0}
  PROVE  /\ Newest(list, n) \in Seq(S)
         /\ Len(Newest(list, n)) = IF Len(list) > n THEN n ELSE Len(list)
         /\ \A i \in 1..Len(Newest(list, n)) :
              Newest(list, n)[i] = list[Len(list) - Len(Newest(list, n)) + i]
<1> DEFINE from == IF Len(list) > n THEN Len(list) - n + 1 ELSE 1
<1>1. Len(list) \in Nat /\ from \in 1..(Len(list) + 1)
  OBVIOUS
<1>2. Newest(list, n) = SubSeq(list, from, Len(list))
  BY DEF Newest
<1>3. \A i \in from..Len(list) : list[i] \in S
  BY <1>1
<1>4. from \in Int /\ Len(list) \in Int
  BY <1>1
<1>5. /\ SubSeq(list, from, Len(list)) \in Seq(S)
      /\ Len(SubSeq(list, from, Len(list))) =
           IF from <= Len(list) THEN Len(list) - from + 1 ELSE 0
      /\ \A i \in 1..(Len(list) - from + 1) :
           SubSeq(list, from, Len(list))[i] = list[from + i - 1]
  <2> HIDE DEF from
  <2> QED BY <1>3, <1>4, SubSeqProperties
<1>6. Len(SubSeq(list, from, Len(list))) = Len(list) - from + 1
  <2> HIDE DEF from
  <2> QED BY <1>1, <1>5
<1> HIDE DEF from
<1>7. \A i \in 1..(Len(list) - from + 1) :
        SubSeq(list, from, Len(list))[i] = list[i + from - 1]
  BY <1>1, <1>5
<1>8. Len(list) - from + 1 = IF Len(list) > n THEN n ELSE Len(list)
  BY <1>1 DEF from
<1>9. \A i \in 1..(Len(list) - from + 1) : i + from - 1 = Len(list) - (Len(list) - from + 1) + i
  BY <1>1
<1> QED BY <1>2, <1>5, <1>6, <1>7, <1>8, <1>9

\* The largest of a set, when it is known.
LEMMA MaxIs ==
  ASSUME NEW S \in SUBSET Int, NEW m \in S, \A x \in S : m >= x
  PROVE  Max(S) = m
<1>1. \A x \in S : x \in Int
  OBVIOUS
<1>2. \A x \in S : (\A y \in S : x >= y) => x = m
  BY <1>1
<1> QED BY <1>2, Zenon DEF Max

-----------------------------------------------------------------------------
(* What a deletion keeps.                                                  *)

UpTo(left, i) == {j \in left : j <= i}

LEMMA UpToGrows ==
  ASSUME NEW n \in Nat, NEW left \in SUBSET (1..n), NEW i \in 0..n
  PROVE  /\ IsFiniteSet(left) /\ Cardinality(left) \in Nat
         /\ IsFiniteSet(UpTo(left, i)) /\ Cardinality(UpTo(left, i)) \in 0..Cardinality(left)
         /\ i < n => Cardinality(UpTo(left, i + 1)) =
              Cardinality(UpTo(left, i)) + (IF i + 1 \in left THEN 1 ELSE 0)
         /\ \A j \in left : i < j => Cardinality(UpTo(left, i)) < Cardinality(UpTo(left, j))
<1>1. IsFiniteSet(1..n)
  BY FS_Interval
<1>0. \A j \in left : j \in 1..n
  OBVIOUS
<1>2. IsFiniteSet(left) /\ Cardinality(left) \in Nat
  BY <1>1, FS_Subset, FS_CardinalityType
<1>3. ASSUME NEW k PROVE /\ IsFiniteSet(UpTo(left, k)) /\ Cardinality(UpTo(left, k)) \in Nat
                         /\ Cardinality(UpTo(left, k)) <= Cardinality(left)
  <2>1. UpTo(left, k) \in SUBSET left
    BY DEF UpTo
  <2> QED BY <1>2, <2>1, FS_Subset, FS_CardinalityType
<1>4. ASSUME i < n
      PROVE  Cardinality(UpTo(left, i + 1)) =
               Cardinality(UpTo(left, i)) + (IF i + 1 \in left THEN 1 ELSE 0)
  <2>1. CASE i + 1 \in left
    <3>1. /\ \A j \in left : j <= i + 1 <=> j <= i \/ j = i + 1
          /\ ~(i + 1 <= i)
      BY <1>0
    <3>2. UpTo(left, i + 1) = UpTo(left, i) \cup {i + 1} /\ i + 1 \notin UpTo(left, i)
      BY <2>1, <3>1, Zenon DEF UpTo
    <3>3. Cardinality(UpTo(left, i) \cup {i + 1}) = Cardinality(UpTo(left, i)) + 1
      BY <1>3, <3>2, FS_AddElement
    <3> QED BY <2>1, <3>2, <3>3
  <2>2. CASE i + 1 \notin left
    <3>1. \A j \in left : j <= i + 1 <=> j <= i
      BY <1>0, <2>2
    <3>2. UpTo(left, i + 1) = UpTo(left, i)
      BY <3>1, Zenon DEF UpTo
    <3> QED BY <1>3, <2>2, <3>2
  <2> QED BY <2>1, <2>2
<1>5. ASSUME NEW j \in left, i < j
      PROVE  Cardinality(UpTo(left, i)) < Cardinality(UpTo(left, j))
  <2>0. /\ \A x \in left : x <= i => x <= j
        /\ j <= j /\ ~(j <= i)
    BY <1>0, <1>5
  <2>1. UpTo(left, i) \in SUBSET UpTo(left, j) /\ j \in UpTo(left, j) /\ j \notin UpTo(left, i)
    BY <1>5, <2>0, Zenon DEF UpTo
  <2>2. UpTo(left, i) # UpTo(left, j)
    BY <2>1
  <2>3. /\ Cardinality(UpTo(left, i)) <= Cardinality(UpTo(left, j))
        /\ Cardinality(UpTo(left, i)) # Cardinality(UpTo(left, j))
    BY <1>3, <2>1, <2>2, FS_Subset
  <2> QED BY <1>3, <2>3
<1> QED BY <1>2, <1>3, <1>4, <1>5

\* The k-th index that is left.
LEMMA NthLeft ==
  ASSUME NEW n \in Nat, NEW left \in SUBSET (1..n), NEW k \in 1..Cardinality(left)
  PROVE  \E i \in left : Cardinality(UpTo(left, i)) = k
<1> DEFINE S == {i \in 0..n : Cardinality(UpTo(left, i)) >= k}
<1>0. \A j \in left : j <= n /\ ~(j <= 0)
  OBVIOUS
<1>1. n \in S
  <2>1. UpTo(left, n) = left
    BY <1>0, Zenon DEF UpTo
  <2>2. n \in 0..n
    OBVIOUS
  <2>3. Cardinality(left) \in Nat
    BY <2>2, UpToGrows
  <2> QED BY <2>1, <2>2, <2>3
<1>2. PICK m \in S : \A i \in S : m <= i
  <2>1. S \in SUBSET Nat /\ S # {}
    BY <1>1
  <2> HIDE DEF S
  <2> QED BY <2>1, FirstOf
<1>3. m # 0
  <2>1. UpTo(left, 0) = {}
    BY <1>0, Zenon DEF UpTo
  <2>2. Cardinality(UpTo(left, 0)) = 0
    BY <2>1, FS_EmptySet
  <2> QED BY <2>2
<1>4. m - 1 \in 0..n /\ m - 1 < n /\ m - 1 \notin S
  BY <1>2, <1>3
<1>5. /\ Cardinality(UpTo(left, m - 1)) \in Nat /\ Cardinality(UpTo(left, m - 1)) < k
      /\ Cardinality(UpTo(left, m)) >= k /\ Cardinality(UpTo(left, m)) \in Nat
  <2>1. Cardinality(left) \in Nat
    BY <1>4, UpToGrows
  <2>2. /\ Cardinality(UpTo(left, m - 1)) \in 0..Cardinality(left)
        /\ Cardinality(UpTo(left, m)) \in 0..Cardinality(left)
    BY <1>4, UpToGrows
  <2> QED BY <1>4, <2>1, <2>2
<1>6. Cardinality(UpTo(left, (m - 1) + 1)) =
        Cardinality(UpTo(left, m - 1)) + (IF (m - 1) + 1 \in left THEN 1 ELSE 0)
  BY <1>4, UpToGrows
<1>7. (m - 1) + 1 = m
  BY <1>2
<1>8. m \in left /\ Cardinality(UpTo(left, m)) = k
  BY <1>5, <1>6, <1>7
<1> QED BY <1>8

\* s is the list without the entries at these indices.
Leaves(s, list, gone) ==
  \E f \in [1..Len(s) -> (1..Len(list)) \ gone] :
    /\ \A k \in 1..Len(s) : s[k] = list[f[k]]
    /\ \A k, l \in 1..Len(s) : k < l => f[k] < f[l]
    /\ \A i \in (1..Len(list)) \ gone : \E k \in 1..Len(s) : f[k] = i

\* Kept() leaves the entries that are not gone, in their order.
LEMMA KeptOf ==
  ASSUME NEW S, NEW list \in Seq(S), NEW gone
  PROVE  /\ Kept(list, gone) \in Seq(S) /\ Len(Kept(list, gone)) <= Len(list)
         /\ Leaves(Kept(list, gone), list, gone)
<1> DEFINE left == {i \in DOMAIN list : i \notin gone}
           nth(k) == CHOOSE i \in left : Cardinality({j \in left : j <= i}) = k
           n == Len(list)
           c == Cardinality(left)
<1>1. left \in SUBSET (1..n) /\ n \in Nat /\ left = (1..n) \ gone
  OBVIOUS
<1>2. Kept(list, gone) = [k \in 1..c |-> list[nth(k)]]
  BY DEF Kept
<1>3. c \in Nat /\ c <= n
  <2> HIDE DEF left, n
  <2>1. IsFiniteSet(1..n) /\ Cardinality(1..n) = n
    BY <1>1, FS_Interval
  <2> QED BY <1>1, <2>1, FS_Subset, FS_CardinalityType
<1>4. \A i : {j \in left : j <= i} = UpTo(left, i)
  BY DEF UpTo
<1>5. \A k \in 1..c : nth(k) \in left /\ Cardinality(UpTo(left, nth(k))) = k
  <2> SUFFICES ASSUME NEW k \in 1..c
               PROVE  nth(k) \in left /\ Cardinality(UpTo(left, nth(k))) = k
    OBVIOUS
  <2>1. nth(k) = CHOOSE i \in left : Cardinality(UpTo(left, i)) = k
    BY <1>4
  <2>2. \E i \in left : Cardinality(UpTo(left, i)) = k
    <3> HIDE DEF left, n
    <3> QED BY <1>1, NthLeft
  <2> HIDE DEF left, nth
  <2> QED BY <2>1, <2>2
<1>6. \A i, j \in left : i < j => Cardinality(UpTo(left, i)) < Cardinality(UpTo(left, j))
  <2> SUFFICES ASSUME NEW i \in left, NEW j \in left, i < j
               PROVE  Cardinality(UpTo(left, i)) < Cardinality(UpTo(left, j))
    OBVIOUS
  <2>1. i \in 0..n
    BY <1>1
  <2> HIDE DEF left, n
  <2> QED BY <1>1, <2>1, UpToGrows
<1>7. \A i \in left : Cardinality(UpTo(left, i)) \in 1..c
  <2> SUFFICES ASSUME NEW i \in left PROVE Cardinality(UpTo(left, i)) \in 1..c
    OBVIOUS
  <2>1. i \in 0..n /\ 0 \in 0..n /\ 0 < i
    BY <1>1
  <2>2. Cardinality(UpTo(left, i)) \in 0..c /\ Cardinality(UpTo(left, 0)) \in 0..c
    <3> HIDE DEF left, n
    <3> QED BY <1>1, <2>1, UpToGrows
  <2>3. Cardinality(UpTo(left, 0)) < Cardinality(UpTo(left, i))
    <3> HIDE DEF left, n
    <3> QED BY <1>1, <2>1, UpToGrows
  <2> HIDE DEF left, n
  <2> QED BY <1>3, <2>2, <2>3
<1> DEFINE f == [k \in 1..c |-> nth(k)]
<1>8. f \in [1..c -> (1..n) \ gone]
  <2> HIDE DEF left, nth, n
  <2> QED BY <1>1, <1>5
<1>9. \A k, l \in 1..c : k < l => f[k] < f[l]
  <2> SUFFICES ASSUME NEW k \in 1..c, NEW l \in 1..c, k < l PROVE nth(k) < nth(l)
    <3> HIDE DEF nth, c
    <3> QED OBVIOUS
  <2>1. /\ nth(k) \in left /\ Cardinality(UpTo(left, nth(k))) = k
        /\ nth(l) \in left /\ Cardinality(UpTo(left, nth(l))) = l
    BY <1>5
  <2> HIDE DEF left, nth, c
  <2>2. nth(k) # nth(l) /\ ~(nth(l) < nth(k))
    BY <1>3, <1>6, <2>1
  <2> QED BY <1>1, <2>1, <2>2
<1>10. \A i \in left : \E k \in 1..c : f[k] = i
  <2> SUFFICES ASSUME NEW i \in left PROVE \E k \in 1..c : nth(k) = i
    OBVIOUS
  <2> DEFINE k == Cardinality(UpTo(left, i))
  <2>1. k \in 1..c
    BY <1>7
  <2>2. nth(k) \in left /\ Cardinality(UpTo(left, nth(k))) = k
    BY <1>5, <2>1
  <2> HIDE DEF left, nth, c
  <2>3. ~(nth(k) < i) /\ ~(i < nth(k))
    BY <1>3, <1>6, <2>1, <2>2
  <2>4. nth(k) = i
    BY <1>1, <2>2, <2>3
  <2> HIDE DEF k
  <2> QED BY <2>1, <2>4
<1>11. Len(Kept(list, gone)) = c /\ Kept(list, gone) \in Seq(S)
       /\ \A k \in 1..c : Kept(list, gone)[k] = list[f[k]]
  <2> HIDE DEF left, nth, c
  <2>1. \A k \in 1..c : list[nth(k)] \in S
    BY <1>1, <1>5
  <2> QED BY <1>2, <1>3, <2>1
<1> DEFINE s == Kept(list, gone)
<1> HIDE DEF f
<1>12. /\ f \in [1..Len(s) -> (1..Len(list)) \ gone]
       /\ \A k \in 1..Len(s) : s[k] = list[f[k]]
       /\ \A k, l \in 1..Len(s) : k < l => f[k] < f[l]
       /\ \A i \in (1..Len(list)) \ gone : \E k \in 1..Len(s) : f[k] = i
  BY <1>1, <1>8, <1>9, <1>10, <1>11, Zenon
<1> HIDE DEF c, s
<1>13. Leaves(s, list, gone)
  BY <1>12, Zenon DEF Leaves
<1> QED BY <1>1, <1>3, <1>11, <1>13 DEF s

-----------------------------------------------------------------------------
(* What a load makes of a file.                                            *)

\* The ids that a loaded list gets satisfy the recursion, as soon as any do.
IsLoad(list, f) ==
  f = [i \in DOMAIN list |-> IF list[i].id > 0 THEN list[i].id
                             ELSE Above({f[j] : j \in 1 .. i - 1})]

LEMMA LoadedIdsIs ==
  ASSUME NEW list, NEW g, IsLoad(list, g)
  PROVE  IsLoad(list, LoadedIds(list))
<1>1. LoadedIds(list) = CHOOSE f : IsLoad(list, f)
  BY Zenon DEF LoadedIds, IsLoad
<1> QED BY <1>1, Zenon

\* Above all of 1..i-1 is i.
LEMMA AboveAll ==
  ASSUME NEW i \in Nat \ {0}, NEW f, \A j \in 1 .. i - 1 : f[j] = j
  PROVE  Above({f[j] : j \in 1 .. i - 1}) = i
<1> DEFINE S == {0} \cup {f[j] : j \in 1 .. i - 1}
<1>1. \A x \in S : x \in 0 .. i - 1
  OBVIOUS
<1>2. i - 1 \in S
  <2>1. CASE i = 1
    BY <2>1
  <2>2. CASE i # 1
    <3>1. i - 1 \in 1 .. i - 1
      BY <2>2
    <3>2. f[i - 1] = i - 1
      BY <3>1
    <3> QED BY <3>1, <3>2
  <2> QED BY <2>1, <2>2
<1>3. Max(S) = i - 1
  <2>1. S \in SUBSET Int /\ \A x \in S : i - 1 >= x
    BY <1>1
  <2> HIDE DEF S
  <2> QED BY <1>2, <2>1, MaxIs
<1>4. 1 + Max(S) = i
  BY <1>3
<1> QED BY <1>4 DEF Above

LEMMA NumberedIds ==
  ASSUME NEW list \in Seq(Entry), Numbered(list)
  PROVE  \A i \in 1..Len(list) : LoadedIds(list)[i] = list[i].id
<1> DEFINE g == [i \in DOMAIN list |-> list[i].id]
<1>1. \A f : \A i \in DOMAIN list :
        (IF list[i].id > 0 THEN list[i].id ELSE Above({f[j] : j \in 1 .. i - 1})) = list[i].id
  BY DEF Numbered
<1>2. IsLoad(list, g)
  <2>1. g = [i \in DOMAIN list |-> IF list[i].id > 0 THEN list[i].id
                                   ELSE Above({g[j] : j \in 1 .. i - 1})]
    BY <1>1, Zenon
  <2> HIDE DEF g
  <2> QED BY <2>1 DEF IsLoad
<1>3. IsLoad(list, LoadedIds(list))
  BY <1>2, LoadedIdsIs
<1> DEFINE h == LoadedIds(list)
<1>4. h = [i \in DOMAIN list |-> IF list[i].id > 0 THEN list[i].id
                                 ELSE Above({h[j] : j \in 1 .. i - 1})]
  BY <1>3 DEF IsLoad
<1> HIDE DEF h
<1>5. \A i \in DOMAIN list : h[i] = list[i].id
  <2>1. \A i \in DOMAIN list : list[i].id > 0
    BY DEF Numbered
  <2> QED BY <1>4, <2>1, Zenon
<1>6. \A i \in 1..Len(list) : h[i] = list[i].id
  BY <1>5
<1> QED BY <1>6 DEF h

LEMMA UnnumberedIds ==
  ASSUME NEW list \in Seq(Entry), Unnumbered(list)
  PROVE  \A i \in 1..Len(list) : LoadedIds(list)[i] = i
<1> DEFINE g == [i \in DOMAIN list |-> i]
           n == Len(list)
<1>1. \A i \in DOMAIN list : ~(list[i].id > 0)
  BY DEF Unnumbered
<1>2. DOMAIN list = 1..n /\ n \in Nat
  OBVIOUS
<1>3. \A i \in DOMAIN list : Above({g[j] : j \in 1 .. i - 1}) = i
  <2> SUFFICES ASSUME NEW i \in DOMAIN list
               PROVE  Above({g[j] : j \in 1 .. i - 1}) = i
    OBVIOUS
  <2>1. i \in Nat \ {0} /\ \A j \in 1 .. i - 1 : g[j] = j
    BY <1>2
  <2> HIDE DEF g
  <2> QED BY <2>1, AboveAll
<1>4. IsLoad(list, g)
  <2>1. g = [i \in DOMAIN list |-> IF list[i].id > 0 THEN list[i].id
                                   ELSE Above({g[j] : j \in 1 .. i - 1})]
    BY <1>1, <1>3, Zenon
  <2> HIDE DEF g
  <2> QED BY <2>1 DEF IsLoad
<1>5. IsLoad(list, LoadedIds(list))
  BY <1>4, LoadedIdsIs
<1> DEFINE h == LoadedIds(list)
<1>6. h = [i \in DOMAIN list |-> IF list[i].id > 0 THEN list[i].id
                                 ELSE Above({h[j] : j \in 1 .. i - 1})]
  BY <1>5 DEF IsLoad
<1> HIDE DEF h
<1>7. \A i \in DOMAIN list : h[i] = Above({h[j] : j \in 1 .. i - 1})
  BY <1>1, <1>6, Zenon
<1> DEFINE wrong == {i \in 1..n : h[i] # i}
<1>8. wrong = {}
  <2> SUFFICES ASSUME wrong # {} PROVE FALSE
    OBVIOUS
  <2>1. PICK m \in wrong : \A i \in wrong : m <= i
    <3>1. wrong \in SUBSET Nat
      OBVIOUS
    <3> HIDE DEF wrong
    <3> QED BY <3>1, FirstOf
  <2>2. m \in 1..n /\ m \in Nat \ {0} /\ h[m] # m
    OBVIOUS
  <2>3. \A j \in 1 .. m - 1 : h[j] = j
    <3> SUFFICES ASSUME NEW j \in 1 .. m - 1, h[j] # j PROVE FALSE
      OBVIOUS
    <3>1. j \in wrong /\ ~(m <= j)
      BY <1>2, <2>2
    <3> QED BY <2>1, <3>1
  <2>4. h[m] = m
    BY <1>2, <1>7, <2>2, <2>3, AboveAll
  <2> QED BY <2>2, <2>4
<1>9. \A i \in 1..Len(list) : h[i] = i
  BY <1>8
<1> QED BY <1>9 DEF h

\* A loaded list has the songs of the file and ids of its own, and the next id
\* is ahead of them.
LEMMA LoadOf ==
  ASSUME NEW list \in Seq(Entry), Unnumbered(list) \/ Numbered(list)
  PROVE  /\ StoredEntries(list) \in Seq(Entry) /\ Len(StoredEntries(list)) = Len(list)
         /\ \A i \in 1..Len(list) :
              /\ StoredEntries(list)[i].song = list[i].song
              /\ list[i].id > 0 => StoredEntries(list)[i] = list[i]
         /\ Numbered(StoredEntries(list))
         /\ NextIdAfterLoad(list) \in Nat \ {0}
         /\ \A i \in 1..Len(list) : StoredEntries(list)[i].id \in 1 .. NextIdAfterLoad(list) - 1
<1> DEFINE s == StoredEntries(list)
           n == Len(list)
           next == NextIdAfterLoad(list)
<1>1. DOMAIN list = 1..n /\ n \in Nat /\ \A i \in 1..n : list[i] \in Entry
  OBVIOUS
<1>2. /\ \A i \in 1..n : LoadedIds(list)[i] \in Nat \ {0}
      /\ \A i, j \in 1..n : i < j => LoadedIds(list)[i] < LoadedIds(list)[j]
      /\ \A i \in 1..n : list[i].id > 0 => LoadedIds(list)[i] = list[i].id
  <2>1. CASE Numbered(list)
    <3>1. \A i \in 1..n : LoadedIds(list)[i] = list[i].id /\ list[i].id \in Nat
      BY <1>1, <2>1, NumberedIds DEF Entry
    <3> QED BY <1>1, <2>1, <3>1 DEF Numbered
  <2>2. CASE Unnumbered(list)
    <3>1. \A i \in 1..n : LoadedIds(list)[i] = i
      BY <2>2, UnnumberedIds
    <3>2. \A i \in 1..n : ~(list[i].id > 0)
      BY <1>1, <2>2 DEF Unnumbered
    <3> QED BY <1>1, <3>1, <3>2
  <2> QED BY <2>1, <2>2
<1>3. s = [i \in 1..n |-> [list[i] EXCEPT !.id = LoadedIds(list)[i]]]
  BY <1>1 DEF StoredEntries
<1>4. \A i \in 1..n : /\ s[i] \in Entry /\ s[i].id = LoadedIds(list)[i]
                      /\ s[i].song = list[i].song
                      /\ list[i].id > 0 => s[i] = list[i]
  <2> TAKE i \in 1..n
  <2>1. s[i] = [list[i] EXCEPT !.id = LoadedIds(list)[i]]
    BY <1>3
  <2> HIDE DEF s, n
  <2> QED BY <1>1, <1>2, <2>1 DEF Entry
<1> HIDE DEF s
<1>5. s \in Seq(Entry) /\ Len(s) = n /\ DOMAIN s = 1..n
  BY <1>1, <1>3, <1>4
<1>6. Numbered(s)
  BY <1>2, <1>4, <1>5 DEF Numbered
<1>7. next = 1 + Max({0} \cup Ids(s))
  BY DEF NextIdAfterLoad, Above, s
<1>8. next \in Nat \ {0} /\ \A i \in 1..n : s[i].id \in 1 .. next - 1
  <2>1. CASE n = 0
    <3>1. {0} \cup Ids(s) = {0}
      BY <1>5, <2>1 DEF Ids
    <3>2. Max({0} \cup Ids(s)) = 0
      BY <3>1, MaxIs
    <3> HIDE DEF next
    <3> QED BY <1>7, <2>1, <3>2
  <2>2. CASE n # 0
    <3> DEFINE S == {0} \cup Ids(s)
               m == s[n].id
    <3>1. n \in 1..n
      BY <1>1, <2>2
    <3>2. \A i \in 1..n : s[i].id \in Nat \ {0} /\ s[i].id <= m
      <4> TAKE i \in 1..n
      <4>1. s[i].id \in Nat \ {0} /\ m \in Nat \ {0}
        BY <1>2, <1>4, <3>1
      <4>2. i < n => s[i].id < m
        BY <1>5, <1>6, <3>1 DEF Numbered
      <4> QED BY <1>1, <4>1, <4>2
    <3>3. m \in S /\ S \in SUBSET Int /\ \A x \in S : m >= x
      BY <1>5, <3>1, <3>2 DEF Ids
    <3>4. Max(S) = m
      <4> HIDE DEF S, m
      <4> QED BY <3>3, MaxIs
    <3>5. next = 1 + m /\ m \in Nat \ {0}
      BY <1>7, <3>1, <3>2, <3>4
    <3> HIDE DEF next, m
    <3> QED BY <3>2, <3>5
  <2> QED BY <2>1, <2>2
<1> HIDE DEF next
<1>9. /\ s = StoredEntries(list) /\ next = NextIdAfterLoad(list)
  BY DEF s, next
<1> QED BY <1>4, <1>5, <1>6, <1>8, <1>9

\* The newest entries are the list from some offset on.
LEMMA NewestFrom ==
  ASSUME NEW list \in Seq(Entry), NEW n \in Nat \ {0}
  PROVE  \E d \in Nat, m \in Nat :
           /\ Newest(list, n) \in Seq(Entry) /\ Len(Newest(list, n)) = m
           /\ d + m = Len(list) /\ m <= n /\ (Len(list) > 0 => m > 0)
           /\ \A i \in 1..m : /\ d + i \in 1..Len(list)
                              /\ Newest(list, n)[i] = list[d + i]
<1> DEFINE s == Newest(list, n)
           m == Len(s)
           k == Len(list)
           d == k - m
<1>1. /\ s \in Seq(Entry)
      /\ m = IF k > n THEN n ELSE k
      /\ \A i \in 1..m : s[i] = list[k - m + i]
  BY NewestOf
<1>2. m \in Nat /\ k \in Nat
  BY <1>1
<1> HIDE DEF s, m, k
<1>3. /\ d \in Nat /\ d + m = k /\ m <= n /\ (k > 0 => m > 0)
      /\ \A i \in 1..m : d + i \in 1..k
  BY <1>1, <1>2
<1>4. \A i \in 1..m : d + i \in 1..k /\ s[i] = list[d + i]
  BY <1>1, <1>3
<1> HIDE DEF d
<1>5. /\ s \in Seq(Entry) /\ Len(s) = m /\ d + m = k /\ m <= n /\ (k > 0 => m > 0)
      /\ \A i \in 1..m : d + i \in 1..k /\ s[i] = list[d + i]
  BY <1>1, <1>3, <1>4 DEF m
<1> QED BY <1>2, <1>3, <1>5, Zenon DEF s, k

LEMMA NewestKeepsIds ==
  ASSUME NEW list \in Seq(Entry), NEW n \in Nat \ {0}
  PROVE  /\ Numbered(list) => Numbered(Newest(list, n))
         /\ Unnumbered(list) => Unnumbered(Newest(list, n))
<1> DEFINE s == Newest(list, n)
<1>1. PICK d \in Nat, m \in Nat :
        /\ s \in Seq(Entry) /\ Len(s) = m
        /\ \A i \in 1..m : d + i \in 1..Len(list) /\ s[i] = list[d + i]
  BY NewestFrom
<1> HIDE DEF s
<1>2. DOMAIN s = 1..m /\ DOMAIN list = 1..Len(list)
  BY <1>1
<1>3. ASSUME Numbered(list) PROVE Numbered(s)
  <2>1. ASSUME NEW i \in 1..m PROVE s[i].id > 0
    BY <1>1, <1>2, <1>3 DEF Numbered
  <2>2. ASSUME NEW i \in 1..m, NEW j \in 1..m, i < j PROVE s[i].id < s[j].id
    <3>1. d + i < d + j
      BY <2>2
    <3>2. /\ d + i \in DOMAIN list /\ d + j \in DOMAIN list
          /\ s[i] = list[d + i] /\ s[j] = list[d + j]
      BY <1>1, <1>2
    <3>3. list[d + i].id < list[d + j].id
      BY <1>3, <3>1, <3>2 DEF Numbered
    <3> QED BY <3>2, <3>3
  <2> QED BY <1>2, <2>1, <2>2 DEF Numbered
<1>4. ASSUME Unnumbered(list) PROVE Unnumbered(s)
  BY <1>1, <1>2, <1>4 DEF Unnumbered
<1> QED BY <1>3, <1>4 DEF s

-----------------------------------------------------------------------------
(* The invariant: the rows of the view are records with ids that are given, *)
(* and the file was written by one version.                                *)

ViewOk ==
  \A i \in DOMAIN view :
    /\ view[i].id \in 1 .. next_id - 1
    /\ \A j \in DOMAIN entries : entries[j].id = view[i].id => entries[j] = view[i]

StoreInv ==
  /\ StoreTypeOK /\ IdsIncrease /\ ViewOk
  /\ Unnumbered(file) \/ Numbered(file)

LEMMA Saved ==
  ASSUME StoreInv, Save, entries' \in Seq(Entry), Numbered(entries')
  PROVE  file' \in Seq(Entry) /\ (Unnumbered(file') \/ Numbered(file'))
BY DEF StoreInv, StoreTypeOK, Save

LEMMA EntriesAreNumbered ==
  ASSUME StoreInv
  PROVE  Numbered(entries)
BY DEF StoreInv, IdsIncrease, StoreTypeOK, Numbered, Entry

\* What is loaded is the end of the file, with ids below the next one; and
\* what had an id has kept it.
LEMMA LoadInv ==
  ASSUME NEW f \in Seq(Entry), Unnumbered(f) \/ Numbered(f), NEW n \in Nat \ {0},
         NEW reads \in BOOLEAN, NEW s, s = LoadHistory(f, n, reads)
  PROVE  /\ s.entries \in Seq(Entry) /\ Len(s.entries) <= n
         /\ s.next \in Nat \ {0} /\ Numbered(s.entries)
         /\ \A i \in DOMAIN s.entries : s.entries[i].id \in 1 .. s.next - 1
         /\ IF reads
            THEN /\ DOMAIN s.entries = DOMAIN Newest(f, n)
                 /\ \A i \in DOMAIN s.entries :
                      /\ s.entries[i].song = Newest(f, n)[i].song
                      /\ Newest(f, n)[i].id > 0 => s.entries[i] = Newest(f, n)[i]
            ELSE s.entries = <<>>
<1> DEFINE l == Newest(f, n)
<1>0. CASE ~reads
  <2>1. s.entries = <<>> /\ s.next = 1 /\ DOMAIN s.entries = {}
    BY <1>0 DEF LoadHistory
  <2>2. s.entries \in Seq(Entry) /\ Numbered(s.entries)
    BY <2>1 DEF Numbered
  <2> HIDE DEF l
  <2> QED BY <1>0, <2>1, <2>2
<1>1. CASE reads
  <2>0. s = [entries |-> StoredEntries(l), next |-> NextIdAfterLoad(l)]
    BY <1>1 DEF LoadHistory
  <2>1. PICK d \in Nat, m \in Nat :
          l \in Seq(Entry) /\ Len(l) = m /\ d + m = Len(f) /\ m <= n
    BY NewestFrom
  <2>2. Unnumbered(l) \/ Numbered(l)
    BY NewestKeepsIds
  <2> HIDE DEF l
  <2>3. /\ s.entries \in Seq(Entry) /\ Len(s.entries) = m
        /\ \A i \in 1..m : /\ s.entries[i].song = l[i].song
                           /\ l[i].id > 0 => s.entries[i] = l[i]
        /\ Numbered(s.entries) /\ s.next \in Nat \ {0}
        /\ \A i \in 1..m : s.entries[i].id \in 1 .. s.next - 1
    <3> DEFINE t == StoredEntries(l)
    <3>1. s.entries = t /\ s.next = NextIdAfterLoad(l)
      BY <2>0
    <3>2. /\ t \in Seq(Entry) /\ Len(t) = Len(l)
          /\ \A i \in 1..Len(l) : t[i].song = l[i].song /\ (l[i].id > 0 => t[i] = l[i])
          /\ Numbered(t) /\ NextIdAfterLoad(l) \in Nat \ {0}
          /\ \A i \in 1..Len(l) : t[i].id \in 1 .. NextIdAfterLoad(l) - 1
      BY <2>1, <2>2, LoadOf
    <3> HIDE DEF t
    <3> QED BY <2>1, <3>1, <3>2
  <2>4. DOMAIN s.entries = 1..m /\ DOMAIN l = 1..m
    BY <2>1, <2>3
  <2>5. Len(s.entries) <= n
    BY <2>1, <2>3
  <2> QED BY <1>1, <2>3, <2>4, <2>5 DEF l
<1> QED BY <1>0, <1>1

\* A record of a song that started.
LEMMA RecordInv ==
  ASSUME StoreInv, NEW song \in Song, Record(song), TypeOK'
  PROVE  /\ StoreInv'
         /\ \E d \in Nat, m \in Nat \ {0} :
              /\ entries' \in Seq(Entry) /\ Len(entries') = m /\ d + m = Len(entries) + 1
              /\ entries'[m] = [id |-> next_id, song |-> song]
              /\ \A i \in 1 .. m - 1 : d + i \in 1..Len(entries)
                                       /\ entries'[i] = entries[d + i]
<1> DEFINE e == [id |-> next_id, song |-> song]
           l == Append(entries, e)
           n == Len(entries)
<1>0. /\ entries \in Seq(Entry) /\ n \in Nat /\ DOMAIN entries = 1..n
      /\ next_id \in Nat \ {0} /\ cap \in Nat \ {0}
  BY StoreAssumption DEF StoreInv, StoreTypeOK
<1>1. e \in Entry /\ e.id = next_id
  BY <1>0 DEF Entry
<1>2. /\ \A i, j \in 1..n : i < j => entries[i].id < entries[j].id
      /\ \A i \in 1..n : entries[i].id \in 1 .. next_id - 1
  BY <1>0 DEF StoreInv, IdsIncrease
<1> HIDE DEF e
<1>3. /\ l \in Seq(Entry) /\ Len(l) = n + 1 /\ l[n + 1] = e
      /\ \A i \in 1..n : l[i] = entries[i]
  BY <1>0, <1>1
<1>4. /\ entries' = Newest(l, cap) /\ next_id' = next_id + 1 /\ Save
      /\ UNCHANGED <<cap, enabled, view, disk>>
  BY DEF Record, e
<1> HIDE DEF l, n
<1>5. PICK d \in Nat, m \in Nat :
        /\ entries' \in Seq(Entry) /\ Len(entries') = m
        /\ d + m = n + 1 /\ m <= cap /\ m > 0
        /\ \A i \in 1..m : d + i \in 1..(n + 1) /\ entries'[i] = l[d + i]
  <2>1. PICK d \in Nat, m \in Nat :
          /\ Newest(l, cap) \in Seq(Entry) /\ Len(Newest(l, cap)) = m
          /\ d + m = Len(l) /\ m <= cap /\ (Len(l) > 0 => m > 0)
          /\ \A i \in 1..m : d + i \in 1..Len(l) /\ Newest(l, cap)[i] = l[d + i]
    BY <1>0, <1>3, NewestFrom
  <2>2. /\ entries' \in Seq(Entry) /\ Len(entries') = m
        /\ d + m = n + 1 /\ m <= cap /\ m > 0
        /\ \A i \in 1..m : d + i \in 1..(n + 1) /\ entries'[i] = l[d + i]
    <3>1. n + 1 > 0
      BY <1>0
    <3> QED BY <1>3, <1>4, <2>1, <3>1
  <2> QED BY <2>2, Zenon
<1>6. DOMAIN entries' = 1..m
  BY <1>5
<1>7. \A i \in 1..(n + 1) : l[i].id \in 1..next_id /\ (i <= n => l[i].id < next_id)
  BY <1>0, <1>1, <1>2, <1>3
<1>8. \A i, j \in 1..(n + 1) : i < j => l[i].id < l[j].id
  <2> SUFFICES ASSUME NEW i \in 1..(n + 1), NEW j \in 1..(n + 1), i < j
               PROVE  l[i].id < l[j].id
    OBVIOUS
  <2>1. i \in 1..n /\ l[i] = entries[i]
    BY <1>0, <1>3
  <2>2. CASE j = n + 1
    BY <1>0, <1>1, <1>2, <1>3, <2>1, <2>2
  <2>3. CASE j # n + 1
    <3>1. j \in 1..n /\ l[j] = entries[j]
      BY <1>0, <1>3, <2>3
    <3> QED BY <1>2, <2>1, <3>1
  <2> QED BY <2>2, <2>3
<1>9. IdsIncrease'
  <2>1. ASSUME NEW i \in 1..m, NEW j \in 1..m, i < j PROVE entries'[i].id < entries'[j].id
    <3>1. d + i < d + j
      BY <2>1
    <3>2. /\ d + i \in 1..(n + 1) /\ d + j \in 1..(n + 1)
          /\ entries'[i] = l[d + i] /\ entries'[j] = l[d + j]
      BY <1>5
    <3>3. l[d + i].id < l[d + j].id
      BY <1>8, <3>1, <3>2
    <3> QED BY <3>2, <3>3
  <2>2. ASSUME NEW i \in 1..m PROVE entries'[i].id \in 1..(next_id' - 1)
    <3>1. next_id' - 1 = next_id
      BY <1>0, <1>4
    <3>2. d + i \in 1..(n + 1) /\ entries'[i] = l[d + i]
      BY <1>5
    <3> QED BY <1>7, <3>1, <3>2
  <2> QED BY <1>6, <2>1, <2>2 DEF IdsIncrease
<1>10. entries'[m] = e
  <2>1. m \in 1..m
    BY <1>5
  <2>2. entries'[m] = l[d + m]
    BY <1>5, <2>1
  <2> QED BY <1>3, <1>5, <2>2
<1>11. ViewOk'
  <2>1. ASSUME NEW i \in DOMAIN view
        PROVE  /\ view[i].id \in 1..(next_id' - 1)
               /\ \A j \in 1..m : entries'[j].id = view[i].id => entries'[j] = view[i]
    <3>1. /\ view[i].id \in 1 .. next_id - 1
          /\ \A j \in 1..n : entries[j].id = view[i].id => entries[j] = view[i]
      BY <1>0 DEF StoreInv, ViewOk
    <3>2. \A k \in 1..(n + 1) : l[k].id = view[i].id => l[k] = view[i]
      <4> SUFFICES ASSUME NEW k \in 1..(n + 1), l[k].id = view[i].id PROVE l[k] = view[i]
        OBVIOUS
      <4>1. k # n + 1
        BY <1>0, <1>1, <1>3, <3>1
      <4>2. k \in 1..n /\ l[k] = entries[k]
        BY <1>0, <1>3, <4>1
      <4> QED BY <3>1, <4>2
    <3>3. view[i].id \in 1..(next_id' - 1)
      BY <1>0, <1>4, <3>1
    <3> QED BY <1>5, <3>2, <3>3
  <2>2. view' = view
    BY <1>4
  <2> QED BY <1>6, <2>1, <2>2 DEF ViewOk
<1>12. StoreTypeOK' /\ (Unnumbered(file') \/ Numbered(file'))
  <2>1. Numbered(entries')
    <3>1. \A i \in 1..m : entries'[i].id > 0
      BY <1>6, <1>9, <1>0, <1>4 DEF IdsIncrease
    <3> QED BY <1>6, <1>9, <3>1 DEF IdsIncrease, Numbered
  <2>2. file' \in Seq(Entry) /\ (Unnumbered(file') \/ Numbered(file'))
    BY <1>4, <1>5, <2>1, Saved
  <2>3. view \in Seq(Entry) /\ cap \in Caps /\ enabled \in Switches /\ disk \in Disks
    BY DEF StoreInv, StoreTypeOK
  <2>4. next_id' \in Nat \ {0}
    BY <1>0, <1>4
  <2> QED BY <1>4, <1>5, <2>2, <2>3, <2>4 DEF StoreTypeOK
<1>13. \A i \in 1 .. m - 1 : d + i \in 1..n /\ entries'[i] = entries[d + i]
  <2> TAKE i \in 1 .. m - 1
  <2>1. i \in 1..m /\ d + i \in 1..n
    BY <1>0, <1>5
  <2> QED BY <1>3, <1>5, <2>1
<1>14. m \in Nat \ {0}
  BY <1>5
<1> QED BY <1>5, <1>9, <1>10, <1>11, <1>12, <1>13, <1>14 DEF StoreInv, e, n

\* The view that follows the store shows its records, and nothing else.
LEMMA ReversedOk ==
  ASSUME NEW e \in Seq(Entry), NEW n \in Nat,
         \A i, j \in DOMAIN e : i < j => e[i].id < e[j].id,
         \A i \in DOMAIN e : e[i].id \in 1 .. n - 1
  PROVE  /\ Reverse(e) \in Seq(Entry)
         /\ \A i \in DOMAIN Reverse(e) :
              /\ Reverse(e)[i].id \in 1 .. n - 1
              /\ \A j \in DOMAIN e : e[j].id = Reverse(e)[i].id => e[j] = Reverse(e)[i]
<1> DEFINE m == Len(e)
<1>1. m \in Nat /\ DOMAIN e = 1..m /\ \A i \in 1..m : m - i + 1 \in 1..m
  OBVIOUS
<1>2. Reverse(e) = [i \in 1..m |-> e[m - i + 1]]
  BY DEF Reverse
<1>3. \A i \in 1..m : e[i] \in Entry /\ e[i].id \in Nat
  <2>1. \A i \in 1..m : e[i] \in Entry
    OBVIOUS
  <2> QED BY <2>1 DEF Entry
<1> HIDE DEF m
<1>4. Reverse(e) \in Seq(Entry) /\ DOMAIN Reverse(e) = 1..m
  BY <1>1, <1>2, <1>3
<1>5. \A i, j \in 1..m : e[i].id = e[j].id => i = j
  <2> TAKE i, j \in 1..m
  <2>1. e[i].id \in Nat /\ e[j].id \in Nat /\ i \in DOMAIN e /\ j \in DOMAIN e
    BY <1>1, <1>3
  <2>2. (i < j => e[i].id < e[j].id) /\ (j < i => e[j].id < e[i].id)
    BY <2>1
  <2> QED BY <1>1, <2>1, <2>2
<1>6. ASSUME NEW i \in 1..m
      PROVE  /\ Reverse(e)[i].id \in 1 .. n - 1
             /\ \A j \in 1..m : e[j].id = Reverse(e)[i].id => e[j] = Reverse(e)[i]
  <2>1. Reverse(e)[i] = e[m - i + 1] /\ m - i + 1 \in 1..m
    BY <1>1, <1>2
  <2> QED BY <1>1, <1>5, <2>1
<1> QED BY <1>1, <1>4, <1>6

\* Ids are unique, so that a row takes away the record that it shows.
LEMMA DoomedIs ==
  ASSUME StoreInv, NEW lo \in DOMAIN view, NEW hi \in DOMAIN view
  PROVE  /\ lo..hi \subseteq DOMAIN view
         /\ Doomed(lo, hi) = {i \in DOMAIN entries : \E k \in lo..hi : entries[i] = view[k]}
<1>1. /\ DOMAIN entries = 1..Len(entries) /\ Len(entries) \in Nat
      /\ DOMAIN view = 1..Len(view) /\ Len(view) \in Nat
      /\ \A i \in DOMAIN entries : entries[i].id \in Nat
  <2>1. entries \in Seq(Entry) /\ view \in Seq(Entry)
    BY DEF StoreInv, StoreTypeOK
  <2>2. \A i \in DOMAIN entries : entries[i] \in Entry
    BY <2>1
  <2> QED BY <2>1, <2>2 DEF Entry
<1>2. lo..hi \subseteq DOMAIN view
  BY <1>1
<1>3. IsFiniteSet(lo..hi)
  <2>1. lo \in Int /\ hi \in Int
    BY <1>1
  <2> QED BY <2>1, FS_Interval
<1>4. ASSUME NEW i \in DOMAIN entries
      PROVE  Cardinality(EntriesBefore(i)) = 0
  <2>1. \A j \in 1 .. i - 1 : entries[j].id # entries[i].id
    <3> TAKE j \in 1 .. i - 1
    <3>1. j \in DOMAIN entries /\ j < i
      BY <1>1
    <3>2. entries[j].id < entries[i].id
      BY <3>1 DEF StoreInv, IdsIncrease
    <3> QED BY <1>1, <3>1, <3>2
  <2>2. EntriesBefore(i) = {}
    BY <2>1, Zenon DEF EntriesBefore
  <2> QED BY <2>2, FS_EmptySet
<1>5. ASSUME NEW i \in DOMAIN entries
      PROVE  0 < Cardinality(RowsWith(lo, hi, entries[i].id))
               <=> \E k \in lo..hi : view[k].id = entries[i].id
  <2> DEFINE R == RowsWith(lo, hi, entries[i].id)
  <2>1. R \in SUBSET (lo..hi) /\ (R # {} <=> \E k \in lo..hi : view[k].id = entries[i].id)
    BY Zenon DEF RowsWith
  <2> HIDE DEF R
  <2>2. IsFiniteSet(R) /\ Cardinality(R) \in Nat
    BY <1>3, <2>1, FS_Subset, FS_CardinalityType
  <2>3. Cardinality(R) = 0 <=> R = {}
    BY <2>2, FS_EmptySet
  <2>4. 0 < Cardinality(R) <=> R # {}
    BY <2>2, <2>3
  <2> QED BY <2>1, <2>4 DEF R
<1>6. ASSUME NEW i \in DOMAIN entries, NEW k \in lo..hi
      PROVE  view[k].id = entries[i].id <=> entries[i] = view[k]
  BY <1>2 DEF StoreInv, ViewOk
<1>7. \A i \in DOMAIN entries :
        Cardinality(EntriesBefore(i)) < Cardinality(RowsWith(lo, hi, entries[i].id))
          <=> \E k \in lo..hi : entries[i] = view[k]
  BY <1>4, <1>5, <1>6
<1> QED BY <1>2, <1>7, Zenon DEF Doomed

\* A deletion takes the records of its rows, and keeps the others in order.
LEMMA DeleteInv ==
  ASSUME StoreInv, NEW lo \in DOMAIN view, NEW hi \in DOMAIN view, DeleteRows(lo, hi), TypeOK'
  PROVE  /\ StoreInv'
         /\ ToSet(entries') = ToSet(entries) \ {view[i] : i \in lo..hi}
         /\ \E f \in [DOMAIN entries' -> DOMAIN entries] :
              /\ \A k \in DOMAIN entries' : entries'[k] = entries[f[k]]
              /\ \A k, l \in DOMAIN entries' : k < l => f[k] < f[l]
<1> DEFINE n == Len(entries)
           m == Len(entries')
           gone == Doomed(lo, hi)
<1>1. /\ entries \in Seq(Entry) /\ n \in Nat /\ DOMAIN entries = 1..n /\ n <= cap
      /\ next_id \in Nat \ {0} /\ cap \in Nat \ {0}
      /\ \A i \in 1..n : entries[i] \in Entry /\ entries[i].id \in 1 .. next_id - 1
      /\ \A i, j \in 1..n : i < j => entries[i].id < entries[j].id
  BY StoreAssumption DEF StoreInv, StoreTypeOK, IdsIncrease
<1>2. /\ entries' = Kept(entries, gone) /\ view' = Reverse(entries')
      /\ (UNCHANGED file \/ Save) /\ UNCHANGED <<next_id, cap, enabled, disk>>
  BY DEF DeleteRows
<1> HIDE DEF gone
<1>3. PICK f \in [1..m -> (1..n) \ gone] :
        /\ \A k \in 1..m : entries'[k] = entries[f[k]]
        /\ \A k, l \in 1..m : k < l => f[k] < f[l]
        /\ \A i \in (1..n) \ gone : \E k \in 1..m : f[k] = i
  <2>1. Leaves(entries', entries, gone)
    BY <1>1, <1>2, KeptOf
  <2> HIDE DEF m, n
  <2> QED BY <2>1, Zenon DEF Leaves, m, n
<1>4. entries' \in Seq(Entry) /\ m <= n /\ m \in Nat /\ DOMAIN entries' = 1..m
  <2>1. entries' \in Seq(Entry) /\ Len(entries') <= Len(entries)
    BY <1>1, <1>2, KeptOf
  <2> QED BY <2>1
<1> HIDE DEF n, m
<1>5. \A k \in 1..m : f[k] \in 1..n /\ f[k] \notin gone
  BY <1>3
<1>6. \A k \in 1..m : entries'[k].id \in 1 .. next_id - 1
  BY <1>1, <1>3, <1>5
<1>7. \A k, l \in 1..m : k < l => entries'[k].id < entries'[l].id
  BY <1>1, <1>3, <1>5
<1>8. IdsIncrease'
  BY <1>2, <1>4, <1>6, <1>7 DEF IdsIncrease
<1>9. view' \in Seq(Entry) /\ ViewOk'
  <2>1. /\ \A i, j \in DOMAIN entries' : i < j => entries'[i].id < entries'[j].id
        /\ \A i \in DOMAIN entries' : entries'[i].id \in 1 .. next_id - 1
        /\ next_id \in Nat
    BY <1>1, <1>4, <1>6, <1>7
  <2>2. /\ Reverse(entries') \in Seq(Entry)
        /\ \A i \in DOMAIN Reverse(entries') :
             /\ Reverse(entries')[i].id \in 1 .. next_id - 1
             /\ \A j \in DOMAIN entries' : entries'[j].id = Reverse(entries')[i].id
                                             => entries'[j] = Reverse(entries')[i]
    BY <1>4, <2>1, ReversedOk
  <2> QED BY <1>2, <2>2, Zenon DEF ViewOk
<1>10. StoreTypeOK' /\ (Unnumbered(file') \/ Numbered(file'))
  <2>1. Numbered(entries')
    <3>1. \A i \in 1..m : entries'[i].id > 0
      BY <1>1, <1>6
    <3> QED BY <1>4, <1>7, <3>1 DEF Numbered
  <2>2. file' \in Seq(Entry) /\ (Unnumbered(file') \/ Numbered(file'))
    BY <1>2, <1>4, <2>1, Saved DEF StoreInv, StoreTypeOK
  <2>3. cap \in Caps /\ enabled \in Switches /\ disk \in Disks
    BY DEF StoreInv, StoreTypeOK
  <2>4. Len(entries') <= cap'
    BY <1>1, <1>2, <1>4 DEF n, m
  <2> QED BY <1>1, <1>2, <1>4, <1>9, <2>2, <2>3, <2>4 DEF StoreTypeOK
<1>11. gone = {i \in 1..n : \E k \in lo..hi : entries[i] = view[k]}
  BY <1>1, DoomedIs DEF gone
<1>12. ToSet(entries') = ToSet(entries) \ {view[i] : i \in lo..hi}
  <2>1. ASSUME NEW k \in 1..m
        PROVE  entries'[k] \in ToSet(entries) \ {view[i] : i \in lo..hi}
    <3>1. f[k] \in 1..n /\ f[k] \notin gone /\ entries'[k] = entries[f[k]]
      BY <1>3, <1>5
    <3> QED BY <1>1, <1>11, <3>1 DEF ToSet
  <2>2. ASSUME NEW i \in 1..n, entries[i] \notin {view[k] : k \in lo..hi}
        PROVE  \E k \in 1..m : entries'[k] = entries[i]
    <3>1. i \notin gone
      BY <1>11, <2>2
    <3>2. PICK k \in 1..m : f[k] = i
      BY <1>3, <3>1
    <3> QED BY <1>3, <3>2
  <2>3. ToSet(entries') = {entries'[k] : k \in 1..m} /\ ToSet(entries) = {entries[i] : i \in 1..n}
    BY <1>1, <1>4 DEF ToSet
  <2> QED BY <2>1, <2>2, <2>3
<1>13. f \in [DOMAIN entries' -> DOMAIN entries]
  BY <1>1, <1>3, <1>4
<1>14. \E g \in [DOMAIN entries' -> DOMAIN entries] :
         /\ \A k \in DOMAIN entries' : entries'[k] = entries[g[k]]
         /\ \A k, l \in DOMAIN entries' : k < l => g[k] < g[l]
  BY <1>3, <1>4, <1>13, Zenon
<1> QED BY <1>2, <1>8, <1>9, <1>10, <1>12, <1>14 DEF StoreInv

\* The list of a load has increasing ids, all of them given.
LEMMA LoadIncreases ==
  ASSUME NEW f \in Seq(Entry), Unnumbered(f) \/ Numbered(f), NEW n \in Nat \ {0},
         NEW reads \in BOOLEAN, NEW s, s = LoadHistory(f, n, reads)
  PROVE  /\ \A i, j \in DOMAIN s.entries : i < j => s.entries[i].id < s.entries[j].id
         /\ \A i \in DOMAIN s.entries : s.entries[i].id \in 1 .. s.next - 1
BY LoadInv DEF Numbered

LEMMA StoreStart == FilesAreWritten /\ StoreInit => StoreInv /\ RecorderInv
<1> SUFFICES ASSUME FilesAreWritten, StoreInit PROVE StoreInv /\ RecorderInv
  OBVIOUS
<1>1. RecorderInv
  BY RecorderInit DEF StoreInit
<1>2. /\ file \in Seq(Entry) /\ (Unnumbered(file) \/ Numbered(file))
      /\ cap \in Nat \ {0} /\ cap \in Caps /\ enabled \in Switches /\ view = <<>>
      /\ disk \in Disks
  BY StoreAssumption DEF StoreInit, Entry, FilesAreWritten
<1> DEFINE reads == enabled /\ "read" \in disk
           s == LoadHistory(file, cap, reads)
<1>3. reads \in BOOLEAN /\ entries = s.entries /\ next_id = s.next
  BY StoreAssumption, <1>2 DEF StoreInit
<1> HIDE DEF s, reads
<1>4. entries \in Seq(Entry) /\ Len(entries) <= cap /\ next_id \in Nat \ {0}
  BY <1>2, <1>3, LoadInv DEF s
<1>5. IdsIncrease
  <2>1. /\ \A i, j \in DOMAIN s.entries : i < j => s.entries[i].id < s.entries[j].id
        /\ \A i \in DOMAIN s.entries : s.entries[i].id \in 1 .. s.next - 1
    BY <1>2, <1>3, LoadIncreases DEF s
  <2> QED BY <1>3, <2>1 DEF IdsIncrease
<1>6. view \in Seq(Entry) /\ ViewOk
  BY <1>2 DEF ViewOk
<1>7. StoreTypeOK
  BY <1>1, <1>2, <1>4, <1>6 DEF StoreTypeOK, RecorderInv
<1> QED BY <1>1, <1>2, <1>5, <1>6, <1>7 DEF StoreInv

LEMMA StartAgainInv ==
  ASSUME StoreInv, StartAgain, TypeOK'
  PROVE  StoreInv'
<1>0. PICK n \in Caps, on \in Switches :
        LET load == LoadHistory(file, n, on /\ "read" \in disk)
        IN  cap' = n /\ enabled' = on /\ entries' = load.entries /\ next_id' = load.next
  BY Zenon DEF StartAgain
<1> DEFINE reads == on /\ "read" \in disk
           s == LoadHistory(file, n, reads)
<1>1. cap' = n /\ enabled' = on /\ entries' = s.entries /\ next_id' = s.next
  BY <1>0
<1>2. /\ file' = file /\ file \in Seq(Entry) /\ (Unnumbered(file) \/ Numbered(file))
      /\ view' = <<>> /\ n \in Nat \ {0} /\ disk' = disk /\ disk \in Disks
      /\ on \in BOOLEAN
  BY StoreAssumption DEF StartAgain, StoreInv, StoreTypeOK
<1>3. reads \in BOOLEAN
  BY <1>2
<1> HIDE DEF s, reads
<1>4. entries' \in Seq(Entry) /\ Len(entries') <= cap' /\ next_id' \in Nat \ {0}
  BY <1>1, <1>2, <1>3, LoadInv DEF s
<1>5. IdsIncrease'
  <2>1. /\ \A i, j \in DOMAIN s.entries : i < j => s.entries[i].id < s.entries[j].id
        /\ \A i \in DOMAIN s.entries : s.entries[i].id \in 1 .. s.next - 1
    BY <1>2, <1>3, LoadIncreases DEF s
  <2> QED BY <1>1, <2>1 DEF IdsIncrease
<1>6. view' \in Seq(Entry) /\ ViewOk'
  BY <1>2 DEF ViewOk
<1>7. StoreTypeOK'
  BY <1>1, <1>2, <1>4, <1>6 DEF StoreTypeOK
<1> QED BY <1>2, <1>5, <1>6, <1>7 DEF StoreInv

LEMMA DiskInv ==
  ASSUME StoreInv, DiskChanges, TypeOK'
  PROVE  StoreInv'
BY DEF DiskChanges, StoreInv, StoreTypeOK, IdsIncrease, ViewOk

LEMMA RefreshInv ==
  ASSUME StoreInv, RefreshHistoryView, TypeOK'
  PROVE  StoreInv'
<1>1. /\ view' = Reverse(entries)
      /\ UNCHANGED <<entries, next_id, cap, enabled, file, disk>>
      /\ entries \in Seq(Entry) /\ next_id \in Nat
  BY DEF RefreshHistoryView, StoreInv, StoreTypeOK
<1>2. /\ \A i, j \in DOMAIN entries : i < j => entries[i].id < entries[j].id
      /\ \A i \in DOMAIN entries : entries[i].id \in 1 .. next_id - 1
  BY DEF StoreInv, IdsIncrease
<1>3. /\ Reverse(entries) \in Seq(Entry)
      /\ \A i \in DOMAIN Reverse(entries) :
           /\ Reverse(entries)[i].id \in 1 .. next_id - 1
           /\ \A j \in DOMAIN entries : entries[j].id = Reverse(entries)[i].id
                                          => entries[j] = Reverse(entries)[i]
  BY <1>1, <1>2, ReversedOk
<1>4. ViewOk'
  BY <1>1, <1>3, Zenon DEF ViewOk
<1>5. IdsIncrease'
  BY <1>1, <1>2 DEF IdsIncrease
<1>6. StoreTypeOK'
  BY <1>1, <1>3 DEF StoreTypeOK, StoreInv
<1>7. Unnumbered(file') \/ Numbered(file')
  BY <1>1 DEF StoreInv
<1> QED BY <1>4, <1>5, <1>6, <1>7 DEF StoreInv

\* What does not touch the store.
LEMMA StoreRests ==
  ASSUME StoreInv, UNCHANGED store_vars, TypeOK'
  PROVE  StoreInv'
BY DEF StoreInv, StoreTypeOK, IdsIncrease, ViewOk, store_vars

\* The recorder goes on, or a step of the store leaves it alone.
LEMMA RecorderGoesOn ==
  ASSUME RecorderInv, [StoreNext]_history_vars
  PROVE  RecorderInv'
<1>1. CASE [Next]_vars
  BY <1>1, RecorderStep
<1>2. CASE NothingPlayed
  BY <1>2 DEF NothingPlayed, RecorderInv, TypeOK
<1>3. [Next]_vars \/ NothingPlayed
  BY Zenon DEF StoreNext, Samples, Elsewhere, StartAgain, Next, history_vars, vars
<1> QED BY <1>1, <1>2, <1>3

LEMMA StoreStep == StoreInv /\ RecorderInv /\ [StoreNext]_history_vars => StoreInv' /\ RecorderInv'
<1> SUFFICES ASSUME StoreInv, RecorderInv, [StoreNext]_history_vars
             PROVE  StoreInv' /\ RecorderInv'
  OBVIOUS
<1>1. RecorderInv' /\ TypeOK'
  BY RecorderGoesOn DEF RecorderInv
<1>2. CASE Samples
  <2>1. CASE recorded' = {}
    BY <1>1, <1>2, <2>1, StoreRests DEF Samples
  <2>2. CASE recorded' # {}
    <3>1. PICK song \in recorded' : Record(song)
      BY <1>2, <2>2 DEF Samples
    <3>2. song \in Song
      BY <1>1 DEF TypeOK
    <3> QED BY <1>1, <3>1, <3>2, RecordInv
  <2> QED BY <2>1, <2>2
<1>3. CASE Elsewhere
  BY <1>1, <1>3, StoreRests DEF Elsewhere
<1>4. CASE \E lo, hi \in DOMAIN view : lo <= hi /\ DeleteRows(lo, hi) /\ NothingPlayed
  BY <1>1, <1>4, DeleteInv
<1>5. CASE RefreshHistoryView /\ NothingPlayed
  BY <1>1, <1>5, RefreshInv
<1>6. CASE StartAgain
  BY <1>1, <1>6, StartAgainInv
<1>7. CASE DiskChanges /\ NothingPlayed
  BY <1>1, <1>7, DiskInv
<1>8. CASE UNCHANGED history_vars
  BY <1>1, <1>8, StoreRests DEF history_vars
<1> QED BY <1>1, <1>2, <1>3, <1>4, <1>5, <1>6, <1>7, <1>8, Zenon DEF StoreNext

\* StoreInvariant: the invariant holds for every cap, every file and every order
\* of samples, deletions, failed saves and restarts.
THEOREM StoreInvariant == FilesAreWritten /\ StoreSpec => [](StoreInv /\ RecorderInv)
BY StoreStart, StoreStep, PTL DEF StoreSpec

\* StoreTypes: the store never holds more than its cap, and every variable stays
\* in its range (history.cpp, record() and its eviction).
THEOREM StoreTypes == FilesAreWritten /\ StoreSpec => []StoreTypeOK
<1>1. StoreInv => StoreTypeOK
  BY DEF StoreInv
<1> QED BY <1>1, StoreInvariant, PTL

\* IdsNameRecords: an id names one record of the store, whatever was loaded.
THEOREM IdsNameRecords == FilesAreWritten /\ StoreSpec => []IdsIncrease
<1>1. StoreInv => IdsIncrease
  BY DEF StoreInv
<1> QED BY <1>1, StoreInvariant, PTL

\* DeletionsHitTheView: the rows on screen are what a deletion takes away.
THEOREM DeletionsHitTheView == FilesAreWritten /\ StoreSpec => DeletionHitsView
<1>1. StoreInv /\ (StoreInv /\ RecorderInv)' /\ [StoreNext]_history_vars =>
        [NothingPlayed =>
           \A lo, hi \in DOMAIN view : lo <= hi /\ DeleteRows(lo, hi)
             => ToSet(entries') = ToSet(entries) \ {view[i] : i \in lo..hi}]_history_vars
  <2> SUFFICES ASSUME StoreInv, RecorderInv', NEW lo \in DOMAIN view, NEW hi \in DOMAIN view,
                      DeleteRows(lo, hi)
               PROVE  ToSet(entries') = ToSet(entries) \ {view[i] : i \in lo..hi}
    BY Zenon
  <2>1. TypeOK'
    BY DEF RecorderInv
  <2> QED BY <2>1, DeleteInv
<1>2. FilesAreWritten /\ StoreSpec => [][NothingPlayed =>
           \A lo, hi \in DOMAIN view : lo <= hi /\ DeleteRows(lo, hi)
             => ToSet(entries') = ToSet(entries) \ {view[i] : i \in lo..hi}]_history_vars
  BY <1>1, StoreInvariant, PTL DEF StoreSpec
<1> QED BY <1>2 DEF DeletionHitsView

\* Whatever is on disk, the recorder stays in step.
LEMMA RecorderGoesOnAlways == StoreSpec => []RecorderInv
<1>1. StoreInit => RecorderInv
  BY RecorderInit DEF StoreInit
<1>2. RecorderInv /\ [StoreNext]_history_vars => RecorderInv'
  BY RecorderGoesOn
<1> QED BY <1>1, <1>2, PTL DEF StoreSpec

\* OnlyStartsAreStored: what is recorded is what MPD started since the last sample.
THEOREM OnlyStartsAreStored == StoreSpec => RecordsAreStarts
<1>1. RecorderInv /\ [StoreNext]_history_vars =>
        [recorded' \subseteq unheard \cup unheard']_vars
  <2>1. [StoreNext]_history_vars => [Next]_vars \/ recorded' = {}
    BY Zenon DEF StoreNext, Samples, Elsewhere, StartAgain, Next, history_vars, vars,
                 NothingPlayed
  <2> QED BY <2>1, StepRecordsStarts
<1>2. StoreSpec => [][recorded' \subseteq unheard \cup unheard']_vars
  BY <1>1, RecorderGoesOnAlways, PTL DEF StoreSpec
<1> QED BY <1>2 DEF RecordsAreStarts

\* SeenStartsAreStored: a start that a sample can see is recorded by it.
THEOREM SeenStartsAreStored == StoreSpec => StartIsRecorded
<1>1. RecorderInv /\ [StoreNext]_history_vars =>
        [mpd.song \in unheard /\ mpd.song # seen
           /\ attached' /\ mpd' = mpd /\ RefreshPlayer
         => mpd.song \in recorded']_vars
  <2>1. RefreshPlayer => [Next]_vars
    BY DEF Next
  <2> QED BY <2>1, StepRecordsSeenStart
<1>2. StoreSpec => [][mpd.song \in unheard /\ mpd.song # seen
                        /\ attached' /\ mpd' = mpd /\ RefreshPlayer
                      => mpd.song \in recorded']_vars
  BY <1>1, RecorderGoesOnAlways, PTL DEF StoreSpec
<1> QED BY <1>2 DEF StartIsRecorded

-----------------------------------------------------------------------------
(* The store implements HistoryPromise.                                    *)

\* Its records have identities of their own.
LEMMA IdsAreUnique ==
  ASSUME NEW list \in Seq(Entry), Numbered(list)
  PROVE  \A i, j \in DOMAIN list : list[i].id = list[j].id => i = j
<1> TAKE i, j \in DOMAIN list
<1>1. i \in Nat /\ j \in Nat /\ list[i] \in Entry /\ list[j] \in Entry
  OBVIOUS
<1>2. list[i].id \in Nat /\ list[j].id \in Nat
  BY <1>1 DEF Entry
<1>3. (i < j => list[i].id < list[j].id) /\ (j < i => list[j].id < list[i].id)
  BY DEF Numbered
<1> QED BY <1>1, <1>2, <1>3

\* What a load finds is what the promise says.
LEMMA LoadKeepsPromise ==
  ASSUME StoreInv, NEW n \in Nat \ {0}, NEW on \in BOOLEAN, NEW use,
         "read" \in use <=> on /\ "read" \in disk,
         NEW s, s = LoadHistory(file, n, on /\ "read" \in disk)
  PROVE  Promise!Loaded(s.entries, n, use)
<1> DEFINE reads == on /\ "read" \in disk
           l == Newest(file, n)
<1>1. file \in Seq(Entry) /\ (Unnumbered(file) \/ Numbered(file)) /\ reads \in BOOLEAN
  BY DEF StoreInv, StoreTypeOK
<1>2. reads <=> "read" \in use
  OBVIOUS
<1>3. s = LoadHistory(file, n, reads)
  OBVIOUS
<1> HIDE DEF reads
<1>4. /\ s.entries \in Seq(Entry) /\ Numbered(s.entries)
      /\ IF reads
         THEN /\ DOMAIN s.entries = DOMAIN l
              /\ \A i \in DOMAIN s.entries : /\ s.entries[i].song = l[i].song
                                             /\ l[i].id > 0 => s.entries[i] = l[i]
         ELSE s.entries = <<>>
  BY <1>1, <1>3, LoadInv
<1>5. \A i, j \in DOMAIN s.entries : s.entries[i].id = s.entries[j].id => i = j
  BY <1>4, IdsAreUnique
<1>6. Promise!LastOf(file, n) = l
  BY DEF Promise!LastOf, Newest
<1> HIDE DEF l
<1> QED BY <1>2, <1>4, <1>5, <1>6, Zenon DEF Promise!Loaded, Promise!Restores

LEMMA PromiseStarts == FilesAreWritten /\ StoreInit => Promise!PromiseInit
<1> SUFFICES ASSUME FilesAreWritten, StoreInit PROVE Promise!PromiseInit
  OBVIOUS
<1> DEFINE use == IF enabled THEN disk ELSE {}
<1>1. StoreInv
  BY StoreStart
<1>2. /\ file \in Files /\ cap \in Caps /\ cap \in Nat \ {0} /\ enabled \in BOOLEAN
      /\ disk \in SUBSET {"read", "write"} /\ view = <<>>
      /\ entries = LoadHistory(file, cap, enabled /\ "read" \in disk).entries
  BY StoreAssumption DEF StoreInit
<1>3. use \in SUBSET {"read", "write"} /\ ("read" \in use <=> enabled /\ "read" \in disk)
  BY <1>2
<1> HIDE DEF use
<1>4. Promise!Loaded(entries, cap, use)
  BY <1>1, <1>2, <1>3, LoadKeepsPromise
<1> QED BY <1>2, <1>3, <1>4 DEF Promise!PromiseInit, Promise!Uses, use

LEMMA PromiseRecords ==
  ASSUME StoreInv, enabled, enabled', NEW song \in Song, Record(song), TypeOK'
  PROVE  Promise!PromiseRecord
<1> DEFINE e == [id |-> next_id, song |-> song]
<1>1. PICK d \in Nat, m \in Nat \ {0} :
        /\ entries' \in Seq(Entry) /\ Len(entries') = m /\ d + m = Len(entries) + 1
        /\ entries'[m] = e
        /\ \A i \in 1 .. m - 1 : d + i \in 1..Len(entries) /\ entries'[i] = entries[d + i]
  BY RecordInv
<1>2. /\ entries \in Seq(Entry) /\ view \in Seq(Entry) /\ next_id \in Nat \ {0}
      /\ \A i \in DOMAIN entries : entries[i].id \in 1 .. next_id - 1
      /\ \A i \in DOMAIN view : view[i].id \in 1 .. next_id - 1
  BY DEF StoreInv, StoreTypeOK, IdsIncrease, ViewOk
<1>3. e.id = next_id
  OBVIOUS
<1>4. entries' = Newest(Append(entries, e), cap)
  BY DEF Record
<1> HIDE DEF e
<1>5. Promise!Last(entries') = e
  BY <1>1 DEF Promise!Last
<1>6. e.id \notin Promise!RecordIds(entries) \cup Promise!RecordIds(view)
  <2>1. \A i \in DOMAIN entries : entries[i].id # next_id
    BY <1>2
  <2>2. \A i \in DOMAIN view : view[i].id # next_id
    BY <1>2
  <2> QED BY <1>3, <2>1, <2>2 DEF Promise!RecordIds, Promise!ToSet
<1>7. entries' # <<>>
  BY <1>1
<1>8. entries' = Promise!LastOf(Append(entries, e), cap)
  BY <1>4 DEF Promise!LastOf, Newest
<1>9. /\ Promise!Saved /\ UNCHANGED <<view, cap>>
      /\ (IF enabled THEN disk ELSE {})' = (IF enabled THEN disk ELSE {})
  BY DEF Record, Save, Promise!Saved
<1> QED BY <1>5, <1>6, <1>7, <1>8, <1>9 DEF Promise!PromiseRecord

LEMMA PromiseDeletes ==
  ASSUME StoreInv, enabled, enabled', TypeOK',
         NEW lo \in DOMAIN view, NEW hi \in DOMAIN view, DeleteRows(lo, hi)
  PROVE  Promise!PromiseDelete
<1> DEFINE named == {view[i].id : i \in lo..hi}
<1>1. PICK f \in [DOMAIN entries' -> DOMAIN entries] :
        /\ \A k \in DOMAIN entries' : entries'[k] = entries[f[k]]
        /\ \A k, l \in DOMAIN entries' : k < l => f[k] < f[l]
  BY DeleteInv
<1>2. ToSet(entries') = ToSet(entries) \ {view[i] : i \in lo..hi}
  BY DeleteInv
<1>3. lo..hi \subseteq DOMAIN view
  BY DoomedIs
<1>4. \A r \in ToSet(entries) : r \in {view[i] : i \in lo..hi} <=> r.id \in named
  <2> SUFFICES ASSUME NEW j \in DOMAIN entries
               PROVE  (\E i \in lo..hi : entries[j] = view[i])
                        <=> \E i \in lo..hi : entries[j].id = view[i].id
    BY DEF ToSet
  <2>1. \A i \in lo..hi : entries[j].id = view[i].id => entries[j] = view[i]
    BY <1>3 DEF StoreInv, ViewOk
  <2> QED BY <2>1
<1>5. Promise!ToSet(entries') = {r \in Promise!ToSet(entries) : r.id \notin named}
  <2>1. ToSet(entries') = {r \in ToSet(entries) : r.id \notin named}
    <3> HIDE DEF named
    <3> QED BY <1>2, <1>4
  <2> HIDE DEF named
  <2> QED BY <2>1 DEF ToSet, Promise!ToSet
<1>6. Promise!Follows(entries', entries)
  BY <1>1 DEF Promise!Follows
<1>7. IF Promise!ToSet(entries') = Promise!ToSet(entries) THEN UNCHANGED file ELSE Promise!Saved
  <2>1. ToSet(entries') = ToSet(entries) <=> Doomed(lo, hi) = {}
    <3>1. Doomed(lo, hi) = {i \in DOMAIN entries : \E k \in lo..hi : entries[i] = view[k]}
      BY DoomedIs
    <3>2. Doomed(lo, hi) = {} <=> ToSet(entries) \cap {view[i] : i \in lo..hi} = {}
      BY <3>1 DEF ToSet
    <3> QED BY <1>2, <3>2
  <2>2. Doomed(lo, hi) = {} => UNCHANGED file
    BY DEF DeleteRows
  <2>3. Doomed(lo, hi) # {} => Promise!Saved
    BY Zenon DEF DeleteRows, Save, Promise!Saved
  <2>4. Promise!ToSet(entries') = ToSet(entries') /\ Promise!ToSet(entries) = ToSet(entries)
    BY DEF ToSet, Promise!ToSet
  <2> QED BY <2>1, <2>2, <2>3, <2>4
<1>8. /\ view' = Promise!Reverse(entries') /\ UNCHANGED cap
      /\ (IF enabled THEN disk ELSE {})' = (IF enabled THEN disk ELSE {})
  BY DEF DeleteRows, Reverse, Promise!Reverse
<1>9. \E l \in DOMAIN view : \E h \in DOMAIN view :
        Promise!ToSet(entries') =
          {r \in Promise!ToSet(entries) : r.id \notin {view[i].id : i \in l..h}}
  BY <1>5
<1> QED BY <1>6, <1>7, <1>8, <1>9, Zenon DEF Promise!PromiseDelete

LEMMA PromiseStartsAgain ==
  ASSUME StoreInv, StartAgain, TypeOK', enabled'
  PROVE  Promise!PromiseRestart
<1>0. PICK n \in Caps, on \in Switches :
        LET load == LoadHistory(file, n, on /\ "read" \in disk)
        IN  cap' = n /\ enabled' = on /\ entries' = load.entries /\ next_id' = load.next
  BY Zenon DEF StartAgain
<1> DEFINE s == LoadHistory(file, n, on /\ "read" \in disk)
<1>1. cap' = n /\ entries' = s.entries /\ enabled' = on
  BY <1>0
<1>2. /\ file' = file /\ view' = <<>> /\ n \in Nat \ {0} /\ disk' = disk /\ on \in BOOLEAN
      /\ disk \in SUBSET {"read", "write"}
  BY StoreAssumption DEF StartAgain, StoreInv, StoreTypeOK
<1> DEFINE use == (IF enabled THEN disk ELSE {})'
<1>3. use \in SUBSET {"read", "write"} /\ ("read" \in use <=> on /\ "read" \in disk)
  BY <1>1, <1>2
<1> HIDE DEF use
<1>4. Promise!Loaded(s.entries, n, use)
  BY <1>2, <1>3, LoadKeepsPromise
<1> HIDE DEF s
<1>5. Promise!Loaded(entries', cap', use) /\ cap' \in Caps
  BY <1>1, <1>4
<1> QED BY <1>2, <1>3, <1>5 DEF Promise!PromiseRestart, Promise!Uses, use

\* StoreKeepsPromise: with history switched on, store, view and file implement
\* HistoryPromise, for every cap, every file that was written and every order of
\* samples, deletions, refused reads and writes, and restarts.
THEOREM StoreKeepsPromise == FilesAreWritten /\ StoreSpec /\ []enabled => KeepsPromise
<1> DEFINE pvars == <<entries, file, view, cap, IF enabled THEN disk ELSE {}>>
<1>1. StoreInv /\ enabled /\ (StoreInv /\ RecorderInv)' /\ enabled' /\ [StoreNext]_history_vars
        => [Promise!PromiseNext]_pvars
  <2> SUFFICES ASSUME StoreInv, RecorderInv', [StoreNext]_history_vars, enabled, enabled'
               PROVE  Promise!PromiseNext \/ UNCHANGED pvars
    OBVIOUS
  <2>1. TypeOK'
    BY DEF RecorderInv
  <2>2. CASE UNCHANGED store_vars
    BY <2>2 DEF store_vars
  <2>3. CASE \E song \in recorded' : Record(song)
    <3>1. PICK song \in recorded' : Record(song)
      BY <2>3
    <3>2. song \in Song
      BY <2>1 DEF TypeOK
    <3> QED BY <2>1, <3>1, <3>2, PromiseRecords DEF Promise!PromiseNext
  <2>4. CASE \E lo, hi \in DOMAIN view : lo <= hi /\ DeleteRows(lo, hi) /\ NothingPlayed
    <3>1. PICK lo \in DOMAIN view, hi \in DOMAIN view : DeleteRows(lo, hi)
      BY <2>4
    <3> QED BY <2>1, <3>1, PromiseDeletes DEF Promise!PromiseNext
  <2>5. CASE RefreshHistoryView
    <3>1. /\ view' = Promise!Reverse(entries) /\ UNCHANGED <<entries, file, cap>>
          /\ (IF enabled THEN disk ELSE {})' = (IF enabled THEN disk ELSE {})
      BY <2>5 DEF RefreshHistoryView, Reverse, Promise!Reverse
    <3> QED BY <3>1 DEF Promise!PromiseNext, Promise!PromiseRefresh
  <2>6. CASE StartAgain
    BY <2>1, <2>6, PromiseStartsAgain DEF Promise!PromiseNext
  <2>7. CASE DiskChanges
    <3>1. /\ UNCHANGED <<entries, file, view, cap>>
          /\ (IF enabled THEN disk ELSE {})' \in SUBSET {"read", "write"}
      BY <2>7, StoreAssumption DEF DiskChanges
    <3> QED BY <3>1 DEF Promise!PromiseNext, Promise!PromiseDisk, Promise!Uses
  <2>8. CASE UNCHANGED history_vars
    BY <2>2, <2>8 DEF history_vars
  <2> QED BY <2>2, <2>3, <2>4, <2>5, <2>6, <2>7, <2>8, Zenon DEF StoreNext, Samples, Elsewhere
<1> HIDE DEF pvars
<1>2. FilesAreWritten /\ StoreSpec /\ []enabled
        => Promise!PromiseInit /\ [][Promise!PromiseNext]_pvars
  BY <1>1, PromiseStarts, StoreInvariant, PTL DEF StoreSpec
<1> QED BY <1>2 DEF KeepsPromise, Promise!PromiseSpec, Promise!promise_vars, pvars
=============================================================================
