--------------------------- MODULE Workspace_proofs ---------------------------
(***************************************************************************)
(* Machine-checked proofs about Workspace, for every set of songs, every   *)
(* list of names and every stored playlist: what the tree highlights is    *)
(* what is open, what MPD has is listed, the songs on screen are those an  *)
(* edit goes to, and no playlist disappears but the one highlighted.       *)
(*                                                                         *)
(* The inductive invariant is WorkspaceInv.                                *)
(***************************************************************************)
EXTENDS Workspace, Lists_proofs

-----------------------------------------------------------------------------
(* Lists.                                                                  *)

\* A list without one of its places.
LEMMA WithoutIs ==
  ASSUME NEW S, NEW list \in Seq(S), NEW i \in Nat
  PROVE  /\ Without(list, i) \in Seq(S)
         /\ i \in 1 .. Len(list) =>
              /\ Len(Without(list, i)) = Len(list) - 1
              /\ \A k \in 1 .. Len(list) - 1 :
                   Without(list, i)[k] = IF k < i THEN list[k] ELSE list[k + 1]
<1>1. CASE i \in 1 .. Len(list)
  <2> DEFINE A == SubSeq(list, 1, i - 1)
             B == SubSeq(list, i + 1, Len(list))
  <2>0. i \in DOMAIN list
    BY <1>1
  <2>1. Without(list, i) = A \o B
    <3>1. Without(list, i) = RemoveAt(list, i)
      BY <2>0 DEF Without
    <3> HIDE DEF A, B
    <3>2. RemoveAt(list, i) = A \o B
      BY DEF RemoveAt, A, B
    <3> QED BY <3>1, <3>2
  <2>2. A \in Seq(S) /\ Len(A) = i - 1 /\ \A k \in 1 .. i - 1 : A[k] = list[k]
    BY <1>1
  <2>3. /\ B \in Seq(S) /\ Len(B) = Len(list) - i
        /\ \A k \in 1 .. Len(list) - i : B[k] = list[i + k]
    BY <1>1
  <2> HIDE DEF A, B
  <2>4. /\ A \o B \in Seq(S) /\ Len(A \o B) = Len(A) + Len(B)
        /\ \A k \in 1 .. Len(A) + Len(B) :
             (A \o B)[k] = IF k <= Len(A) THEN A[k] ELSE B[k - Len(A)]
    BY <2>2, <2>3, ConcatProperties
  <2>5. ASSUME NEW k \in 1 .. Len(list) - 1
        PROVE  (A \o B)[k] = IF k < i THEN list[k] ELSE list[k + 1]
    <3>1. CASE k < i
      BY <1>1, <2>2, <2>3, <2>4, <3>1
    <3>2. CASE ~(k < i)
      <4>1. k - Len(A) \in 1 .. Len(list) - i /\ i + (k - Len(A)) = k + 1
        BY <1>1, <2>2, <3>2
      <4>2. (A \o B)[k] = B[k - Len(A)]
        BY <1>1, <2>2, <2>3, <2>4, <3>2
      <4>3. B[k - Len(A)] = list[i + (k - Len(A))]
        BY <2>3, <4>1
      <4> QED BY <3>2, <4>1, <4>2, <4>3
    <3> QED BY <3>1, <3>2
  <2> QED BY <1>1, <2>1, <2>2, <2>3, <2>4, <2>5
<1>2. CASE i \notin 1 .. Len(list)
  BY <1>2 DEF Without
<1> QED BY <1>1, <1>2

\* The recursive function of Removed, for the last k of the positions.
Takes(f, list, hi, k) ==
  f = [i \in hi + 1 - k .. hi + 1 |->
         IF i > hi THEN list ELSE Without(f[i + 1], i)]

LEMMA TakesExist ==
  ASSUME NEW list, NEW hi \in Nat, NEW n \in 0 .. hi
  PROVE  \E f : Takes(f, list, hi, n)
<1> DEFINE T == {k \in 0 .. n : \E f : Takes(f, list, hi, k)}
<1>1. 0 \in T
  <2>1. Takes([i \in hi + 1 - 0 .. hi + 1 |-> list], list, hi, 0)
    BY DEF Takes
  <2> QED BY <2>1
<1>2. ASSUME NEW k \in 1 .. n, k - 1 \in T PROVE k \in T
  <2>1. PICK f : Takes(f, list, hi, k - 1)
    BY <1>2
  <2> DEFINE low == hi + 1 - k
             g == [i \in low .. hi + 1 |-> IF i > low THEN f[i] ELSE Without(f[low + 1], low)]
  <2>2. \A i \in low + 1 .. hi + 1 : f[i] = IF i > hi THEN list ELSE Without(f[i + 1], i)
    BY <2>1 DEF Takes
  <2>3. \A i \in low .. hi + 1 : g[i] = IF i > hi THEN list ELSE Without(g[i + 1], i)
    BY <2>2
  <2>4. Takes(g, list, hi, k)
    BY <2>3 DEF Takes
  <2> QED BY <2>4
<1> HIDE DEF T
<1>3. 0 .. n \subseteq T
  BY <1>1, <1>2, UpToInduction
<1> QED BY <1>3 DEF T

\* Sending the positions highest first removes these places and no other.
LEMMA RemovedIs ==
  ASSUME NEW S, NEW list \in Seq(S), NEW lo \in Nat \ {0}, NEW hi \in Nat, lo <= hi
  PROVE  /\ Removed(list, lo, hi) \in Seq(S)
         /\ hi <= Len(list) =>
              Removed(list, lo, hi) =
                SubSeq(list, 1, lo - 1) \o SubSeq(list, hi + 1, Len(list))
<1> DEFINE n == hi + 1 - lo
           f == CHOOSE g : Takes(g, list, hi, n)
<1>0. n \in 0 .. hi /\ n \in Nat /\ hi + 1 - n = lo /\ Len(list) \in Nat
  OBVIOUS
<1>1. Removed(list, lo, hi) = f[lo]
  BY <1>0 DEF Removed, Takes
<1>2. Takes(f, list, hi, n)
  BY <1>0, TakesExist
<1> HIDE DEF f
<1>3. /\ f[hi + 1] = list
      /\ \A i \in lo .. hi : f[i] = Without(f[i + 1], i)
  BY <1>0, <1>2 DEF Takes
<1> DEFINE Good(k) ==
             LET s == f[hi + 1 - k]
             IN /\ s \in Seq(S)
                /\ hi <= Len(list) =>
                     /\ Len(s) = Len(list) - k
                     /\ \A j \in 1 .. Len(list) - k :
                          s[j] = IF j < hi + 1 - k THEN list[j] ELSE list[j + k]
           T == {k \in 0 .. n : Good(k)}
<1>4. 0 \in T
  <2>1. Good(0)
    BY <1>0, <1>3
  <2> HIDE DEF Good
  <2> QED BY <1>0, <2>1
<1>5. ASSUME NEW k \in 1 .. n, k - 1 \in T PROVE k \in T
  <2> DEFINE i == hi + 1 - k
             t == f[i + 1]
             s == f[i]
  <2>1. i \in lo .. hi /\ i \in Nat /\ i + 1 = hi + 1 - (k - 1)
    BY <1>0
  <2>2. /\ t \in Seq(S)
        /\ hi <= Len(list) =>
             /\ Len(t) = Len(list) - (k - 1)
             /\ \A j \in 1 .. Len(list) - (k - 1) :
                  t[j] = IF j < i + 1 THEN list[j] ELSE list[j + (k - 1)]
    BY <1>5, <2>1
  <2>3. s = Without(t, i)
    BY <1>3, <2>1
  <2> HIDE DEF i, t, s
  <2>4. s \in Seq(S)
    BY <2>1, <2>2, <2>3, WithoutIs
  <2>5. ASSUME hi <= Len(list)
        PROVE  /\ Len(s) = Len(list) - k
               /\ \A j \in 1 .. Len(list) - k :
                    s[j] = IF j < i THEN list[j] ELSE list[j + k]
    <3>1. i \in 1 .. Len(t) /\ Len(t) = Len(list) - k + 1
      BY <1>0, <2>1, <2>2, <2>5
    <3>2. /\ Len(s) = Len(t) - 1
          /\ \A j \in 1 .. Len(t) - 1 : s[j] = IF j < i THEN t[j] ELSE t[j + 1]
      BY <2>1, <2>2, <2>3, <3>1, WithoutIs
    <3>3. ASSUME NEW j \in 1 .. Len(list) - k
          PROVE  s[j] = IF j < i THEN list[j] ELSE list[j + k]
      <4>1. j \in 1 .. Len(t) - 1 /\ j \in 1 .. Len(list) - (k - 1)
            /\ j + 1 \in 1 .. Len(list) - (k - 1) /\ (j + 1) + (k - 1) = j + k
        BY <1>0, <3>1
      <4>2. CASE j < i
        BY <2>1, <2>2, <2>5, <3>2, <4>1, <4>2
      <4>3. CASE ~(j < i)
        BY <2>1, <2>2, <2>5, <3>2, <4>1, <4>3
      <4> QED BY <4>2, <4>3
    <3> QED BY <1>0, <3>1, <3>2, <3>3
  <2>6. Good(k)
    BY <2>4, <2>5 DEF i, s
  <2> HIDE DEF Good
  <2> QED BY <1>0, <2>6
<1>6. n \in T
  <2> HIDE DEF T
  <2> QED BY <1>0, <1>4, <1>5, UpToInduction
<1>7. Good(n)
  <2> HIDE DEF Good
  <2> QED BY <1>6
<1> DEFINE s == f[lo]
<1>8. /\ s \in Seq(S)
      /\ hi <= Len(list) =>
           /\ Len(s) = Len(list) - n
           /\ \A j \in 1 .. Len(list) - n :
                s[j] = IF j < lo THEN list[j] ELSE list[j + n]
  BY <1>0, <1>7
<1> HIDE DEF Good, T, s
<1>9. ASSUME hi <= Len(list)
      PROVE  s = SubSeq(list, 1, lo - 1) \o SubSeq(list, hi + 1, Len(list))
  <2> DEFINE A == SubSeq(list, 1, lo - 1)
             B == SubSeq(list, hi + 1, Len(list))
  <2>1. A \in Seq(S) /\ Len(A) = lo - 1 /\ \A k \in 1 .. lo - 1 : A[k] = list[k]
    BY <1>9
  <2>2. /\ B \in Seq(S) /\ Len(B) = Len(list) - hi
        /\ \A k \in 1 .. Len(list) - hi : B[k] = list[hi + k]
    BY <1>9
  <2> HIDE DEF A, B
  <2>3. /\ A \o B \in Seq(S) /\ Len(A \o B) = Len(A) + Len(B)
        /\ \A k \in 1 .. Len(A) + Len(B) :
             (A \o B)[k] = IF k <= Len(A) THEN A[k] ELSE B[k - Len(A)]
    BY <2>1, <2>2, ConcatProperties
  <2>4. Len(A \o B) = Len(s) /\ Len(s) = Len(list) - n
    BY <1>8, <1>9, <2>1, <2>2, <2>3
  <2>5. ASSUME NEW j \in 1 .. Len(list) - n PROVE (A \o B)[j] = s[j]
    <3>1. CASE j < lo
      BY <1>8, <1>9, <2>1, <2>2, <2>3, <3>1
    <3>2. CASE ~(j < lo)
      <4>1. j - Len(A) \in 1 .. Len(list) - hi /\ hi + (j - Len(A)) = j + n
        BY <1>9, <2>1, <3>2
      <4>2. (A \o B)[j] = B[j - Len(A)]
        <5>1. j \in 1 .. Len(A) + Len(B) /\ ~(j <= Len(A))
          BY <1>0, <1>9, <2>1, <2>2, <3>2
        <5> QED BY <2>3, <5>1
      <4>3. B[j - Len(A)] = list[hi + (j - Len(A))]
        BY <2>2, <4>1
      <4>4. s[j] = list[j + n]
        BY <1>8, <1>9, <3>2
      <4> QED BY <4>1, <4>2, <4>3, <4>4
    <3> QED BY <3>1, <3>2
  <2>6. s = A \o B
    BY <1>8, <2>3, <2>4, <2>5, SeqEqual
  <2> QED BY <2>6 DEF A, B
<1> QED BY <1>1, <1>8, <1>9 DEF s

\* Moving an item of a list keeps its type.
LEMMA MovedType ==
  ASSUME NEW S, NEW list \in Seq(S), NEW from \in DOMAIN list, NEW to \in DOMAIN list
  PROVE  Moved(list, from, to) \in Seq(S)
<1>1. list[from] \in S /\ from \in 1 .. Len(list) /\ to \in 1 .. Len(list) /\ from \in Nat
  OBVIOUS
<1> DEFINE s == RemoveAt(list, from)
<1>2. s = Without(list, from)
  BY DEF Without
<1>3. s \in Seq(S) /\ Len(s) = Len(list) - 1
  BY <1>1, <1>2, WithoutIs
<1> HIDE DEF s
<1>4. InsertAt(s, to, list[from]) \in Seq(S)
  BY <1>1, <1>3 DEF InsertAt
<1> QED BY <1>4 DEF Moved, s

-----------------------------------------------------------------------------
(* The list of playlists, and the refreshes.                               *)

StoredOk(s) == DOMAIN s \subseteq Name /\ \A n \in DOMAIN s : s[n] \in Seq(Track)

\* A list of playlists: the virtual Default first, every name once.
ListOk(list) ==
  /\ list \in Seq(Name \cup {Default})
  /\ list # <<>> /\ list[1] = Default
  /\ IsInjective(list)

LibraryOk(lib) ==
  /\ lib \in [playlists : Seq(Name \cup {Default}), current : Nat,
              database_view : BOOLEAN, songs : Seq(Track)]
  /\ ListOk(lib.playlists)
  /\ lib.current < Len(lib.playlists)
  /\ lib.database_view => lib.current = 0

LEMMA LibraryIsOk ==
  ASSUME TypeOK, PlaylistsSound
  PROVE  LibraryOk(library) /\ StoredOk(stored)
BY DEF TypeOK, PlaylistsSound, LibraryOk, ListOk, StoredOk

LEMMA OrderOk == Order \in Seq(Name) /\ IsInjective(Order) /\ Range(Order) = Name
BY WorkspaceAssumption DEF Name

LEMMA WithDefaultOk ==
  ASSUME NEW list \in Seq(Name), IsInjective(list)
  PROVE  /\ ListOk(PlaylistsWithDefault(list))
         /\ Range(PlaylistsWithDefault(list)) = Range(list) \cup {Default}
<1> DEFINE rest == Selected(list, Name \ {Default})
           all == PlaylistsWithDefault(list)
<1>1. /\ rest \in Seq(Name) /\ Range(rest) = Range(list) \cap (Name \ {Default})
      /\ IsInjective(rest)
  BY SelectedOf
<1>2. all = <<Default>> \o rest
  BY DEF PlaylistsWithDefault
<1>3. Range(list) \subseteq Name
  BY DEF Range
<1> HIDE DEF rest, all
<1>4. /\ all \in Seq(Name \cup {Default}) /\ Len(all) = Len(rest) + 1 /\ all[1] = Default
      /\ \A i \in 1 .. Len(rest) : all[i + 1] = rest[i]
  BY <1>1, <1>2
<1>5. \A i \in 1 .. Len(rest) : rest[i] \in Range(rest)
  BY <1>1 DEF Range
<1>6. ASSUME NEW i \in 2 .. Len(all)
      PROVE  i - 1 \in 1 .. Len(rest) /\ all[i] = rest[i - 1] /\ all[i] # Default
  <2>1. i - 1 \in 1 .. Len(rest) /\ (i - 1) + 1 = i
    BY <1>1, <1>4
  <2> QED BY <1>1, <1>4, <1>5, <2>1
<1>7. IsInjective(all)
  <2> SUFFICES ASSUME NEW i \in 1 .. Len(all), NEW j \in 1 .. Len(all), all[i] = all[j]
               PROVE  i = j
    BY <1>4 DEF IsInjective
  <2>1. CASE i = 1 \/ j = 1
    BY <1>4, <1>6, <2>1
  <2>2. CASE i # 1 /\ j # 1
    <3>1. i - 1 \in DOMAIN rest /\ j - 1 \in DOMAIN rest /\ rest[i - 1] = rest[j - 1]
      BY <1>1, <1>6, <2>2
    <3> QED BY <1>1, <3>1 DEF IsInjective
  <2> QED BY <2>1, <2>2
<1>8. Range(all) = Range(rest) \cup {Default}
  <2>1. ASSUME NEW x \in Range(all) PROVE x \in Range(rest) \cup {Default}
    <3>1. PICK i \in 1 .. Len(all) : all[i] = x
      BY <1>4 DEF Range
    <3> QED BY <1>4, <1>5, <1>6, <3>1
  <2>2. ASSUME NEW x \in Range(rest) PROVE x \in Range(all)
    <3>1. PICK i \in 1 .. Len(rest) : rest[i] = x
      BY <1>1 DEF Range
    <3>2. i + 1 \in DOMAIN all /\ all[i + 1] = x
      BY <1>1, <1>4, <3>1
    <3> QED BY <3>2 DEF Range
  <2>3. 1 \in DOMAIN all
    BY <1>1, <1>4
  <2>4. Default \in Range(all)
    BY <1>4, <2>3 DEF Range
  <2> QED BY <2>1, <2>2, <2>4
<1> QED BY <1>1, <1>3, <1>4, <1>7, <1>8 DEF ListOk, all

\* The list of playlists that MPD answers.
LEMMA ListingOk ==
  ASSUME NEW s, StoredOk(s)
  PROVE  /\ Listing(s) \in Seq(Name) /\ IsInjective(Listing(s))
         /\ Range(Listing(s)) = DOMAIN s
         /\ ListOk(PlaylistsWithDefault(Listing(s)))
         /\ Range(PlaylistsWithDefault(Listing(s))) = DOMAIN s \cup {Default}
<1>1. /\ Listing(s) \in Seq(Name) /\ IsInjective(Listing(s))
      /\ Range(Listing(s)) = Name \cap DOMAIN s
  BY OrderOk, SelectedOf DEF Listing
<1>2. Range(Listing(s)) = DOMAIN s
  BY <1>1 DEF StoredOk
<1> QED BY <1>1, <1>2, WithDefaultOk

\* A broken listing delivers the first of the playlists.
LEMMA CutOk ==
  ASSUME NEW s, StoredOk(s), NEW k \in 0 .. Len(Listing(s))
  PROVE  ListOk(PlaylistsWithDefault(SubSeq(Listing(s), 1, k)))
<1> DEFINE list == Listing(s)
           cut == SubSeq(list, 1, k)
<1>1. list \in Seq(Name) /\ IsInjective(list)
  BY ListingOk
<1> HIDE DEF list
<1>2. cut \in Seq(Name) /\ Len(cut) = k /\ \A i \in 1 .. k : cut[i] = list[i]
  BY <1>1 DEF list
<1>3. IsInjective(cut)
  <2>1. DOMAIN cut = 1 .. k /\ 1 .. k \subseteq DOMAIN list
    BY <1>1, <1>2 DEF list
  <2> QED BY <1>1, <1>2, <2>1 DEF IsInjective
<1> QED BY <1>2, <1>3, WithDefaultOk DEF list

\* Where a name is in a list.
LEMMA IndexOfIs ==
  ASSUME NEW list \in Seq(Name \cup {Default}), NEW n
  PROVE  /\ n \in Range(list) =>
              /\ IndexOf(list, n) \in 0 .. Len(list) - 1
              /\ list[IndexOf(list, n) + 1] = n
         /\ n \notin Range(list) => IndexOf(list, n) = -1
<1>1. CASE n \in Range(list)
  <2> DEFINE i == CHOOSE i \in DOMAIN list : list[i] = n
  <2>1. \E j \in DOMAIN list : list[j] = n
    BY <1>1 DEF Range
  <2>2. i \in DOMAIN list /\ list[i] = n
    BY <2>1
  <2>3. IndexOf(list, n) = i - 1
    BY <1>1 DEF IndexOf
  <2> HIDE DEF i
  <2>4. i \in 1 .. Len(list) /\ (i - 1) + 1 = i
    BY <2>2
  <2> QED BY <1>1, <2>2, <2>3, <2>4
<1>2. CASE n \notin Range(list)
  BY <1>2 DEF IndexOf
<1> QED BY <1>1, <1>2

\* The selected playlist, whichever view is open.
LEMMA ShownIs ==
  ASSUME NEW lib, LibraryOk(lib)
  PROVE  /\ Shown(lib) = lib.playlists[lib.current + 1]
         /\ Shown(lib) \in Range(lib.playlists)
         /\ Shown(lib) \in Name \cup {Default}
         /\ lib.current > 0 => Shown(lib) # Default
<1>1. lib.current + 1 \in 1 .. Len(lib.playlists) /\ lib.playlists \in Seq(Name \cup {Default})
  BY DEF LibraryOk
<1>2. Shown(lib) = lib.playlists[lib.current + 1]
  BY DEF Shown, LibraryOk, ListOk
<1>3. 1 \in DOMAIN lib.playlists /\ lib.current + 1 \in DOMAIN lib.playlists
  BY <1>1
<1>4. lib.current > 0 => Shown(lib) # Default
  BY <1>2, <1>3 DEF LibraryOk, ListOk, IsInjective
<1>5. Shown(lib) \in Range(lib.playlists)
  BY <1>2, <1>3 DEF Range
<1> QED BY <1>1, <1>2, <1>4, <1>5

LEMMA ContentsType ==
  ASSUME NEW s, StoredOk(s), NEW n
  PROVE  Contents(n, s) \in Seq(Track)
<1>1. CASE n = Default
  BY <1>1, WorkspaceAssumption DEF Contents
<1>2. CASE n # Default /\ n \in DOMAIN s
  BY <1>2 DEF Contents, StoredOk
<1>3. CASE n # Default /\ n \notin DOMAIN s
  BY <1>3 DEF Contents
<1> QED BY <1>1, <1>2, <1>3

\* The selection follows its name into the new list, when it is there.
LEMMA WithPlaylistsOk ==
  ASSUME NEW lib, LibraryOk(lib), NEW list, ListOk(list)
  PROVE  LET new == WithPlaylists(lib, list)
         IN /\ LibraryOk(new)
            /\ new.playlists = list /\ new.songs = lib.songs
            /\ new.database_view = lib.database_view
            /\ Shown(lib) \in Range(list) => Shown(new) = Shown(lib)
<1> DEFINE name == lib.playlists[lib.current + 1]
           i == IndexOf(list, name)
           new == WithPlaylists(lib, list)
<1>1. Shown(lib) = name
  BY ShownIs
<1>2. list \in Seq(Name \cup {Default}) /\ list # <<>> /\ list[1] = Default
      /\ IsInjective(list)
  BY DEF ListOk
<1>3. /\ name \in Range(list) => i \in 0 .. Len(list) - 1 /\ list[i + 1] = name
      /\ name \notin Range(list) => i = -1
  BY <1>2, IndexOfIs
<1>4. new = [lib EXCEPT !.playlists = list, !.current = IF i = -1 THEN 0 ELSE i]
  BY DEF WithPlaylists
<1>5. lib \in [playlists : Seq(Name \cup {Default}), current : Nat,
               database_view : BOOLEAN, songs : Seq(Track)]
  BY DEF LibraryOk
<1> HIDE DEF i, new
<1>6. /\ new.playlists = list /\ new.songs = lib.songs
      /\ new.database_view = lib.database_view
      /\ new.current = IF i = -1 THEN 0 ELSE i
  BY <1>4, <1>5
<1>7. Len(list) \in Nat /\ Len(list) > 0
  BY <1>2
<1>8. i = -1 \/ i \in 0 .. Len(list) - 1
  BY <1>3
<1>9. new.current \in Nat /\ new.current < Len(list)
  BY <1>6, <1>7, <1>8
<1>10. lib.database_view => new.current = 0
  <2> SUFFICES ASSUME lib.database_view PROVE new.current = 0
    OBVIOUS
  <2>1. name = Default
    BY DEF LibraryOk, ListOk
  <2>2. CASE i = -1
    BY <1>6, <2>2
  <2>3. CASE i # -1
    <3>1. i \in 0 .. Len(list) - 1 /\ list[i + 1] = Default
      BY <1>3, <2>1, <2>3
    <3>2. i + 1 \in DOMAIN list /\ 1 \in DOMAIN list
      BY <1>2, <1>7, <3>1
    <3>3. i + 1 = 1
      BY <1>2, <3>1, <3>2 DEF IsInjective
    <3> QED BY <1>6, <3>1, <3>3
  <2> QED BY <2>2, <2>3
<1>11. new \in [playlists : Seq(Name \cup {Default}), current : Nat,
                database_view : BOOLEAN, songs : Seq(Track)]
  BY <1>2, <1>4, <1>5, <1>6, <1>9
<1>12. LibraryOk(new)
  BY <1>6, <1>9, <1>10, <1>11 DEF LibraryOk
<1>13. ASSUME Shown(lib) \in Range(list) PROVE Shown(new) = Shown(lib)
  <2>1. i \in 0 .. Len(list) - 1 /\ list[i + 1] = name
    BY <1>1, <1>3, <1>13
  <2>2. new.current = i
    BY <1>6, <1>7, <2>1
  <2>3. Shown(new) = list[i + 1]
    BY <1>6, <1>12, <2>2, ShownIs
  <2> QED BY <1>1, <2>1, <2>3
<1> QED BY <1>6, <1>12, <1>13 DEF new

LEMMA RefreshPlaylistsOk ==
  ASSUME NEW lib, LibraryOk(lib), NEW s, StoredOk(s)
  PROVE  LET new == RefreshPlaylists(lib, s)
         IN /\ LibraryOk(new) /\ new.songs = lib.songs
            /\ new.database_view = lib.database_view
            /\ ~connected => new = lib
            /\ connected =>
                 /\ new.playlists = PlaylistsWithDefault(Listing(s))
                 /\ Shown(lib) \in DOMAIN s \cup {Default} => Shown(new) = Shown(lib)
<1>1. CASE connected
  BY <1>1, ListingOk, WithPlaylistsOk DEF RefreshPlaylists
<1>2. CASE ~connected
  BY <1>2 DEF RefreshPlaylists
<1> QED BY <1>1, <1>2

LEMMA RefreshLibraryOk ==
  ASSUME NEW lib, LibraryOk(lib), NEW s, StoredOk(s)
  PROVE  LET new == RefreshLibrary(lib, s)
         IN /\ LibraryOk(new) /\ Shown(new) = Shown(lib)
            /\ new.playlists = lib.playlists /\ new.current = lib.current
            /\ new.database_view = lib.database_view
            /\ connected => new.songs = Contents(Shown(new), s)
<1> DEFINE new == RefreshLibrary(lib, s)
           songs == Contents(Shown(lib), s)
<1>1. songs \in Seq(Track)
  BY ContentsType
<1>2. CASE connected
  <2>1. new = [lib EXCEPT !.songs = songs]
    BY <1>2 DEF RefreshLibrary
  <2> HIDE DEF new, songs
  <2>2. /\ new.playlists = lib.playlists /\ new.current = lib.current
        /\ new.database_view = lib.database_view /\ new.songs = songs
        /\ new \in [playlists : Seq(Name \cup {Default}), current : Nat,
                    database_view : BOOLEAN, songs : Seq(Track)]
    BY <1>1, <2>1 DEF LibraryOk
  <2>3. LibraryOk(new) /\ Shown(new) = Shown(lib)
    BY <2>2 DEF LibraryOk, Shown
  <2> QED BY <2>2, <2>3 DEF new, songs
<1>3. CASE ~connected
  BY <1>3 DEF RefreshLibrary
<1> QED BY <1>2, <1>3

LEMMA SelectPlaylistOk ==
  ASSUME NEW lib, LibraryOk(lib), NEW s, StoredOk(s), NEW i \in Int
  PROVE  LET new == SelectPlaylist(lib, i, s)
         IN /\ LibraryOk(new)
            /\ new.playlists = lib.playlists /\ ~new.database_view
            /\ connected => new.songs = Contents(Shown(new), s)
            /\ i \in 0 .. Len(lib.playlists) - 1 =>
                 new.current = i /\ Shown(new) = lib.playlists[i + 1]
<1> DEFINE n == Len(lib.playlists)
           c == Clamped(i, 0, n - 1)
           sel == [lib EXCEPT !.current = c, !.database_view = FALSE]
<1>1. n \in Nat /\ n > 0
  BY DEF LibraryOk, ListOk
<1>2. c \in Nat /\ c < n /\ (i \in 0 .. n - 1 => c = i)
  BY <1>1 DEF Clamped
<1> HIDE DEF c
<1>3. /\ sel.playlists = lib.playlists /\ sel.current = c /\ sel.database_view = FALSE
      /\ sel \in [playlists : Seq(Name \cup {Default}), current : Nat,
                  database_view : BOOLEAN, songs : Seq(Track)]
  BY <1>2 DEF LibraryOk
<1>4. SelectPlaylist(lib, i, s) = RefreshLibrary(sel, s)
  BY DEF SelectPlaylist, c
<1> HIDE DEF sel
<1>5. LibraryOk(sel)
  BY <1>2, <1>3 DEF LibraryOk
<1>6. Shown(sel) = lib.playlists[c + 1]
  BY <1>3, <1>5, ShownIs
<1> QED BY <1>2, <1>3, <1>4, <1>5, <1>6, RefreshLibraryOk

LEMMA SelectDatabaseOk ==
  ASSUME NEW lib, LibraryOk(lib), NEW s, StoredOk(s)
  PROVE  LET new == SelectDatabase(lib, s)
         IN /\ LibraryOk(new)
            /\ new.playlists = lib.playlists
            /\ connected => new.songs = Contents(Shown(new), s)
<1> DEFINE sel == [lib EXCEPT !.current = 0, !.database_view = TRUE]
<1>1. /\ sel.playlists = lib.playlists /\ sel.current = 0
      /\ sel \in [playlists : Seq(Name \cup {Default}), current : Nat,
                  database_view : BOOLEAN, songs : Seq(Track)]
  BY DEF LibraryOk
<1>2. SelectDatabase(lib, s) = RefreshLibrary(sel, s)
  BY DEF SelectDatabase
<1> HIDE DEF sel
<1>3. LibraryOk(sel)
  BY <1>1 DEF LibraryOk, ListOk
<1> QED BY <1>1, <1>2, <1>3, RefreshLibraryOk

-----------------------------------------------------------------------------
(* The invariant, and what every step may do to the stored playlists.      *)

\* TypeOK without the stored playlists and the library.
ScreenTyped ==
  /\ connected \in BOOLEAN
  /\ tree \in Seq(Name \cup {Default})
  /\ cursor \in FixedRow \cup Range(tree)
  /\ active \in Collection /\ prompt \in Prompt /\ asked \in Question
  /\ register \in Seq(Track)
  /\ unseen \in BOOLEAN /\ ahead \in BOOLEAN

\* The parts of the invariant.
LEMMA InvParts ==
  ASSUME WorkspaceInv
  PROVE  /\ ScreenTyped /\ LibraryOk(library) /\ StoredOk(stored)
         /\ ListingIsFresh /\ CursorOpens /\ OpenSongsAreFresh /\ PromptIsAboutRow
BY LibraryIsOk DEF WorkspaceInv, ScreenTyped, TypeOK

\* The parts make up the invariant of the next state.
LEMMA InvNext ==
  ASSUME ScreenTyped', LibraryOk(library'), StoredOk(stored'),
         ListingIsFresh', CursorOpens', OpenSongsAreFresh', PromptIsAboutRow'
  PROVE  WorkspaceInv'
BY DEF WorkspaceInv, ScreenTyped, TypeOK, PlaylistsSound, LibraryOk, ListOk, StoredOk

\* A step that takes away only the playlist the open prompt is about, and leaves
\* the hidden playlist alone.
RowLost == \A n \in DOMAIN stored \ DOMAIN stored' : asked.name = n

HiddenKept ==
  /\ Default \in DOMAIN stored <=> Default \in DOMAIN stored'
  /\ Default \in DOMAIN stored => stored[Default] = stored'[Default]

\* A key that is handled before the frame is one that was typed ahead.
TypedAhead == ahead' = (ahead \/ tree # library.playlists)

LEMMA AheadTyped ==
  ASSUME WorkspaceInv, TypedAhead
  PROVE  ahead' \in BOOLEAN
<1>1. ahead \in BOOLEAN
  BY InvParts DEF ScreenTyped
<1> QED BY <1>1 DEF TypedAhead

LEMMA AheadIs ==
  ASSUME WorkspaceInv, TypedAhead
  PROVE  /\ ahead => ahead'
         /\ ~ahead' => ~ahead /\ tree = library.playlists
BY DEF TypedAhead

\* No fixed row is a playlist.
LEMMA RowsDiffer ==
  ASSUME NEW list \in Seq(Name \cup {Default})
  PROVE  Range(list) \subseteq Name \cup {Default} /\ Range(list) \cap FixedRow = {}
<1>1. Range(list) \subseteq Name \cup {Default}
  BY DEF Range
<1>2. Default \notin FixedRow
  BY DEF Default, FixedRow
<1> QED BY <1>1, <1>2, WorkspaceAssumption

\* A step that only opens or closes a prompt, or fills the register.
LEMMA PromptStep ==
  ASSUME WorkspaceInv, TypedAhead, PromptIsAboutRow',
         UNCHANGED <<stored, connected, library, tree, cursor, active, unseen>>,
         prompt' \in Prompt, register' \in Seq(Track), asked' \in Question
  PROVE  WorkspaceInv' /\ RowLost /\ HiddenKept
<1>1. ScreenTyped'
  <2>1. ahead' \in BOOLEAN
    BY AheadTyped
  <2>2. ScreenTyped
    BY InvParts
  <2>3. Range(tree') = Range(tree)
    OBVIOUS
  <2> QED BY <2>1, <2>2, <2>3 DEF ScreenTyped
<1>2. LibraryOk(library') /\ StoredOk(stored')
  BY InvParts
<1>3. ListingIsFresh'
  BY InvParts DEF ListingIsFresh
<1>4. CursorOpens'
  BY InvParts, AheadIs DEF CursorOpens
<1>5. OpenSongsAreFresh'
  BY InvParts, AheadIs DEF OpenSongsAreFresh, Shown, Contents
<1>6. RowLost /\ HiddenKept
  BY DEF RowLost, HiddenKept
<1> QED BY <1>1, <1>2, <1>3, <1>4, <1>5, <1>6, InvNext

\* Where the playlist under the cursor is.
LEMMA TreeIndexIs ==
  ASSUME WorkspaceInv
  PROVE  /\ TreePlaylistIndex \in Int
         /\ TreePlaylistIndex # -1 =>
              /\ cursor \in Range(tree) /\ cursor \in Range(library.playlists)
              /\ cursor \in Name \cup {Default} /\ cursor \notin FixedRow
              /\ TreePlaylistIndex \in 0 .. Len(library.playlists) - 1
              /\ library.playlists[TreePlaylistIndex + 1] = cursor
         /\ TreePlaylistIndex > 0 => cursor \in Name \ {Default}
<1>1. LibraryOk(library) /\ tree \in Seq(Name \cup {Default})
  BY InvParts DEF ScreenTyped
<1>2. library.playlists \in Seq(Name \cup {Default}) /\ IsInjective(library.playlists)
      /\ library.playlists[1] = Default /\ Len(library.playlists) > 0
  BY <1>1 DEF LibraryOk, ListOk
<1>3. CASE OnPlaylist
  <2>1. cursor \in Range(tree) /\ TreePlaylistIndex = IndexOf(library.playlists, cursor)
    BY <1>3 DEF OnPlaylist, TreePlaylistIndex
  <2>2. cursor \in Name \cup {Default} /\ cursor \notin FixedRow
    BY <1>1, <2>1, RowsDiffer
  <2>3. CASE cursor \in Range(library.playlists)
    <3>1. /\ TreePlaylistIndex \in 0 .. Len(library.playlists) - 1
          /\ library.playlists[TreePlaylistIndex + 1] = cursor
      BY <1>2, <2>1, <2>3, IndexOfIs
    <3>2. TreePlaylistIndex > 0 => cursor # Default
      <4>1. TreePlaylistIndex + 1 \in DOMAIN library.playlists /\ 1 \in DOMAIN library.playlists
        BY <1>2, <3>1
      <4> QED BY <1>2, <3>1, <4>1 DEF IsInjective
    <3> QED BY <2>1, <2>2, <2>3, <3>1, <3>2
  <2>4. CASE cursor \notin Range(library.playlists)
    BY <1>2, <2>1, <2>4, IndexOfIs
  <2> QED BY <2>3, <2>4
<1>4. CASE ~OnPlaylist
  BY <1>4 DEF TreePlaylistIndex
<1> QED BY <1>3, <1>4

LEMMA OpenPrompts ==
  ASSUME WorkspaceInv, TypedAhead,
         OpenCreate \/ OpenRename \/ CancelPrompt \/ AskDelete \/ CancelDelete
  PROVE  WorkspaceInv' /\ RowLost /\ HiddenKept
<1>1. prompt \in Prompt /\ register \in Seq(Track)
  BY InvParts DEF ScreenTyped
<1>2. PromptIsAboutRow
  BY InvParts
<1>3. CASE OpenCreate
  <2>1. /\ tree \in Seq(Name \cup {Default})
        /\ cursor \notin FixedRow => OnPlaylist
    BY InvParts DEF ScreenTyped, OnPlaylist
  <2>2. OnPlaylist => cursor \in Name \cup {Default}
    BY <2>1 DEF OnPlaylist, Range
  <2>3. PromptIsAboutRow'
    BY <1>1, <1>2, <1>3, <2>1 DEF OpenCreate, PromptIsAboutRow, Prompt
  <2>4. prompt' \in Prompt /\ asked' \in Question
    BY <1>1, <1>3, <2>2 DEF OpenCreate, Prompt, Question
  <2> QED BY <1>1, <1>3, <2>3, <2>4, PromptStep DEF OpenCreate
<1>4. CASE OpenRename
  <2>1. cursor \in Name \ {Default}
    BY <1>4, TreeIndexIs DEF OpenRename
  <2>2. PromptIsAboutRow'
    BY <1>4, <2>1 DEF OpenRename, PromptIsAboutRow, Prompt
  <2> QED BY <1>1, <1>4, <2>1, <2>2, PromptStep DEF OpenRename, Prompt, Question
<1>5. CASE CancelPrompt
  <2>1. PromptIsAboutRow'
    BY <1>1, <1>2, <1>5 DEF CancelPrompt, PromptIsAboutRow, Prompt
  <2> QED BY <1>1, <1>5, <2>1, PromptStep DEF CancelPrompt, Prompt, Question, NothingAsked
<1>6. CASE AskDelete
  <2>1. cursor \in Name \ {Default}
    BY <1>6, TreeIndexIs DEF AskDelete
  <2>2. PromptIsAboutRow'
    BY <1>1, <1>2, <1>6, <2>1 DEF AskDelete, PromptIsAboutRow, Prompt
  <2> QED BY <1>1, <1>6, <2>1, <2>2, PromptStep DEF AskDelete, Prompt, Question
<1>7. CASE CancelDelete
  <2>1. PromptIsAboutRow'
    BY <1>1, <1>2, <1>7 DEF CancelDelete, PromptIsAboutRow, Prompt
  <2> QED BY <1>1, <1>7, <2>1, PromptStep DEF CancelDelete, Prompt, Question, NothingAsked
<1> QED BY <1>3, <1>4, <1>5, <1>6, <1>7

LEMMA Yanks ==
  ASSUME WorkspaceInv, TypedAhead, NEW lo \in DOMAIN library.songs,
         NEW hi \in DOMAIN library.songs, Yank(lo, hi)
  PROVE  WorkspaceInv' /\ RowLost /\ HiddenKept
<1>1. /\ prompt \in Prompt /\ asked \in Question
      /\ library.songs \in Seq(Track) /\ PromptIsAboutRow
  BY InvParts DEF ScreenTyped, LibraryOk
<1>2. SubSeq(library.songs, lo, hi) \in Seq(Track)
  <2>1. lo \in 1 .. Len(library.songs) /\ hi \in 1 .. Len(library.songs) /\ lo <= hi
    BY <1>1 DEF Yank
  <2> QED BY <1>1, <2>1, SubSeqProperties
<1>3. PromptIsAboutRow'
  BY <1>1 DEF Yank, PromptIsAboutRow
<1> QED BY <1>1, <1>2, <1>3, PromptStep DEF Yank

LEMMA YanksHistory ==
  ASSUME WorkspaceInv, TypedAhead, NEW x \in Track, YankHistory(x)
  PROVE  WorkspaceInv' /\ RowLost /\ HiddenKept
<1>1. prompt \in Prompt /\ asked \in Question /\ PromptIsAboutRow
  BY InvParts DEF ScreenTyped
<1>2. PromptIsAboutRow'
  BY <1>1 DEF YankHistory, PromptIsAboutRow
<1>3. <<x>> \in Seq(Track)
  OBVIOUS
<1> QED BY <1>1, <1>2, <1>3, PromptStep DEF YankHistory

\* A step that leaves the tree, its cursor and the register alone.
LEMMA ScreenStep ==
  ASSUME WorkspaceInv, UNCHANGED <<tree, cursor, register>>,
         connected' \in BOOLEAN, unseen' \in BOOLEAN, ahead' \in BOOLEAN,
         active' \in Collection, prompt' \in Prompt, asked' \in Question
  PROVE  ScreenTyped'
<1>1. ScreenTyped
  BY InvParts
<1>2. Range(tree') = Range(tree)
  OBVIOUS
<1> QED BY <1>1, <1>2 DEF ScreenTyped

\* A step that leaves the row under the cursor and the open collection alone
\* cannot bring them apart, whatever becomes of the list of playlists.
LEMMA CursorKept ==
  ASSUME WorkspaceInv, UNCHANGED <<cursor, active>>, LibraryOk(library'),
         ~ahead' => ~ahead /\ tree = library.playlists
  PROVE  CursorOpens'
<1> SUFFICES ASSUME ~ahead', cursor \in Range(library'.playlists)
             PROVE  active.collection = "Playlist" /\ active.name = cursor
  BY DEF CursorOpens
<1>1. cursor \notin FixedRow
  BY RowsDiffer DEF LibraryOk, ListOk
<1>2. cursor \in FixedRow \cup Range(tree) /\ CursorOpens
  BY InvParts DEF ScreenTyped
<1>3. cursor \in Range(library.playlists)
  BY <1>1, <1>2
<1> QED BY <1>2, <1>3 DEF CursorOpens

-----------------------------------------------------------------------------
(* The prompts, answered.                                                  *)

\* The playlist under the cursor, selected.
LEMMA SelectedRow ==
  ASSUME WorkspaceInv, TreePlaylistIndex # -1
  PROVE  LET new == SelectPlaylist(library, TreePlaylistIndex, stored)
         IN /\ LibraryOk(new)
            /\ new.playlists = library.playlists /\ ~new.database_view
            /\ connected => new.songs = Contents(Shown(new), stored)
            /\ new.current = TreePlaylistIndex /\ Shown(new) = cursor
<1>1. /\ TreePlaylistIndex \in Int
      /\ TreePlaylistIndex \in 0 .. Len(library.playlists) - 1
      /\ library.playlists[TreePlaylistIndex + 1] = cursor
  BY TreeIndexIs
<1>2. LibraryOk(library) /\ StoredOk(stored)
  BY InvParts
<1>3. LET new == SelectPlaylist(library, TreePlaylistIndex, stored)
      IN /\ LibraryOk(new)
         /\ new.playlists = library.playlists /\ ~new.database_view
         /\ connected => new.songs = Contents(Shown(new), stored)
         /\ TreePlaylistIndex \in 0 .. Len(library.playlists) - 1 =>
              /\ new.current = TreePlaylistIndex
              /\ Shown(new) = library.playlists[TreePlaylistIndex + 1]
  BY <1>1, <1>2, SelectPlaylistOk
<1> QED BY <1>1, <1>3

\* Enter on a question selects the playlist under the cursor first.
LEMMA SelectStep ==
  ASSUME WorkspaceInv, TypedAhead, TreePlaylistIndex # -1,
         library' = SelectPlaylist(library, TreePlaylistIndex, stored),
         UNCHANGED <<stored, connected, tree, cursor, active, register, unseen>>,
         prompt' \in Prompt, asked' \in Question, PromptIsAboutRow'
  PROVE  WorkspaceInv' /\ RowLost /\ HiddenKept
<1>1. /\ LibraryOk(library) /\ StoredOk(stored) /\ active \in Collection
      /\ connected \in BOOLEAN /\ unseen \in BOOLEAN /\ ListingIsFresh
  BY InvParts DEF ScreenTyped
<1>2. /\ LibraryOk(library') /\ library'.playlists = library.playlists
      /\ connected => library'.songs = Contents(Shown(library'), stored)
  BY SelectedRow
<1>3. ScreenTyped'
  <2>1. ahead' \in BOOLEAN
    BY AheadTyped
  <2> QED BY <1>1, <2>1, ScreenStep
<1>4. CursorOpens'
  BY <1>2, AheadIs, CursorKept
<1>5. ListingIsFresh'
  BY <1>1, <1>2 DEF ListingIsFresh
<1>6. OpenSongsAreFresh'
  <2> SUFFICES ASSUME connected
               PROVE  library'.songs = Contents(Shown(library'), stored)
    BY DEF OpenSongsAreFresh, Shown, Contents
  <2> QED BY <1>2
<1>7. RowLost /\ HiddenKept
  BY DEF RowLost, HiddenKept
<1> QED BY <1>1, <1>2, <1>3, <1>4, <1>5, <1>6, <1>7, InvNext

LEMMA PromptsClosed == NoPrompt \in Prompt /\ NothingAsked \in Question
BY DEF NoPrompt, NothingAsked, Prompt, Question

LEMMA CommitsRename ==
  ASSUME WorkspaceInv, TypedAhead, NEW new \in Name \cup {Default}, CommitRename(new)
  PROVE  WorkspaceInv' /\ RowLost /\ HiddenKept
<1>1. /\ prompt.open = "text" /\ prompt.rename
      /\ prompt' = NoPrompt /\ asked' = NothingAsked
      /\ UNCHANGED <<connected, tree, cursor, register, unseen>>
  BY DEF CommitRename
<1>2. prompt' \in Prompt /\ asked' \in Question
  BY <1>1, PromptsClosed
<1>3. PromptIsAboutRow'
  BY <1>1 DEF PromptIsAboutRow, NoPrompt
<1>4. /\ LibraryOk(library) /\ StoredOk(stored) /\ active \in Collection
      /\ connected \in BOOLEAN /\ unseen \in BOOLEAN /\ register \in Seq(Track)
      /\ PromptIsAboutRow
  BY InvParts DEF ScreenTyped
<1>5. CASE ~(TreePlaylistIndex > 0 /\ new \notin Reserved)
  <2>1. UNCHANGED <<stored, library, active>>
    BY <1>5 DEF CommitRename
  <2> QED BY <1>1, <1>2, <1>3, <1>4, <2>1, PromptStep
<1>6. CASE TreePlaylistIndex > 0 /\ new \notin Reserved
  <2> DEFINE lib == SelectPlaylist(library, TreePlaylistIndex, stored)
             old == Shown(lib)
  <2>0. RenameTo(new)
    BY <1>6 DEF CommitRename
  <2>1. /\ cursor \in Name \ {Default} /\ cursor \notin FixedRow
        /\ TreePlaylistIndex \in 0 .. Len(library.playlists) - 1
        /\ library.playlists[TreePlaylistIndex + 1] = cursor
    BY <1>6, TreeIndexIs
  <2>2. LibraryOk(lib) /\ ~lib.database_view /\ old = cursor
    <3>1. TreePlaylistIndex # -1
      BY <1>6
    <3> QED BY <3>1, SelectedRow
  <2>3. CASE ~(connected /\ old \in DOMAIN stored /\ Acceptable(new))
    <3>1. library' = lib /\ UNCHANGED <<stored, active>>
      BY <2>0, <2>3 DEF RenameTo
    <3> QED BY <1>1, <1>2, <1>3, <2>1, <3>1, SelectStep
  <2>4. CASE connected /\ old \in DOMAIN stored /\ Acceptable(new)
    <3> DEFINE lib2 == RefreshPlaylists(lib, stored')
               lib3 == Reselected(lib2, new)
    <3>1. /\ stored' = Renamed(old, new)
          /\ library' = RefreshLibrary(lib3, stored')
          /\ active' = IF active.name = prompt.original
                       THEN [active EXCEPT !.name = new] ELSE active
      BY <2>0, <2>4 DEF RenameTo
    <3>2. /\ new \in Name /\ new \notin DOMAIN stored /\ new # Default
          /\ connected /\ cursor \in DOMAIN stored
      BY <2>2, <2>4 DEF Acceptable, Reserved
    <3>3. /\ DOMAIN stored' = (DOMAIN stored \ {cursor}) \cup {new}
          /\ \A n \in DOMAIN stored' : stored'[n] = stored[IF n = new THEN cursor ELSE n]
      BY <2>2, <3>1 DEF Renamed
    <3> HIDE DEF lib
    <3>4. StoredOk(stored')
      BY <1>4, <3>2, <3>3 DEF StoredOk
    <3>5. /\ LibraryOk(lib2) /\ ~lib2.database_view
          /\ lib2.playlists = PlaylistsWithDefault(Listing(stored'))
      BY <2>2, <3>2, <3>4, RefreshPlaylistsOk
    <3>6. Range(lib2.playlists) = DOMAIN stored' \cup {Default}
      BY <3>4, <3>5, ListingOk
    <3> HIDE DEF lib2
    <3>7. IndexOf(lib2.playlists, new) \in 0 .. Len(lib2.playlists) - 1
      BY <3>3, <3>5, <3>6, IndexOfIs DEF LibraryOk, ListOk
    <3>8. lib3 = [lib2 EXCEPT !.current = IndexOf(lib2.playlists, new)]
      BY <3>3, <3>6 DEF Reselected
    <3>9. LibraryOk(lib3) /\ lib3.playlists = lib2.playlists
      <4>1. Len(lib2.playlists) \in Nat
        BY <3>5 DEF LibraryOk
      <4>2. /\ lib3 \in [playlists : Seq(Name \cup {Default}), current : Nat,
                         database_view : BOOLEAN, songs : Seq(Track)]
            /\ lib3.playlists = lib2.playlists /\ ~lib3.database_view
            /\ lib3.current = IndexOf(lib2.playlists, new)
        BY <3>5, <3>7, <3>8, <4>1 DEF LibraryOk
      <4> QED BY <3>5, <3>7, <4>1, <4>2 DEF LibraryOk
    <3> HIDE DEF lib3
    <3>10. /\ LibraryOk(library')
           /\ library'.playlists = PlaylistsWithDefault(Listing(stored'))
           /\ library'.songs = Contents(Shown(library'), stored')
      BY <3>1, <3>2, <3>4, <3>5, <3>9, RefreshLibraryOk
    <3>11. active' \in Collection
      <4>1. prompt.original \in Name \ {Default}
        BY <1>1, <1>4 DEF PromptIsAboutRow
      <4>2. CASE active.name = prompt.original
        <5>1. active.name # "" /\ active' = [active EXCEPT !.name = new]
          BY <3>1, <4>1, <4>2, WorkspaceAssumption
        <5>2. active \in [collection : {"Playlist"}, name : Name \cup {Default}, index : Nat]
          BY <1>4, <5>1 DEF Collection
        <5> QED BY <3>2, <5>1, <5>2 DEF Collection
      <4>3. CASE active.name # prompt.original
        BY <1>4, <3>1, <4>3
      <4> QED BY <4>2, <4>3
    <3>12. ScreenTyped'
      <4>1. ahead' \in BOOLEAN
        BY AheadTyped
      <4> QED BY <1>1, <1>2, <1>4, <3>11, <4>1, ScreenStep
    <3>13. ListingIsFresh'
      BY <3>10 DEF ListingIsFresh, Listing, PlaylistsWithDefault
    <3>14. OpenSongsAreFresh'
      BY <3>10 DEF OpenSongsAreFresh, Shown, Contents
    <3>15. CursorOpens'
      <4>1. cursor \notin Range(library'.playlists)
        BY <2>1, <3>2, <3>3, <3>4, <3>10, ListingOk
      <4> QED BY <1>1, <4>1 DEF CursorOpens
    <3>16. RowLost
      <4> SUFFICES ASSUME NEW n \in DOMAIN stored \ DOMAIN stored'
                   PROVE  asked.name = n
        BY DEF RowLost
      <4>1. n = cursor
        BY <3>3
      <4> QED BY <1>1, <1>4, <2>1, <4>1 DEF PromptIsAboutRow
    <3>17. HiddenKept
      BY <2>1, <3>2, <3>3 DEF HiddenKept
    <3> QED BY <1>3, <3>4, <3>10, <3>12, <3>13, <3>14, <3>15, <3>16, <3>17, InvNext
  <2> QED BY <2>3, <2>4
<1> QED BY <1>5, <1>6

\* The playlists with one more, or with a longer one.
LEMMA WithIs ==
  ASSUME NEW s, StoredOk(s), NEW n \in Name, NEW tracks \in Seq(Track)
  PROVE  /\ StoredOk(With(s, n, tracks))
         /\ DOMAIN With(s, n, tracks) = DOMAIN s \cup {n}
         /\ \A m \in DOMAIN s \ {n} : With(s, n, tracks)[m] = s[m]
<1> DEFINE w == With(s, n, tracks)
<1>1. /\ DOMAIN w = DOMAIN s \cup {n}
      /\ \A m \in DOMAIN w : w[m] = IF m = n THEN tracks ELSE s[m]
  BY DEF With
<1> HIDE DEF w
<1>2. StoredOk(w)
  BY <1>1 DEF StoredOk
<1> QED BY <1>1, <1>2 DEF w

\* Reading the list of playlists again after one was added to or made keeps the
\* selection, and with it the songs that are on screen.
LEMMA AddedKeepsSongs ==
  ASSUME WorkspaceInv, TypedAhead, connected, NEW n \in Name, NEW tracks \in Seq(Track),
         stored' = With(stored, n, tracks), library' = RefreshPlaylists(library, stored'),
         UNCHANGED <<connected, active, unseen>>,
         ~unseen /\ (ahead' => Shown(library) = active.name) => Shown(library) # n
  PROVE  LibraryOk(library') /\ ListingIsFresh' /\ OpenSongsAreFresh'
<1>1. /\ LibraryOk(library) /\ StoredOk(stored) /\ ListingIsFresh /\ OpenSongsAreFresh
  BY InvParts
<1>2. /\ StoredOk(stored') /\ DOMAIN stored' = DOMAIN stored \cup {n}
      /\ \A m \in DOMAIN stored \ {n} : stored'[m] = stored[m]
  BY <1>1, WithIs
<1>3. /\ LibraryOk(library') /\ library'.songs = library.songs
      /\ library'.playlists = PlaylistsWithDefault(Listing(stored'))
      /\ Shown(library) \in DOMAIN stored' \cup {Default} => Shown(library') = Shown(library)
  BY <1>1, <1>2, RefreshPlaylistsOk
<1>4. ListingIsFresh'
  BY <1>3 DEF ListingIsFresh, Listing, PlaylistsWithDefault
<1>5. OpenSongsAreFresh'
  <2> SUFFICES ASSUME ~unseen, ahead' => Shown(library') = active.name
               PROVE  library'.songs = Contents(Shown(library'), stored')
    BY DEF OpenSongsAreFresh, Shown, Contents
  <2>1. library.playlists = PlaylistsWithDefault(Listing(stored))
    BY <1>1 DEF ListingIsFresh
  <2>2. Shown(library) \in DOMAIN stored \cup {Default}
    BY <1>1, <2>1, ShownIs, ListingOk
  <2>3. Shown(library') = Shown(library)
    BY <1>2, <1>3, <2>2
  <2>4. Shown(library) # n
    BY <2>3
  <2>5. library.songs = Contents(Shown(library), stored)
    BY <1>1, <2>3, AheadIs DEF OpenSongsAreFresh
  <2>6. Contents(Shown(library), stored) = Contents(Shown(library), stored')
    BY <1>2, <2>2, <2>4 DEF Contents
  <2> QED BY <1>3, <2>3, <2>5, <2>6
<1> QED BY <1>3, <1>4, <1>5

LEMMA CommitsCreate ==
  ASSUME WorkspaceInv, TypedAhead, NEW n \in Name \cup {Default}, CommitCreate(n)
  PROVE  WorkspaceInv' /\ RowLost /\ HiddenKept
<1>1. /\ prompt' = NoPrompt /\ asked' = NothingAsked
      /\ UNCHANGED <<tree, cursor, active, register, unseen>>
      /\ CreateSucceeds(n) \/ CreateBreaks(n) \/ CreateFails
  BY DEF CommitCreate
<1>2. prompt' \in Prompt /\ asked' \in Question
  BY <1>1, PromptsClosed
<1>3. PromptIsAboutRow'
  BY <1>1 DEF PromptIsAboutRow, NoPrompt
<1>4. /\ LibraryOk(library) /\ StoredOk(stored) /\ active \in Collection
      /\ connected \in BOOLEAN /\ unseen \in BOOLEAN /\ register \in Seq(Track)
  BY InvParts DEF ScreenTyped
<1>5. ASSUME connected' \in BOOLEAN PROVE ScreenTyped'
  <2>1. ahead' \in BOOLEAN
    BY AheadTyped
  <2>2. unseen' \in BOOLEAN /\ active' \in Collection
    BY <1>1, <1>4
  <2> QED BY <1>1, <1>2, <1>5, <2>1, <2>2, ScreenStep
<1>6. CASE CreateFails
  <2>1. UNCHANGED <<stored, connected, library>>
    BY <1>6 DEF CreateFails
  <2> QED BY <1>1, <1>2, <1>3, <1>4, <2>1, PromptStep
<1>7. CASE CreateSucceeds(n)
  <2>1. /\ connected /\ UNCHANGED connected /\ n \in Name
        /\ n \notin DOMAIN stored /\ n # Default
        /\ stored' = With(stored, n, register)
        /\ library' = RefreshPlaylists(library, stored')
    BY <1>7 DEF CreateSucceeds, Acceptable, Reserved
  <2>2. /\ StoredOk(stored') /\ DOMAIN stored' = DOMAIN stored \cup {n}
        /\ \A m \in DOMAIN stored \ {n} : stored'[m] = stored[m]
    <3>1. StoredOk(stored) /\ n \in Name /\ register \in Seq(Track)
      BY <1>4, <2>1
    <3>2. stored' = With(stored, n, register)
      BY <2>1
    <3> QED BY <3>1, <3>2, WithIs
  <2>3. ASSUME ~unseen PROVE Shown(library) # n
    <3>1. library.playlists = PlaylistsWithDefault(Listing(stored))
      BY <2>1, <2>3, InvParts DEF ListingIsFresh
    <3> QED BY <1>4, <2>1, <3>1, ShownIs, ListingOk
  <2>4. LibraryOk(library') /\ ListingIsFresh' /\ OpenSongsAreFresh'
    BY <1>1, <1>4, <2>1, <2>3, AddedKeepsSongs
  <2>5. CursorOpens'
    BY <1>1, <2>4, AheadIs, CursorKept
  <2>6. RowLost /\ HiddenKept
    BY <2>1, <2>2 DEF RowLost, HiddenKept
  <2> QED BY <1>3, <1>4, <1>5, <2>1, <2>2, <2>4, <2>5, <2>6, InvNext
<1>8. CASE CreateBreaks(n)
  <2>1. /\ ~connected' /\ library' = library /\ n \in Name
        /\ n \notin DOMAIN stored /\ n # Default
        /\ stored' = With(stored, n, Queue)
    BY <1>8 DEF CreateBreaks, Acceptable, Reserved
  <2>2. /\ StoredOk(stored') /\ DOMAIN stored' = DOMAIN stored \cup {n}
        /\ \A m \in DOMAIN stored \ {n} : stored'[m] = stored[m]
    <3>1. StoredOk(stored) /\ n \in Name /\ Queue \in Seq(Track)
      BY <1>4, <2>1, WorkspaceAssumption
    <3>2. stored' = With(stored, n, Queue)
      BY <2>1
    <3> QED BY <3>1, <3>2, WithIs
  <2>3. ListingIsFresh' /\ OpenSongsAreFresh'
    BY <2>1 DEF ListingIsFresh, OpenSongsAreFresh
  <2>4. CursorOpens'
    BY <1>1, <1>4, <2>1, AheadIs, CursorKept
  <2>5. RowLost /\ HiddenKept
    BY <2>1, <2>2 DEF RowLost, HiddenKept
  <2>6. ScreenTyped'
    <3>1. connected' \in BOOLEAN
      BY <1>8 DEF CreateBreaks
    <3> QED BY <1>5, <3>1
  <2>7. LibraryOk(library')
    BY <1>4, <2>1
  <2> QED BY <1>3, <2>2, <2>3, <2>4, <2>5, <2>6, <2>7, InvNext
<1> QED BY <1>1, <1>6, <1>7, <1>8

LEMMA ConfirmsDelete ==
  ASSUME WorkspaceInv, TypedAhead, ConfirmDelete
  PROVE  WorkspaceInv' /\ RowLost /\ HiddenKept
<1> DEFINE lib == SelectPlaylist(library, TreePlaylistIndex, stored)
<1>1. /\ prompt.open = "delete" /\ prompt' = [prompt EXCEPT !.open = "no"]
      /\ asked' = NothingAsked
      /\ UNCHANGED <<connected, tree, register, unseen>>
  BY DEF ConfirmDelete
<1>2. /\ LibraryOk(library) /\ StoredOk(stored) /\ active \in Collection
      /\ connected \in BOOLEAN /\ unseen \in BOOLEAN /\ register \in Seq(Track)
      /\ prompt \in Prompt /\ PromptIsAboutRow /\ tree \in Seq(Name \cup {Default})
  BY InvParts DEF ScreenTyped
<1>3. prompt' \in Prompt /\ asked' \in Question /\ PromptIsAboutRow'
  <2>1. prompt' \in Prompt /\ prompt'.open = "no"
        /\ prompt'.rename = prompt.rename /\ prompt'.original = prompt.original
    BY <1>1, <1>2 DEF Prompt
  <2> QED BY <1>1, <1>2, <2>1, PromptsClosed DEF PromptIsAboutRow
<1>4. CASE TreePlaylistIndex = -1
  <2>1. UNCHANGED <<stored, library, active, cursor>>
    BY <1>4 DEF ConfirmDelete
  <2> QED BY <1>1, <1>2, <1>3, <2>1, PromptStep
<1>5. CASE TreePlaylistIndex # -1
           /\ ~(connected /\ lib.current > 0 /\ Shown(lib) \in DOMAIN stored)
  <2>1. library' = lib /\ UNCHANGED <<stored, active, cursor>>
    BY <1>5 DEF ConfirmDelete
  <2> QED BY <1>1, <1>2, <1>3, <1>5, <2>1, SelectStep
<1>6. CASE TreePlaylistIndex # -1
           /\ connected /\ lib.current > 0 /\ Shown(lib) \in DOMAIN stored
  <2>1. DeleteSelected(lib)
    BY <1>6 DEF ConfirmDelete
  <2>2. LibraryOk(lib) /\ Shown(lib) = cursor /\ lib.current = TreePlaylistIndex
    BY <1>6, SelectedRow
  <2>3. cursor \in Name \ {Default} /\ cursor \notin FixedRow /\ cursor \in DOMAIN stored
    BY <1>6, <2>2, TreeIndexIs
  <2> HIDE DEF lib
  <2> DEFINE lib2 == [lib EXCEPT !.current = 0]
             lib3 == RefreshPlaylists(lib2, stored')
             rest == RefreshLibrary(lib3, stored')
  <2>4. /\ stored' = [n \in DOMAIN stored \ {cursor} |-> stored[n]]
        /\ IF active.name = cursor
           THEN /\ active' = [collection |-> "Library", name |-> "", index |-> -1]
                /\ library' = SelectDatabase(rest, stored')
                /\ cursor' = "library"
           ELSE library' = rest /\ UNCHANGED <<active, cursor>>
    BY <2>1, <2>2 DEF DeleteSelected
  <2>5. /\ StoredOk(stored') /\ DOMAIN stored' = DOMAIN stored \ {cursor}
        /\ \A n \in DOMAIN stored' : stored'[n] = stored[n]
    BY <1>2, <2>4 DEF StoredOk
  <2>6. LibraryOk(lib2)
    BY <2>2 DEF LibraryOk, ListOk
  <2> HIDE DEF lib2
  <2>7. LibraryOk(lib3) /\ lib3.playlists = PlaylistsWithDefault(Listing(stored'))
    BY <1>6, <2>5, <2>6, RefreshPlaylistsOk
  <2> HIDE DEF lib3
  <2>8. /\ LibraryOk(rest) /\ rest.playlists = PlaylistsWithDefault(Listing(stored'))
        /\ rest.songs = Contents(Shown(rest), stored')
    BY <1>6, <2>5, <2>7, RefreshLibraryOk
  <2> HIDE DEF rest
  <2>9. /\ LibraryOk(library')
        /\ library'.playlists = PlaylistsWithDefault(Listing(stored'))
        /\ library'.songs = Contents(Shown(library'), stored')
    <3>1. CASE active.name = cursor
      <4>1. library' = SelectDatabase(rest, stored')
        BY <2>4, <3>1
      <4> QED BY <1>6, <2>5, <2>8, <4>1, SelectDatabaseOk
    <3>2. CASE active.name # cursor
      BY <2>4, <2>8, <3>2
    <3> QED BY <3>1, <3>2
  <2>10. ListingIsFresh'
    BY <2>9 DEF ListingIsFresh, Listing, PlaylistsWithDefault
  <2>11. OpenSongsAreFresh'
    BY <2>9 DEF OpenSongsAreFresh, Shown, Contents
  <2>12. ScreenTyped'
    <3>1. ahead' \in BOOLEAN
      BY AheadTyped
    <3>2. active' \in Collection
      <4>1. [collection |-> "Library", name |-> "", index |-> -1] \in Collection
        BY DEF Collection
      <4> QED BY <1>2, <2>4, <4>1
    <3>3. cursor' \in FixedRow \cup Range(tree')
      <4>1. cursor \in FixedRow \cup Range(tree) /\ Range(tree') = Range(tree)
        BY <1>1, InvParts DEF ScreenTyped
      <4> QED BY <2>4, <4>1 DEF FixedRow
    <3> QED BY <1>1, <1>2, <1>3, <3>1, <3>2, <3>3 DEF ScreenTyped
  <2>13. CursorOpens'
    <3>1. cursor' = cursor \/ cursor' \in FixedRow
      BY <2>4 DEF FixedRow
    <3>2. cursor \notin Range(library'.playlists)
      BY <2>3, <2>5, <2>9, ListingOk
    <3>3. Range(library'.playlists) \cap FixedRow = {}
      BY <2>9, RowsDiffer DEF LibraryOk, ListOk
    <3>4. cursor' \notin Range(library'.playlists)
      BY <3>1, <3>2, <3>3
    <3> QED BY <3>4 DEF CursorOpens
  <2>14. RowLost
    <3> SUFFICES ASSUME NEW n \in DOMAIN stored \ DOMAIN stored'
                 PROVE  asked.name = n
      BY DEF RowLost
    <3>1. n = cursor
      BY <2>5
    <3> QED BY <1>1, <1>2, <2>3, <3>1 DEF PromptIsAboutRow
  <2>15. HiddenKept
    BY <2>3, <2>5 DEF HiddenKept
  <2> QED BY <1>3, <2>5, <2>9, <2>10, <2>11, <2>12, <2>13, <2>14, <2>15, InvNext
<1> QED BY <1>4, <1>5, <1>6

-----------------------------------------------------------------------------
(* The edits of the track list.                                            *)

\* The screen after an edit: a list of playlists and songs that are both fresh.
LEMMA ReloadedOk ==
  ASSUME LibraryOk(library), NEW s, StoredOk(s), active \in Collection, connected,
         active.collection = "Playlist"
  PROVE  /\ LibraryOk(Reloaded(s))
         /\ Reloaded(s).playlists = PlaylistsWithDefault(Listing(s))
         /\ Reloaded(s).songs = Contents(Shown(Reloaded(s)), s)
<1>1. active.index \in Int
  <2>1. active \in [collection : {"Playlist"}, name : Name \cup {Default}, index : Nat]
    BY DEF Collection
  <2>2. active.index \in Nat
    BY <2>1
  <2> QED BY <2>2
<1> DEFINE lib == RefreshPlaylists(library, s)
<1>2. LibraryOk(lib) /\ lib.playlists = PlaylistsWithDefault(Listing(s))
  BY RefreshPlaylistsOk
<1>3. Reloaded(s) = SelectPlaylist(lib, active.index, s)
  BY DEF Reloaded
<1> HIDE DEF lib
<1> DEFINE i == active.index
<1>4. i \in Int /\ Reloaded(s) = SelectPlaylist(lib, i, s)
  BY <1>1, <1>3
<1> HIDE DEF i
<1> QED BY <1>2, <1>4, SelectPlaylistOk

\* An edit leaves the tree, the open collection and the prompts alone.
LEMMA EditStep ==
  ASSUME WorkspaceInv, TypedAhead,
         UNCHANGED <<connected, tree, cursor, active, prompt, register, asked, unseen>>,
         StoredOk(stored'), LibraryOk(library'), ListingIsFresh', OpenSongsAreFresh'
  PROVE  WorkspaceInv'
<1>1. /\ connected \in BOOLEAN /\ unseen \in BOOLEAN /\ active \in Collection
      /\ prompt \in Prompt /\ asked \in Question /\ PromptIsAboutRow
  BY InvParts DEF ScreenTyped
<1>2. ScreenTyped'
  <2>1. ahead' \in BOOLEAN
    BY AheadTyped
  <2> QED BY <1>1, <2>1, ScreenStep
<1>3. PromptIsAboutRow'
  BY <1>1 DEF PromptIsAboutRow
<1>4. CursorOpens'
  BY AheadIs, CursorKept
<1> QED BY <1>2, <1>3, <1>4, InvNext

LEMMA Pastes ==
  ASSUME WorkspaceInv, TypedAhead, Paste
  PROVE  WorkspaceInv' /\ RowLost /\ HiddenKept
<1> DEFINE tracks == Kept(cursor) \o register
<1>1. /\ connected /\ TakesTracks(cursor)
      /\ stored' = With(stored, cursor, tracks)
      /\ library' = IF active.collection = "Playlist" /\ active.name = cursor
                    THEN Reloaded(stored') ELSE RefreshPlaylists(library, stored')
      /\ UNCHANGED <<connected, tree, cursor, active, prompt, register, asked, unseen>>
  BY DEF Paste
<1>2. /\ LibraryOk(library) /\ StoredOk(stored) /\ active \in Collection
      /\ tree \in Seq(Name \cup {Default}) /\ register \in Seq(Track)
      /\ ListingIsFresh /\ CursorOpens
  BY InvParts DEF ScreenTyped
<1>3. cursor \in Name /\ cursor # Default /\ cursor \in Range(tree)
  <2>1. cursor \in Range(tree) /\ cursor # Default
    BY <1>1 DEF TakesTracks, Rows
  <2> QED BY <1>2, <2>1, RowsDiffer
<1>4. tracks \in Seq(Track)
  <2>1. Kept(cursor) \in Seq(Track)
    BY <1>2 DEF Kept, StoredOk
  <2> QED BY <1>2, <2>1
<1> HIDE DEF tracks
<1>5. /\ StoredOk(stored') /\ DOMAIN stored' = DOMAIN stored \cup {cursor}
      /\ \A m \in DOMAIN stored \ {cursor} : stored'[m] = stored[m]
  BY <1>1, <1>2, <1>3, <1>4, WithIs
<1>6. RowLost /\ HiddenKept
  BY <1>3, <1>5 DEF RowLost, HiddenKept
<1>7. LibraryOk(library') /\ ListingIsFresh' /\ OpenSongsAreFresh'
  <2>1. CASE active.collection = "Playlist" /\ active.name = cursor
    <3>1. library' = Reloaded(stored')
      BY <1>1, <2>1
    <3>2. /\ LibraryOk(library')
          /\ library'.playlists = PlaylistsWithDefault(Listing(stored'))
          /\ library'.songs = Contents(Shown(library'), stored')
      BY <1>1, <1>2, <1>5, <2>1, <3>1, ReloadedOk
    <3>3. ListingIsFresh'
      BY <3>2 DEF ListingIsFresh, Listing, PlaylistsWithDefault
    <3>4. OpenSongsAreFresh'
      BY <3>2 DEF OpenSongsAreFresh, Shown, Contents
    <3> QED BY <3>2, <3>3, <3>4
  <2>2. CASE ~(active.collection = "Playlist" /\ active.name = cursor)
    <3>1. library' = RefreshPlaylists(library, stored')
      BY <1>1, <2>2
    <3>2. ASSUME ~unseen, ahead' => Shown(library) = active.name
          PROVE  Shown(library) # cursor
      <4>1. CASE ahead'
        <5>1. Shown(library) = active.name /\ Shown(library) # ""
          BY <1>2, <3>2, <4>1, ShownIs, WorkspaceAssumption DEF Default
        <5>2. active.collection = "Playlist"
          BY <1>2, <5>1 DEF Collection
        <5> QED BY <2>2, <5>1, <5>2
      <4>2. CASE ~ahead'
        <5>1. ~ahead /\ tree = library.playlists
          BY <4>2, AheadIs
        <5> QED BY <1>2, <1>3, <2>2, <5>1 DEF CursorOpens
      <4> QED BY <4>1, <4>2
    <3> QED BY <1>1, <1>3, <1>4, <3>1, <3>2, AddedKeepsSongs
  <2> QED BY <2>1, <2>2
<1> QED BY <1>1, <1>5, <1>6, <1>7, EditStep

LEMMA DeletesRows ==
  ASSUME WorkspaceInv, TypedAhead, NEW lo \in DOMAIN library.songs,
         NEW hi \in DOMAIN library.songs, DeleteRows(lo, hi)
  PROVE  WorkspaceInv' /\ RowLost /\ HiddenKept
<1>1. /\ connected /\ Writable /\ lo <= hi
      /\ active.name \in DOMAIN stored /\ active.name # Default
      /\ stored' = [stored EXCEPT ![active.name] = Removed(@, lo, hi)]
      /\ library' = Reloaded(stored')
      /\ UNCHANGED <<connected, tree, cursor, active, prompt, register, asked, unseen>>
  BY DEF DeleteRows
<1>2. /\ LibraryOk(library) /\ StoredOk(stored) /\ active \in Collection
      /\ library.songs \in Seq(Track)
  BY InvParts DEF ScreenTyped, LibraryOk
<1>3. Removed(stored[active.name], lo, hi) \in Seq(Track)
  <2>1. stored[active.name] \in Seq(Track)
    BY <1>1, <1>2 DEF StoredOk
  <2>2. lo \in Nat \ {0} /\ hi \in Nat
    BY <1>2
  <2> QED BY <1>1, <2>1, <2>2, RemovedIs
<1>4. /\ StoredOk(stored') /\ DOMAIN stored' = DOMAIN stored
      /\ \A n \in DOMAIN stored \ {active.name} : stored'[n] = stored[n]
  BY <1>1, <1>2, <1>3 DEF StoredOk
<1>5. /\ LibraryOk(library')
      /\ library'.playlists = PlaylistsWithDefault(Listing(stored'))
      /\ library'.songs = Contents(Shown(library'), stored')
  BY <1>1, <1>2, <1>4, ReloadedOk DEF Writable
<1>6. ListingIsFresh'
  BY <1>5 DEF ListingIsFresh, Listing, PlaylistsWithDefault
<1>7. OpenSongsAreFresh'
  BY <1>5 DEF OpenSongsAreFresh, Shown, Contents
<1>8. RowLost /\ HiddenKept
  BY <1>1, <1>4 DEF RowLost, HiddenKept
<1> QED BY <1>1, <1>4, <1>5, <1>6, <1>7, <1>8, EditStep

LEMMA MovesItem ==
  ASSUME WorkspaceInv, TypedAhead, NEW from \in DOMAIN library.songs,
         NEW to \in DOMAIN library.songs, MoveItem(from, to)
  PROVE  WorkspaceInv' /\ RowLost /\ HiddenKept
<1> DEFINE n == Shown(library)
<1>1. /\ connected /\ library.current > 0 /\ n \in DOMAIN stored
      /\ {from, to} \subseteq DOMAIN stored[n]
      /\ stored' = [stored EXCEPT ![n] = Moved(@, from, to)]
      /\ library' = RefreshLibrary(library, stored')
      /\ UNCHANGED <<connected, tree, cursor, active, prompt, register, asked, unseen>>
  BY DEF MoveItem
<1>2. LibraryOk(library) /\ StoredOk(stored) /\ ListingIsFresh
  BY InvParts
<1>3. n # Default
  BY <1>1, <1>2, ShownIs
<1>4. Moved(stored[n], from, to) \in Seq(Track)
  <2>1. stored[n] \in Seq(Track) /\ from \in DOMAIN stored[n] /\ to \in DOMAIN stored[n]
    BY <1>1, <1>2 DEF StoredOk
  <2> QED BY <2>1, MovedType
<1> HIDE DEF n
<1>5. /\ StoredOk(stored') /\ DOMAIN stored' = DOMAIN stored
      /\ \A m \in DOMAIN stored \ {n} : stored'[m] = stored[m]
  BY <1>1, <1>2, <1>4 DEF StoredOk
<1>6. /\ LibraryOk(library') /\ library'.playlists = library.playlists
      /\ library'.songs = Contents(Shown(library'), stored')
  BY <1>1, <1>2, <1>5, RefreshLibraryOk
<1>7. ListingIsFresh'
  BY <1>1, <1>2, <1>5, <1>6 DEF ListingIsFresh, Listing, PlaylistsWithDefault
<1>8. OpenSongsAreFresh'
  BY <1>6 DEF OpenSongsAreFresh, Shown, Contents
<1>9. RowLost /\ HiddenKept
  BY <1>3, <1>5 DEF RowLost, HiddenKept
<1> QED BY <1>1, <1>5, <1>6, <1>7, <1>8, <1>9, EditStep

-----------------------------------------------------------------------------
(* The cursor, the frames and the connection.                              *)

\* What opening a row does to the songs on screen: they are read, or nothing that
\* has songs of its own in the library was opened.
Read == connected => library'.songs = Contents(Shown(library'), stored)
Unread(row) ==
  /\ library' = library /\ row # "library" /\ row \notin Range(library.playlists)
  /\ active' = active \/ active'.name = ""

\* What opening a row does to the library, whichever row it is.
LEMMA LoadOk ==
  ASSUME WorkspaceInv, NEW row, Load(row)
  PROVE  /\ LibraryOk(library') /\ active' \in Collection
         /\ library'.playlists = library.playlists
         /\ Unread(row) \/ Read
         /\ row \in Range(library.playlists) =>
              active'.collection = "Playlist" /\ active'.name = row
<1>1. LibraryOk(library) /\ StoredOk(stored) /\ active \in Collection
  BY InvParts DEF ScreenTyped
<1>2. library.playlists \in Seq(Name \cup {Default})
  BY <1>1 DEF LibraryOk
<1>3. /\ Range(library.playlists) \subseteq Name \cup {Default}
      /\ Range(library.playlists) \cap FixedRow = {}
  BY <1>2, RowsDiffer
<1>4. "history" \in FixedRow /\ "library" \in FixedRow
  BY DEF FixedRow
<1>5. CASE row = "history"
  <2>1. /\ active' = [collection |-> "History", name |-> "", index |-> -1]
        /\ library' = library
    BY <1>3, <1>4, <1>5 DEF Load, OpenHistory
  <2>2. active' \in Collection /\ active'.name = ""
    BY <2>1 DEF Collection
  <2>3. Unread(row)
    BY <1>3, <1>4, <1>5, <2>1, <2>2 DEF Unread
  <2> QED BY <1>1, <1>3, <1>4, <1>5, <2>1, <2>2, <2>3
<1>6. CASE row = "library"
  <2>1. /\ active' = [collection |-> "Library", name |-> "", index |-> -1]
        /\ library' = SelectDatabase(library, stored)
    BY <1>3, <1>4, <1>6 DEF Load, OpenDatabase
  <2>2. active' \in Collection
    BY <2>1 DEF Collection
  <2>3. /\ LibraryOk(library') /\ library'.playlists = library.playlists
        /\ connected => library'.songs = Contents(Shown(library'), stored)
    BY <1>1, <2>1, SelectDatabaseOk
  <2> QED BY <1>3, <1>4, <1>6, <2>2, <2>3 DEF Read
<1>7. CASE row # "history" /\ row # "library" /\ row \in Range(library.playlists)
  <2> DEFINE i == IndexOf(library.playlists, row)
  <2>1. /\ active' = [collection |-> "Playlist", name |-> row, index |-> i]
        /\ library' = SelectPlaylist(library, i, stored)
    BY <1>7 DEF Load, OpenPlaylist
  <2>2. i \in 0 .. Len(library.playlists) - 1
    BY <1>2, <1>7, IndexOfIs
  <2>3. i \in Nat /\ i \in Int
    BY <2>2
  <2> HIDE DEF i
  <2>4. /\ active' \in Collection
        /\ active'.collection = "Playlist" /\ active'.name = row
    BY <1>3, <1>7, <2>1, <2>3 DEF Collection
  <2>5. /\ LibraryOk(library') /\ library'.playlists = library.playlists
        /\ connected => library'.songs = Contents(Shown(library'), stored)
    BY <1>1, <2>1, <2>3, SelectPlaylistOk
  <2> QED BY <2>4, <2>5 DEF Read
<1>8. CASE row # "history" /\ row # "library" /\ row \notin Range(library.playlists)
  <2>1. active' = active /\ library' = library
    BY <1>8 DEF Load, OpenNothing
  <2> QED BY <1>1, <1>8, <2>1 DEF Unread
<1> QED BY <1>5, <1>6, <1>7, <1>8

\* A row the cursor moves to before the frame is open unless it was typed ahead.
MovedAhead == ahead' = (tree # library.playlists \/ (ahead /\ ~Opens(cursor')))

LEMMA Moves ==
  ASSUME WorkspaceInv, MovedAhead, NEW row \in Rows, MoveTo(row)
  PROVE  WorkspaceInv' /\ RowLost /\ HiddenKept
<1>1. /\ cursor' = row /\ Load(row)
      /\ asked' = IF asked.what = "nothing" THEN asked
                  ELSE [asked EXCEPT !.name = IF row \in FixedRow THEN "" ELSE row]
      /\ UNCHANGED <<stored, connected, tree, prompt, register, unseen>>
  BY DEF MoveTo
<1>2. /\ LibraryOk(library) /\ StoredOk(stored)
      /\ asked \in Question /\ prompt \in Prompt /\ tree \in Seq(Name \cup {Default})
      /\ connected \in BOOLEAN /\ unseen \in BOOLEAN /\ ahead \in BOOLEAN
      /\ register \in Seq(Track)
      /\ PromptIsAboutRow /\ ListingIsFresh /\ OpenSongsAreFresh
  BY InvParts DEF ScreenTyped
<1>3. /\ LibraryOk(library') /\ active' \in Collection
      /\ library'.playlists = library.playlists
      /\ row \in Range(library.playlists) =>
           active'.collection = "Playlist" /\ active'.name = row
  BY <1>1, LoadOk
<1>4. row \in FixedRow \/ row \in Name \cup {Default}
  BY <1>2, RowsDiffer DEF Rows
<1>5. /\ asked' \in Question /\ asked'.what = asked.what
      /\ asked.what # "nothing" /\ row \notin FixedRow => asked'.name = row
  BY <1>1, <1>2, <1>4 DEF Question
<1>6. PromptIsAboutRow'
  <2> SUFFICES ASSUME prompt.open # "no", row \notin FixedRow
               PROVE  asked'.name = row
    BY <1>1, <1>2, <1>5 DEF PromptIsAboutRow
  <2>1. asked.what # "nothing"
    BY <1>2 DEF PromptIsAboutRow, Prompt
  <2> QED BY <1>5, <2>1
<1>7. ScreenTyped'
  <2>1. ahead' \in BOOLEAN
    BY <1>2 DEF MovedAhead
  <2>2. cursor' \in FixedRow \cup Range(tree')
    BY <1>1 DEF Rows
  <2> QED BY <1>1, <1>2, <1>3, <1>5, <2>1, <2>2 DEF ScreenTyped
<1>8. ListingIsFresh'
  BY <1>1, <1>2, <1>3 DEF ListingIsFresh
<1>9. CursorOpens'
  BY <1>1, <1>3 DEF CursorOpens
<1>10. OpenSongsAreFresh'
  <2> SUFFICES ASSUME connected, ~unseen, ahead' => Shown(library') = active'.name
               PROVE  library'.songs = Contents(Shown(library'), stored)
    BY <1>1 DEF OpenSongsAreFresh, Shown, Contents
  <2>1. CASE Read
    BY <1>1, <2>1 DEF Read, Contents
  <2>2. CASE Unread(row)
    <3>1. ahead => ahead'
      BY <1>1, <2>2 DEF Unread, MovedAhead, Opens
    <3>2. Shown(library) # ""
      BY <1>2, ShownIs, WorkspaceAssumption DEF Default
    <3>3. library' = library /\ (ahead => Shown(library) = active.name)
      BY <2>2, <3>1, <3>2 DEF Unread
    <3>4. library.songs = Contents(Shown(library), stored)
      BY <1>2, <3>3 DEF OpenSongsAreFresh
    <3> QED BY <1>1, <3>3, <3>4
  <2> QED BY <1>1, <2>1, <2>2, LoadOk
<1>11. RowLost /\ HiddenKept
  BY <1>1 DEF RowLost, HiddenKept
<1> QED BY <1>1, <1>2, <1>3, <1>6, <1>7, <1>8, <1>9, <1>10, <1>11, InvNext

LEMMA Syncs ==
  ASSUME WorkspaceInv, UNCHANGED ahead, Sync
  PROVE  WorkspaceInv' /\ RowLost /\ HiddenKept
<1>1. /\ tree' = library.playlists /\ cursor' = CursorAfter(tree, library.playlists)
      /\ UNCHANGED <<stored, connected, library, active, prompt, register, asked, unseen>>
  BY DEF Sync
<1>2. LibraryOk(library) /\ StoredOk(stored) /\ ScreenTyped /\ ListingIsFresh
      /\ CursorOpens /\ OpenSongsAreFresh /\ PromptIsAboutRow
  BY InvParts
<1>3. library.playlists \in Seq(Name \cup {Default})
      /\ Range(library.playlists) \cap FixedRow = {}
  BY <1>2, RowsDiffer DEF LibraryOk
<1>4. /\ cursor' \in FixedRow \cup Range(library.playlists)
      /\ cursor' = cursor \/ cursor' = "vault"
  BY <1>1 DEF CursorAfter, FixedRow
<1>5. "vault" \in FixedRow
  BY DEF FixedRow
<1>6. ScreenTyped'
  BY <1>1, <1>2, <1>3, <1>4 DEF ScreenTyped
<1>7. LibraryOk(library') /\ StoredOk(stored') /\ ListingIsFresh'
  BY <1>1, <1>2 DEF ListingIsFresh
<1>8. CursorOpens'
  BY <1>1, <1>2, <1>3, <1>4, <1>5 DEF CursorOpens
<1>9. OpenSongsAreFresh'
  BY <1>1, <1>2 DEF OpenSongsAreFresh, Shown, Contents
<1>10. PromptIsAboutRow'
  BY <1>1, <1>2, <1>4, <1>5 DEF PromptIsAboutRow
<1>11. RowLost /\ HiddenKept
  BY <1>1 DEF RowLost, HiddenKept
<1> QED BY <1>6, <1>7, <1>8, <1>9, <1>10, <1>11, InvNext

\* A step of the connection, or of another client: the screen stays as it is.
LEMMA OutsideStep ==
  ASSUME WorkspaceInv, UNCHANGED <<ui, ahead>>,
         ~ahead => tree = library.playlists \/ library'.playlists = library.playlists,
         connected' \in BOOLEAN, unseen' \in BOOLEAN,
         StoredOk(stored'), LibraryOk(library'), ListingIsFresh', OpenSongsAreFresh'
  PROVE  WorkspaceInv'
<1>1. UNCHANGED <<tree, cursor, active, prompt, register, asked>>
  BY DEF ui
<1>2. ScreenTyped /\ CursorOpens /\ PromptIsAboutRow
  BY InvParts
<1>3. ScreenTyped'
  <2>1. Range(tree') = Range(tree)
    BY <1>1
  <2> QED BY <1>1, <1>2, <2>1 DEF ScreenTyped
<1>4. CursorOpens'
  <2>1. CASE library'.playlists = library.playlists
    BY <1>1, <1>2, <2>1 DEF CursorOpens
  <2>2. CASE ~ahead /\ tree = library.playlists
    BY <1>1, <2>2, CursorKept
  <2>3. CASE ahead
    BY <2>3 DEF CursorOpens
  <2> QED BY <2>1, <2>2, <2>3
<1>5. PromptIsAboutRow'
  BY <1>1, <1>2 DEF PromptIsAboutRow
<1> QED BY <1>3, <1>4, <1>5, InvNext

LEMMA Connects ==
  ASSUME WorkspaceInv, UNCHANGED ahead,
         LinkBreaks \/ ReconnectFails \/ ReconnectBreaks \/ Reconnect
  PROVE  WorkspaceInv' /\ RowLost /\ HiddenKept
<1>1. LibraryOk(library) /\ StoredOk(stored) /\ connected \in BOOLEAN /\ unseen \in BOOLEAN
  BY InvParts DEF ScreenTyped
<1>2. UNCHANGED <<stored, ui>>
  BY DEF LinkBreaks, ReconnectFails, ReconnectBreaks, Reconnect
<1>3. RowLost /\ HiddenKept /\ StoredOk(stored')
  BY <1>1, <1>2 DEF RowLost, HiddenKept
<1>4. ASSUME ~connected' PROVE ListingIsFresh' /\ OpenSongsAreFresh'
  BY <1>4 DEF ListingIsFresh, OpenSongsAreFresh
<1>5. CASE LinkBreaks
  <2>1. ~connected' /\ connected' \in BOOLEAN /\ library' = library /\ unseen' = unseen
    BY <1>5 DEF LinkBreaks
  <2> QED BY <1>1, <1>2, <1>3, <1>4, <2>1, OutsideStep
<1>6. CASE ReconnectFails
  <2>1. /\ ~connected' /\ connected' = connected /\ unseen' = unseen
        /\ library' = [library EXCEPT !.songs = <<>>]
    BY <1>6 DEF ReconnectFails
  <2>2. LibraryOk(library') /\ library'.playlists = library.playlists
    <3>1. /\ library' \in [playlists : Seq(Name \cup {Default}), current : Nat,
                           database_view : BOOLEAN, songs : Seq(Track)]
          /\ library'.playlists = library.playlists
          /\ library'.current = library.current
          /\ library'.database_view = library.database_view
      <4>1. <<>> \in Seq(Track)
        OBVIOUS
      <4> QED BY <1>1, <2>1, <4>1 DEF LibraryOk
    <3> QED BY <1>1, <3>1 DEF LibraryOk
  <2>3. connected' \in BOOLEAN /\ unseen' \in BOOLEAN
    BY <1>1, <2>1
  <2> QED BY <1>2, <1>3, <1>4, <2>1, <2>2, <2>3, OutsideStep
<1>7. CASE ReconnectBreaks
  <2>1. /\ ~connected /\ UNCHANGED <<connected, unseen>> /\ tree = library.playlists
    BY <1>7 DEF ReconnectBreaks
  <2>2. PICK k \in {n \in Cuts : n <= Len(Listing(stored))} :
          library' = WithPlaylists(library,
                       PlaylistsWithDefault(SubSeq(Listing(stored), 1, k)))
    BY <1>7 DEF ReconnectBreaks
  <2>3. Listing(stored) \in Seq(Name)
    BY <1>1, ListingOk
  <2>4. k \in 0 .. Len(Listing(stored))
    <3>1. k \in Nat /\ k <= Len(Listing(stored))
      BY <2>2, WorkspaceAssumption
    <3>2. Len(Listing(stored)) \in Nat
      BY <2>3
    <3> QED BY <3>1, <3>2
  <2> DEFINE list == PlaylistsWithDefault(SubSeq(Listing(stored), 1, k))
  <2>5. ListOk(list)
    BY <1>1, <2>4, CutOk
  <2> HIDE DEF list
  <2>6. LibraryOk(library')
    BY <1>1, <2>2, <2>5, WithPlaylistsOk DEF list
  <2>7. connected' \in BOOLEAN /\ unseen' \in BOOLEAN
    BY <1>1, <2>1
  <2> QED BY <1>2, <1>3, <1>4, <2>1, <2>6, <2>7, OutsideStep
<1>8. CASE Reconnect
  <2> DEFINE list == PlaylistsWithDefault(Listing(stored))
             lib == WithPlaylists(library, list)
             songs == Contents(Shown(lib), stored)
  <2>1. /\ tree = library.playlists
        /\ library' = [lib EXCEPT !.songs = songs]
        /\ connected' \in BOOLEAN /\ unseen' \in BOOLEAN
    BY <1>8 DEF Reconnect
  <2>2. ListOk(list)
    BY <1>1, ListingOk
  <2>3. songs \in Seq(Track)
    BY <1>1, ContentsType
  <2> HIDE DEF list
  <2>4. LibraryOk(lib) /\ lib.playlists = list
    BY <1>1, <2>2, WithPlaylistsOk
  <2> HIDE DEF lib, songs
  <2>5. /\ library' \in [playlists : Seq(Name \cup {Default}), current : Nat,
                         database_view : BOOLEAN, songs : Seq(Track)]
        /\ library'.playlists = list /\ library'.songs = songs
        /\ library'.current = lib.current /\ library'.database_view = lib.database_view
    BY <2>1, <2>3, <2>4 DEF LibraryOk
  <2>6. LibraryOk(library') /\ Shown(library') = Shown(lib)
    BY <2>4, <2>5 DEF LibraryOk, Shown
  <2>7. ListingIsFresh'
    BY <1>2, <2>5 DEF ListingIsFresh, Listing, PlaylistsWithDefault, list
  <2>8. OpenSongsAreFresh'
    BY <1>2, <2>5, <2>6 DEF OpenSongsAreFresh, Shown, Contents, songs
  <2> QED BY <1>2, <1>3, <2>1, <2>6, <2>7, <2>8, OutsideStep
<1> QED BY <1>5, <1>6, <1>7, <1>8

\* What another client does is unseen, and nothing is claimed of it.
LEMMA Others ==
  ASSUME WorkspaceInv, UNCHANGED ahead, OtherClient
  PROVE  WorkspaceInv' /\ ~(~unseen' \/ unseen)
<1>1. LibraryOk(library) /\ StoredOk(stored) /\ connected \in BOOLEAN
  BY InvParts DEF ScreenTyped
<1>2. ~unseen /\ unseen' /\ unseen' \in BOOLEAN /\ UNCHANGED <<connected, library, ui>>
  BY DEF OtherClient
<1>3. StoredOk(stored')
  <2>1. PICK n \in Touched :
          \/ stored' = [m \in DOMAIN stored \ {n} |-> stored[m]]
          \/ stored' = With(stored, n, Queue)
    BY DEF OtherClient
  <2>2. CASE stored' = [m \in DOMAIN stored \ {n} |-> stored[m]]
    BY <1>1, <2>2 DEF StoredOk
  <2>3. CASE stored' = With(stored, n, Queue)
    <3>1. n \in Name /\ Queue \in Seq(Track)
      BY WorkspaceAssumption
    <3> QED BY <1>1, <2>3, <3>1, WithIs
  <2> QED BY <2>1, <2>2, <2>3
<1>4. ListingIsFresh' /\ OpenSongsAreFresh'
  BY <1>2 DEF ListingIsFresh, OpenSongsAreFresh
<1>5. LibraryOk(library') /\ connected' \in BOOLEAN /\ unseen' \in BOOLEAN
  BY <1>1, <1>2
<1> QED BY <1>2, <1>3, <1>4, <1>5, OutsideStep

-----------------------------------------------------------------------------
(* The theorems.                                                           *)

LEMMA Keys ==
  ASSUME WorkspaceInv, TypedAhead, Key
  PROVE  WorkspaceInv' /\ RowLost /\ HiddenKept
<1>1. CASE OpenCreate \/ OpenRename \/ CancelPrompt \/ AskDelete \/ CancelDelete
  BY <1>1, OpenPrompts
<1>2. CASE \E n \in Name \cup {Default} : CommitRename(n) \/ CommitCreate(n)
  BY <1>2, CommitsRename, CommitsCreate
<1>3. CASE ConfirmDelete
  BY <1>3, ConfirmsDelete
<1>4. CASE \E lo, hi \in DOMAIN library.songs :
             Yank(lo, hi) \/ DeleteRows(lo, hi) \/ MoveItem(lo, hi)
  <2>1. PICK lo \in DOMAIN library.songs, hi \in DOMAIN library.songs :
          Yank(lo, hi) \/ DeleteRows(lo, hi) \/ MoveItem(lo, hi)
    BY <1>4
  <2> QED BY <2>1, Yanks, DeletesRows, MovesItem
<1>5. CASE \E x \in Track : YankHistory(x)
  <2>1. PICK x \in Track : YankHistory(x)
    BY <1>5
  <2> QED BY <2>1, YanksHistory
<1>6. CASE Paste
  BY <1>6, Pastes
<1> QED BY <1>1, <1>2, <1>3, <1>4, <1>5, <1>6 DEF Key

\* Every step keeps the invariant, takes away only the highlighted playlist, and leaves
\* the hidden playlist alone unless another client acts.
LEMMA Steps ==
  ASSUME WorkspaceInv, Next
  PROVE  WorkspaceInv' /\ (~unseen' \/ unseen => RowLost /\ HiddenKept)
<1>1. CASE Key /\ TypedAhead
  BY <1>1, Keys
<1>2. CASE Move /\ MovedAhead
  BY <1>2, Moves DEF Move
<1>3. CASE Background /\ UNCHANGED ahead
  BY <1>3, Syncs, Connects, Others DEF Background
<1> QED BY <1>1, <1>2, <1>3 DEF Next, TypedAhead, MovedAhead

LEMMA Starts == Init => WorkspaceInv
<1> SUFFICES ASSUME Init PROVE WorkspaceInv
  OBVIOUS
<1>1. StoredOk(stored)
  BY WorkspaceAssumption DEF Init, StoredOk
<1>2. LibraryOk(library)
  <2>1. ListOk(PlaylistsWithDefault(Listing(stored)))
    BY <1>1, ListingOk
  <2>2. Database \in Seq(Track)
    BY WorkspaceAssumption
  <2> DEFINE list == PlaylistsWithDefault(Listing(stored))
  <2>3. /\ library = [playlists |-> list, current |-> 0, database_view |-> TRUE,
                      songs |-> Database]
        /\ ListOk(list)
    BY <2>1 DEF Init
  <2> HIDE DEF list
  <2>4. /\ library.playlists = list /\ library.current = 0
        /\ list \in Seq(Name \cup {Default}) /\ Len(list) > 0
    BY <2>3 DEF ListOk
  <2>5. library \in [playlists : Seq(Name \cup {Default}), current : Nat,
                     database_view : BOOLEAN, songs : Seq(Track)]
    BY <2>2, <2>3, <2>4
  <2> QED BY <2>3, <2>4, <2>5 DEF LibraryOk
<1>3. TypeOK
  <2>1. active \in Collection
    BY DEF Init, Collection
  <2>2. prompt \in Prompt /\ asked \in Question
    BY PromptsClosed DEF Init
  <2>3. tree \in Seq(Name \cup {Default}) /\ register \in Seq(Track) /\ cursor \in FixedRow
    <3>1. tree = <<>> /\ register = <<>> /\ cursor = "library"
      BY DEF Init
    <3> QED BY <3>1 DEF FixedRow
  <2>4. connected \in BOOLEAN /\ unseen \in BOOLEAN /\ ahead \in BOOLEAN
    BY DEF Init
  <2> QED BY <1>1, <1>2, <2>1, <2>2, <2>3, <2>4 DEF TypeOK, LibraryOk, ListOk, StoredOk
<1>4. PlaylistsSound
  BY <1>2 DEF PlaylistsSound, LibraryOk, ListOk
<1>5. ListingIsFresh
  BY DEF Init, ListingIsFresh
<1>6. CursorOpens
  <2>1. cursor \in FixedRow
    BY DEF Init, FixedRow
  <2> QED BY <1>2, <2>1, RowsDiffer DEF CursorOpens, LibraryOk
<1>7. OpenSongsAreFresh
  <2>1. Shown(library) = Default /\ library.songs = Database
    BY DEF Init, Shown
  <2> QED BY <2>1 DEF OpenSongsAreFresh, Contents
<1>8. PromptIsAboutRow
  BY DEF Init, PromptIsAboutRow, NoPrompt
<1> QED BY <1>3, <1>4, <1>5, <1>6, <1>7, <1>8 DEF WorkspaceInv

\* The inductive invariant: what the four names of the open playlist agree on
\* after every key, click, frame, reconnect and change by another client.
THEOREM WorkspaceHolds == Spec => []WorkspaceInv
<1>1. WorkspaceInv /\ UNCHANGED vars => WorkspaceInv'
  BY DEF WorkspaceInv, vars, TypeOK, PlaylistsSound, ListingIsFresh, CursorOpens,
         OpenSongsAreFresh, PromptIsAboutRow, Shown, Contents
<1>2. WorkspaceInv /\ [Next]_vars => WorkspaceInv'
  BY <1>1, Steps
<1> QED BY <1>2, Starts, PTL DEF Spec

\* Every variable of the workspace keeps its type: no edit, reply or rebuild
\* leaves an index outside the list of playlists or a cursor on no row.
THEOREM WorkspaceTyped == Spec => []TypeOK
<1>1. WorkspaceInv => TypeOK
  BY DEF WorkspaceInv
<1> QED BY <1>1, WorkspaceHolds, PTL

\* The playlist under the tree cursor is the one that is open, whatever was
\* created, renamed, deleted or pasted and however often the connection broke.
THEOREM CursorStaysOpen == Spec => []CursorIsOpen
<1>1. WorkspaceInv => CursorIsOpen
  BY DEF WorkspaceInv, CursorOpens, CursorIsOpen, OnPlaylist
<1> QED BY <1>1, WorkspaceHolds, PTL

\* The list of playlists is the one MPD has, with the virtual Default first.
THEOREM ListingStaysFresh == Spec => []ListingIsFresh
<1>1. WorkspaceInv => ListingIsFresh
  BY DEF WorkspaceInv
<1> QED BY <1>1, WorkspaceHolds, PTL

\* The songs on screen are those MPD has for the selected playlist.
THEOREM BufferStaysFresh == Spec => []BufferIsFresh
<1>1. WorkspaceInv => BufferIsFresh
  BY DEF WorkspaceInv, OpenSongsAreFresh, BufferIsFresh
<1> QED BY <1>1, WorkspaceHolds, PTL

\* OnlyRowIsLost: whatever reorders the rows while a prompt waits for Enter, no
\* stored playlist disappears but the one that was highlighted
\* (commitPlaylistPrompt, treePlaylistIndex).
THEOREM OnlyTheRowIsLost == Spec => OnlyRowIsLost
<1>1. WorkspaceInv /\ [Next]_vars =>
        [~unseen' \/ unseen =>
              \A n \in DOMAIN stored \ DOMAIN stored' : asked.name = n]_vars
  BY Steps DEF RowLost
<1> QED BY <1>1, WorkspaceHolds, PTL DEF Spec, OnlyRowIsLost

\* No operation of termusic touches the playlist the virtual Default hides.
THEOREM HiddenStaysUntouched == Spec => HiddenIsUntouched
<1>1. WorkspaceInv /\ [Next]_vars =>
        [~unseen' \/ unseen =>
              /\ Default \in DOMAIN stored <=> Default \in DOMAIN stored'
              /\ Default \in DOMAIN stored => stored[Default] = stored'[Default]]_vars
  BY Steps DEF HiddenKept
<1> QED BY <1>1, WorkspaceHolds, PTL DEF Spec, HiddenIsUntouched

\* Deleting rows of the playlist on screen removes these rows and no other, for
\* playlists of any length: the positions are sent highest first.
THEOREM RowsAreDeleted == Spec => DeletesTheRows
<1>1. ASSUME WorkspaceInv, NEW lo \in DOMAIN library.songs,
             NEW hi \in DOMAIN library.songs,
             DeleteRows(lo, hi), ~unseen, Shown(library) = active.name
      PROVE  stored'[active.name] =
               SubSeq(library.songs, 1, lo - 1) \o
               SubSeq(library.songs, hi + 1, Len(library.songs))
  <2>1. /\ connected /\ lo <= hi
        /\ active.name \in DOMAIN stored /\ active.name # Default
        /\ stored' = [stored EXCEPT ![active.name] = Removed(@, lo, hi)]
    BY <1>1 DEF DeleteRows
  <2>2. library.songs = stored[active.name]
    BY <1>1, <2>1, InvParts DEF OpenSongsAreFresh, Contents
  <2>3. library.songs \in Seq(Track)
    BY <1>1, InvParts DEF LibraryOk
  <2>4. lo \in Nat \ {0} /\ hi \in Nat /\ hi <= Len(library.songs)
    BY <2>3
  <2> QED BY <2>1, <2>2, <2>3, <2>4, RemovedIs
<1>2. WorkspaceInv =>
        [\A lo, hi \in DOMAIN library.songs :
           DeleteRows(lo, hi) /\ ~unseen /\ Shown(library) = active.name =>
             stored'[active.name] =
               SubSeq(library.songs, 1, lo - 1) \o
               SubSeq(library.songs, hi + 1, Len(library.songs))]_vars
  BY <1>1
<1> QED BY <1>2, WorkspaceHolds, PTL DEF Spec, DeletesTheRows

=============================================================================
