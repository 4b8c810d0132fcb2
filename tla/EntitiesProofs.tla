--------------------------- MODULE EntitiesProofs ---------------------------
(***************************************************************************)
(* Proofs about isIdentical, for every set of names, values and references  *)
(* and lists of every length.                                              *)
(***************************************************************************)
EXTENDS Entities, SequenceTheorems, TLAPS

-----------------------------------------------------------------------------
(* Two lists that each start with the other are equal.                     *)
LEMMA StartsWithBothWays ==
  ASSUME NEW S, NEW s \in Seq(S), NEW t \in Seq(S), StartsWith(s, t), StartsWith(t, s)
  PROVE  s = t
<1>1. Len(s) \in Nat /\ Len(t) \in Nat
  BY LenProperties
<1>2. Len(s) = Len(t) /\ \A i \in 1..Len(s) : s[i] = t[i]
  BY <1>1 DEF StartsWith
<1> QED BY <1>2, SeqEqual

LEMMA StartsWithAppend ==
  ASSUME NEW S, NEW s \in Seq(S), NEW t \in Seq(S), NEW e \in S, StartsWith(s, t)
  PROVE  StartsWith(Append(s, e), t)
<1>1. /\ Len(s) \in Nat /\ Len(t) \in Nat
      /\ Len(Append(s, e)) = Len(s) + 1
      /\ \A i \in 1..Len(s) : Append(s, e)[i] = s[i]
  BY LenProperties, AppendProperties
<1> QED BY <1>1 DEF StartsWith

(* The lists of albums and artists only grow, a song has none, and an       *)
(* artist nothing but its name and list.                                   *)
Grows ==
  /\ mine.kind \in {"Album", "Artist"} => StartsWith(mine.list, seen.list)
  /\ mine.kind = "Song" => mine.list = << >> /\ seen.list = << >>
  /\ mine.kind = "Artist" => mine.details = seen.details

Inv == TypeOK /\ Grows

LEMMA EntityFields ==
  ASSUME NEW e \in Entities
  PROVE  /\ e.kind \in Kinds /\ e.name \in Names \union {Null} /\ e.loaded \in BOOLEAN
         /\ e.details \in Details /\ e.list \in Seq(Refs)
         /\ e = [kind |-> e.kind, name |-> e.name, loaded |-> e.loaded,
                 details |-> e.details, list |-> e.list]
BY DEF Entities

LEMMA Initially == Init => Inv
<1> SUFFICES ASSUME Init PROVE Inv
  OBVIOUS
<1>1. PICK k \in Kinds : mine = New(k)
  BY DEF Init
<1>2. mine \in Entities /\ mine.list = << >> /\ mine.kind = k
  BY <1>1, EntitiesAssumption DEF New, Entities
<1> QED BY <1>2 DEF Init, Inv, TypeOK, Grows, StartsWith

(* What a setter makes of the entity: the kind stays, and the list of an   *)
(* album or an artist goes on as it was.                                   *)
LEMMA SetKeepsInv ==
  ASSUME Inv, NEW e \in Entities, e.kind = mine.kind, Set(e),
         e.kind = "Song" => e.list = mine.list,
         e.kind = "Artist" => e.details = mine.details,
         e.kind \in {"Album", "Artist"} => StartsWith(e.list, seen.list)
  PROVE  Inv'
BY DEF Inv, TypeOK, Grows, Set

LEMMA RemoveType ==
  ASSUME NEW l \in Seq(Refs), NEW i \in 1..Len(l)
  PROVE  [j \in 1..(Len(l) - 1) |-> IF j < i THEN l[j] ELSE l[j + 1]] \in Seq(Refs)
<1>1. Len(l) \in Nat /\ Len(l) - 1 \in Nat /\ \A j \in 1..Len(l) : l[j] \in Refs
  BY LenProperties, ElementOfSeq
<1>2. \A j \in 1..(Len(l) - 1) : (IF j < i THEN l[j] ELSE l[j + 1]) \in Refs
  BY <1>1
<1>3. [j \in 1..(Len(l) - 1) |-> IF j < i THEN l[j] ELSE l[j + 1]] \in [1..(Len(l) - 1) -> Refs]
  BY <1>2
<1> QED BY <1>1, <1>3, SeqDef

LEMMA Step == Inv /\ [Next]_vars => Inv'
<1> SUFFICES ASSUME Inv, [Next]_vars PROVE Inv'
  OBVIOUS
<1>0. /\ mine \in Entities /\ mine.list \in Seq(Refs) /\ mine.kind \in Kinds
      /\ mine.kind \in {"Album", "Artist"} => StartsWith(mine.list, seen.list)
  BY EntityFields DEF Inv, TypeOK, Grows
<1>1. ASSUME NEW n \in Names \union {Null}, SetName(n) PROVE Inv'
  <2>1. [mine EXCEPT !.name = n] \in Entities
    BY <1>0 DEF Entities
  <2> QED BY <1>0, <1>1, <2>1, SetKeepsInv DEF SetName, Entities
<1>2. ASSUME NEW b \in BOOLEAN, SetIsLoaded(b) PROVE Inv'
  <2>1. [mine EXCEPT !.loaded = b] \in Entities
    BY <1>0 DEF Entities
  <2> QED BY <1>0, <1>2, <2>1, SetKeepsInv DEF SetIsLoaded, Entities
<1>3. ASSUME NEW d \in Details, SetDetails(d) PROVE Inv'
  <2>1. [mine EXCEPT !.details = d] \in Entities
    BY <1>0 DEF Entities
  <2> QED BY <1>0, <1>3, <2>1, SetKeepsInv DEF SetDetails, Entities
<1>4. ASSUME NEW r \in Refs, Add(r) PROVE Inv'
  <2>1. CASE UNCHANGED vars
    BY <2>1 DEF Inv, TypeOK, Grows, vars
  <2>2. CASE Set([mine EXCEPT !.list = Append(@, r)])
    <3>1. Append(mine.list, r) \in Seq(Refs)
      BY <1>0, AppendProperties
    <3>2. [mine EXCEPT !.list = Append(@, r)] \in Entities
      BY <1>0, <3>1 DEF Entities
    <3>3. mine.kind \in {"Album", "Artist"} => StartsWith(Append(mine.list, r), seen.list)
      BY <1>0, StartsWithAppend, EntityFields DEF Inv, TypeOK
    <3> QED BY <1>0, <1>4, <2>2, <3>2, <3>3, SetKeepsInv DEF Entities, Add, WithList
  <2> QED BY <1>4, <2>1, <2>2 DEF Add
<1>5. ASSUME NEW i \in 1..MaxList, Remove(i) PROVE Inv'
  <2> DEFINE l == [j \in 1..(Len(mine.list) - 1) |->
                     IF j < i THEN mine.list[j] ELSE mine.list[j + 1]]
  <2>1. l \in Seq(Refs)
    BY <1>0, <1>5, RemoveType DEF Remove
  <2>2. Set([mine EXCEPT !.list = l]) /\ mine.kind \in {"Playlist", "Genre"}
    BY <1>5 DEF Remove
  <2> HIDE DEF l
  <2>3. [mine EXCEPT !.list = l] \in Entities
    BY <1>0, <2>1 DEF Entities
  <2> QED BY <1>0, <2>2, <2>3, SetKeepsInv DEF Entities
<1>6. ASSUME NEW i \in 1..MaxList, NEW r \in Refs, SetSong(i, r) PROVE Inv'
  <2>1. [mine.list EXCEPT ![i] = r] \in Seq(Refs)
    BY <1>0, <1>6, ExceptSeq DEF SetSong
  <2>2. Set([mine EXCEPT !.list = [mine.list EXCEPT ![i] = r]]) /\ mine.kind \in {"Playlist", "Genre"}
    BY <1>0, <1>6 DEF SetSong, Entities
  <2>3. [mine EXCEPT !.list = [mine.list EXCEPT ![i] = r]] \in Entities
    BY <1>0, <2>1 DEF Entities
  <2> QED BY <1>0, <2>2, <2>3, SetKeepsInv DEF Entities
<1>7. CASE Send
  <2>1. Len(mine.list) \in Nat
    BY <1>0, LenProperties
  <2> QED BY <1>7, <2>1 DEF Inv, TypeOK, Grows, Send, StartsWith
<1>8. CASE UNCHANGED vars
  BY <1>8 DEF Inv, TypeOK, Grows, vars
<1> QED BY <1>1, <1>2, <1>3, <1>4, <1>5, <1>6, <1>7, <1>8 DEF Next

LEMMA Invariant == Spec => []Inv
BY Initially, Step, PTL DEF Spec

-----------------------------------------------------------------------------
(* The provider's entity and the app's copy are entities of one kind.      *)
THEOREM TypeCorrect == Spec => []TypeOK
BY Invariant, PTL DEF Inv

(* isIdentical() misses no change between a copy and the next but those    *)
(* named: the argument is that a remote list that is too short cannot      *)
(* arise, as the lists of albums and artists only grow.                    *)
THEOREM IdenticalIsSame == Spec => []IdenticalMeansSame
<1>1. Inv => IdenticalMeansSame
  <2> SUFFICES ASSUME Inv, IsIdentical(seen, mine) PROVE IdenticalMeansSame
    BY DEF IdenticalMeansSame
  <2>0. /\ seen.kind = mine.kind /\ mine.list \in Seq(Refs) /\ seen.list \in Seq(Refs)
        /\ Len(mine.list) \in Nat /\ Len(seen.list) \in Nat
    BY EntityFields, LenProperties DEF Inv, TypeOK
  <2>1. CASE seen.kind = "Song" /\ SongIdentical(seen, mine)
    BY <2>0, <2>1 DEF IdenticalMeansSame, SongIdentical, Inv, Grows
  <2>2. CASE seen.kind = "Album" /\ AlbumIdentical(seen, mine)
    BY <2>0, <2>2, StartsWithBothWays
    DEF IdenticalMeansSame, AlbumIdentical, SameNonNull, Inv, Grows
  <2>3. CASE seen.kind = "Artist" /\ ArtistIdentical(seen, mine)
    BY <2>0, <2>3, StartsWithBothWays DEF IdenticalMeansSame, ArtistIdentical, Inv, Grows
  <2>4. CASE seen.kind = "Playlist" /\ PlaylistIdentical(seen, mine)
    <3>1. StartsWith(mine.list, seen.list)
      BY <2>0, <2>4 DEF PlaylistIdentical, StartsWith
    <3> QED
      BY <2>0, <2>4, <3>1, StartsWithBothWays DEF IdenticalMeansSame, PlaylistIdentical, SameNonNull
  <2> QED BY <2>1, <2>2, <2>3, <2>4 DEF IsIdentical
<1> QED BY <1>1, Invariant, PTL

(* An entity sent a second time as it was is identical to the first copy,  *)
(* but for genres, and albums and playlists without a name.                *)
THEOREM SameIsIdentical == Spec => []SameMeansIdentical
<1>1. Inv => SameMeansIdentical
  <2> SUFFICES ASSUME Inv, seen = mine PROVE SameMeansIdentical
    BY DEF SameMeansIdentical
  <2>1. mine.kind \in Kinds /\ Len(mine.list) \in Nat
    BY EntityFields, LenProperties DEF Inv, TypeOK
  <2>2. StartsWith(mine.list, mine.list)
    BY <2>1 DEF StartsWith
  <2> QED
    BY <2>1, <2>2 DEF SameMeansIdentical, IsIdentical, Kinds, SongIdentical, AlbumIdentical,
                      ArtistIdentical, PlaylistIdentical, SameNonNull
<1> QED BY <1>1, Invariant, PTL
=============================================================================
