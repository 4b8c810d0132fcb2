------------------------------ MODULE Entities ------------------------------
(***************************************************************************)
(* The entities a provider hands to the app (Song, Album, Artist, Playlist, *)
(* Genre): the provider changes its own through their setters, a parcel     *)
(* carries a copy to the app, and isIdentical() is how a copy is compared   *)
(* with the next.  One entity is followed, with the copy the app got last.  *)
(*                                                                         *)
(* name stands for the strings of a kind that may be null (a song's title,  *)
(* artist and album too), details for its numbers and flags but mIsLoaded   *)
(* (years, duration, offline status and capability, availability), list for *)
(* the references of its songs or albums.  A reference is never null, and   *)
(* is the same in all copies.                                              *)
(***************************************************************************)
EXTENDS Naturals, Sequences

CONSTANTS
  Names,    \* names an entity may have
  Null,     \* the name before it is set
  Details,  \* values of the other fields
  Unset,    \* those of a new entity
  Refs,     \* references of songs or albums
  MaxList   \* bound on the length of a list

ASSUME EntitiesAssumption == Null \notin Names /\ Unset \in Details /\ MaxList \in Nat

Kinds == {"Song", "Album", "Artist", "Playlist", "Genre"}
WithList == Kinds \ {"Song"}

Entities == [kind : Kinds, name : Names \union {Null}, loaded : BOOLEAN,
             details : Details, list : Seq(Refs)]

VARIABLES
  mine,  \* the provider's entity
  seen   \* the app's last copy of it

vars == <<mine, seen>>

-----------------------------------------------------------------------------
(* Mutant: they end with ours.                                             *)
EndsWithOurs(ours, theirs) ==
  /\ Len(ours) <= Len(theirs)
  /\ \A i \in 1..Len(ours) : ours[i] = theirs[i]

(* The loops of isIdentical over both lists end with the remote's.         *)
StartsWith(ours, theirs) ==
  /\ Len(theirs) <= Len(ours)
  /\ \A i \in 1..Len(theirs) : ours[i] = theirs[i]

SameNonNull(a, b) == a.name # Null /\ a.name = b.name

(* Mutant: without the tests for null.                                     *)
SongIdenticalIfNamed(a, b) == SameNonNull(a, b) /\ a.loaded = b.loaded /\ a.details = b.details

(* What each kind compares, for entities with the same reference.          *)
SongIdentical(a, b) == a.name = b.name /\ a.loaded = b.loaded /\ a.details = b.details
AlbumIdentical(a, b) == SameNonNull(a, b) /\ StartsWith(a.list, b.list)
ArtistIdentical(a, b) == a.name = b.name /\ StartsWith(a.list, b.list)
PlaylistIdentical(a, b) ==
  /\ SameNonNull(a, b)
  /\ Len(a.list) = Len(b.list) /\ a.details = b.details
  /\ StartsWith(a.list, b.list)

(* a.isIdentical(b), for a and b of the same class: a Genre asks whether b  *)
(* is a Playlist, and so says no to every Genre.                           *)
IsIdentical(a, b) ==
  \/ a.kind = "Song" /\ SongIdentical(a, b)
  \/ a.kind = "Album" /\ AlbumIdentical(a, b)
  \/ a.kind = "Artist" /\ ArtistIdentical(a, b)
  \/ a.kind = "Playlist" /\ PlaylistIdentical(a, b)

-----------------------------------------------------------------------------
New(k) == [kind |-> k, name |-> Null, loaded |-> FALSE, details |-> Unset, list |-> << >>]

(* A fresh entity, sent to the app at once ("return an entity with the     *)
(* final reference and set the loaded flag to 'false'", IMusicProvider).   *)
Init ==
  /\ \E k \in Kinds : mine = New(k)
  /\ seen = mine

Set(e) == mine' = e /\ UNCHANGED seen

SetName(n)    == Set([mine EXCEPT !.name = n])
SetIsLoaded(b) == Set([mine EXCEPT !.loaded = b])
SetDetails(d) == mine.kind \notin {"Artist", "Genre"} /\ Set([mine EXCEPT !.details = d])

Contains(list, r) == \E i \in 1..Len(list) : list[i] = r

(* addSong, addAlbum: only an album or an artist looks for duplicates.     *)
Add(r) ==
  /\ mine.kind \in WithList /\ Len(mine.list) < MaxList
  /\ IF mine.kind \in {"Album", "Artist"} /\ Contains(mine.list, r)
     THEN UNCHANGED vars
     ELSE Set([mine EXCEPT !.list = Append(@, r)])

(* Mutant: the list keeps its length, with a null at the end.             *)
RemoveLeavesNull(i) ==
  /\ mine.kind \in {"Playlist", "Genre"} /\ i \in 1..Len(mine.list)
  /\ Set([mine EXCEPT !.list = [j \in 1..Len(@) |-> IF j < i THEN @[j]
                                                  ELSE IF j < Len(@) THEN @[j + 1] ELSE Null]])

(* removeSong(int), or removeSong(String) with i the first place of it.    *)
Remove(i) ==
  /\ mine.kind \in {"Playlist", "Genre"} /\ i \in 1..Len(mine.list)
  /\ Set([mine EXCEPT !.list = [j \in 1..(Len(@) - 1) |-> IF j < i THEN @[j] ELSE @[j + 1]]])

SetSong(i, r) ==
  /\ mine.kind \in {"Playlist", "Genre"} /\ i \in 1..Len(mine.list)
  /\ Set([mine EXCEPT !.list[i] = r])

(* The provider sends it: a parcel is written and read.                    *)
Send == seen' = mine /\ UNCHANGED mine

Next ==
  \/ \E n \in Names \union {Null} : SetName(n)
  \/ \E b \in BOOLEAN : SetIsLoaded(b)
  \/ \E d \in Details : SetDetails(d)
  \/ \E r \in Refs : Add(r)
  \/ \E i \in 1..MaxList : Remove(i)
  \/ \E i \in 1..MaxList, r \in Refs : SetSong(i, r)
  \/ Send

Spec == Init /\ [][Next]_vars

-----------------------------------------------------------------------------
(* Both copies are entities, of the same kind.                             *)
TypeOK == mine \in Entities /\ seen \in Entities /\ mine.kind = seen.kind

(* "true if both objects are exactly the same" (BoundEntity.isIdentical):  *)
(* whatever the provider has done to its entity since it sent the copy,    *)
(* the copy is identical to the next only if nothing has changed, but for  *)
(* the loaded flag of all that is not a song, and the year of an album.    *)
(* That a shorter list counts as the same is safe for albums and artists   *)
(* only as addSong and addAlbum are all that changes theirs (and as long   *)
(* as no one changes the list that Artist.getAlbums returns).              *)
IdenticalMeansSame ==
  IsIdentical(seen, mine) =>
    /\ seen.name = mine.name /\ seen.list = mine.list
    /\ mine.kind = "Song" => seen.loaded = mine.loaded
    /\ mine.kind # "Album" => seen.details = mine.details

(* An entity that has not changed is identical to the copy sent before     *)
(* ("exactly the same contents"), but for a genre, and for an album or a   *)
(* playlist whose name is not set.                                         *)
SameMeansIdentical ==
  seen = mine =>
    \/ IsIdentical(seen, mine)
    \/ mine.kind = "Genre"
    \/ mine.kind \in {"Album", "Playlist"} /\ mine.name = Null
=============================================================================
