----------------------------- MODULE GeoLists -----------------------------
(***************************************************************************)
(* The lists of cities and networks a restriction is picked from: walked   *)
(* out of a GeoIP database by a thread in the background, kept in memory   *)
(* and in a file beside the database, built again when that is replaced.   *)
(*                                                                         *)
(* Source: app/vpnadmin/geo_lists.py, routes/geo.py.                       *)
(*                                                                         *)
(* A database is known by the number of its release, which stands for its  *)
(* time of modification and for its contents; 0 is no database.            *)
(***************************************************************************)
EXTENDS Naturals, Bags

CONSTANTS
  Kind,         \* "city" and "asn"
  MaxPages,     \* bound: pages with the lists that are served at the same time
  MaxBuilders,  \* bound: threads that build at the same time
  MaxReleases,  \* bound: releases of each database
  MaxBreaks     \* bound: builds and writes that fail

ASSUME GeoAssumption == {MaxPages, MaxBuilders, MaxReleases, MaxBreaks} \subseteq Nat

VARIABLES
  source,    \* the databases
  index,     \* _city_index, _asn_index
  disk,      \* the cache files
  tmp,       \* the temporary files: none, or one list
  building,  \* _building
  pages,     \* bag: where each ensure_fresh is, for one kind
  builders,  \* bag: where each _rebuild is and what it has made
  breaks

geoVars == <<source, index, disk, tmp, building, pages, builders, breaks>>

\* stamp: source_mtime; is: the release that was walked.  A file that is torn
\* does not load and is like none.
NoList == [stamp |-> 0, is |-> 0]
Ready(k) == index[k] # NoList

Looking(k, now) == [pc |-> "look", kind |-> k, saw |-> now, busy |-> FALSE, cached |-> NoList]
Starting(k) == [Looking(k, 0) EXCEPT !.pc = "start"]
Started(k) == [pc |-> "stat", kind |-> k, made |-> NoList]

One(x) == SetToBag({x})
\* p goes on as one of N, or is over.
Moves(bag, p, N) == (bag (-) One(p)) (+) SetToBag(N)

-----------------------------------------------------------------------------
(* ensure_fresh *)

OpenPage(k) ==
  /\ BagCardinality(pages) < MaxPages
  /\ source[k] # 0
  /\ pages' = pages (+) One(Looking(k, source[k]))
  /\ UNCHANGED <<source, index, disk, tmp, building, builders, breaks>>

\* Whether a build is under way is read here and used later.
LookAtIndex(p) ==
  LET k == p.kind IN
  /\ p.pc = "look"
  /\ pages' = Moves(pages, p,
       IF ~Ready(k) THEN {[p EXCEPT !.pc = "load", !.busy = (k \in building)]}
       ELSE IF index[k].stamp = p.saw \/ k \in building THEN {} ELSE {Starting(k)})
  /\ UNCHANGED <<source, index, disk, tmp, building, builders, breaks>>

LoadCache(p) ==
  /\ p.pc = "load"
  /\ pages' = Moves(pages, p, {[p EXCEPT !.pc = "adopt", !.cached = disk[p.kind]]})
  /\ UNCHANGED <<source, index, disk, tmp, building, builders, breaks>>

AdoptCache(p) ==
  /\ p.pc = "adopt"
  /\ index' = IF p.cached = NoList THEN index ELSE [index EXCEPT ![p.kind] = p.cached]
  /\ pages' = Moves(pages, p, IF p.cached.stamp = p.saw \/ p.busy THEN {} ELSE {Starting(p.kind)})
  /\ UNCHANGED <<source, disk, tmp, building, builders, breaks>>

StartBuild(p) ==
  /\ p.pc = "start"
  /\ BagCardinality(builders) < MaxBuilders
  /\ building' = building \cup {p.kind}
  /\ builders' = builders (+) One(Started(p.kind))
  /\ pages' = Moves(pages, p, {})
  /\ UNCHANGED <<source, index, disk, tmp, breaks>>

-----------------------------------------------------------------------------
(* _rebuild *)

Stat(b) ==
  /\ b.pc = "stat"
  /\ builders' = Moves(builders, b, {[b EXCEPT !.pc = "walk", !.made.stamp = source[b.kind]]})
  /\ UNCHANGED <<source, index, disk, tmp, building, pages, breaks>>

\* wrong on purpose: the time of modification is read after the walk
WalkedLate(b) == [stamp |-> source[b.kind], is |-> b.made.stamp]
Walked(b) == [b.made EXCEPT !.is = source[b.kind]]

\* The database is opened after its time of modification was read.
Walk(b) ==
  /\ b.pc = "walk"
  /\ builders' = Moves(builders, b, {[b EXCEPT !.pc = "write", !.made = Walked(b)]})
  /\ UNCHANGED <<source, index, disk, tmp, building, pages, breaks>>

\* Two builders of one kind write the same temporary file: if the first has
\* not renamed it yet, it may be torn.
Torn(k) ==
  IF \E c \in DOMAIN builders : c.pc = "rename" /\ c.kind = k THEN {NoList} ELSE {}
Write(b) ==
  /\ b.pc = "write"
  /\ \E list \in {b.made} \cup Torn(b.kind) : tmp' = [tmp EXCEPT ![b.kind] = {list}]
  /\ builders' = Moves(builders, b, {[b EXCEPT !.pc = "rename"]})
  /\ UNCHANGED <<source, index, disk, building, pages, breaks>>

Rename(b) ==
  /\ b.pc = "rename"
  /\ \E list \in tmp[b.kind] : disk' = [disk EXCEPT ![b.kind] = list]
  /\ tmp' = [tmp EXCEPT ![b.kind] = {}]
  /\ builders' = Moves(builders, b, {[b EXCEPT !.pc = "swap"]})
  /\ UNCHANGED <<source, index, building, pages, breaks>>

\* The directory cannot be written, or another builder has renamed the file:
\* the list is used all the same.
RenameFails(b) ==
  /\ b.pc = "rename"
  /\ breaks' = IF tmp[b.kind] = {} THEN breaks ELSE breaks + 1
  /\ breaks' =< MaxBreaks
  /\ builders' = Moves(builders, b, {[b EXCEPT !.pc = "swap"]})
  /\ UNCHANGED <<source, index, disk, tmp, building, pages>>

Ending(b) == [b EXCEPT !.pc = "end", !.made = NoList]
Swap(b) ==
  /\ b.pc = "swap"
  /\ index' = [index EXCEPT ![b.kind] = b.made]
  /\ builders' = Moves(builders, b, {Ending(b)})
  /\ UNCHANGED <<source, disk, tmp, building, pages, breaks>>

BuildLeft(b) ==  \* wrong on purpose: a build that fails stays "under way"
  /\ b.pc \in {"stat", "walk"}
  /\ breaks < MaxBreaks
  /\ breaks' = breaks + 1
  /\ builders' = Moves(builders, b, {})
  /\ UNCHANGED <<source, index, disk, tmp, building, pages>>
\* The database cannot be read.
BuildFails(b) ==
  /\ b.pc \in {"stat", "walk"}
  /\ breaks < MaxBreaks
  /\ breaks' = breaks + 1
  /\ builders' = Moves(builders, b, {Ending(b)})
  /\ UNCHANGED <<source, index, disk, tmp, building, pages>>

\* Whatever happened, and although another builder may still be at work.
EndBuild(b) ==
  /\ b.pc = "end"
  /\ building' = building \ {b.kind}
  /\ builders' = Moves(builders, b, {})
  /\ UNCHANGED <<source, index, disk, tmp, pages, breaks>>

-----------------------------------------------------------------------------
(* The databases and the process *)

Release(k) ==
  /\ source[k] < MaxReleases
  /\ source' = [source EXCEPT ![k] = @ + 1]
  /\ UNCHANGED <<index, disk, tmp, building, pages, builders, breaks>>

\* A start, with the file made from an earlier release, or none.
GeoInit(w) ==
  /\ source = [k \in Kind |-> MaxReleases - w.releases]
  /\ index = [k \in Kind |-> NoList]
  /\ disk = [k \in Kind |-> [stamp |-> w.old, is |-> w.old]]
  /\ tmp = [k \in Kind |-> {}]
  /\ building = {}
  /\ pages = EmptyBag
  /\ builders = EmptyBag
  /\ breaks = MaxBreaks - w.breaks

\* A restart: the file alone is left, and a temporary one that nobody reads.
Emptied ==
  /\ index' = [k \in Kind |-> NoList]
  /\ tmp' = [k \in Kind |-> {}]
  /\ building' = {}
  /\ pages' = EmptyBag
  /\ builders' = EmptyBag
  /\ UNCHANGED <<source, disk, breaks>>

PageStep ==
  \E p \in DOMAIN pages : LookAtIndex(p) \/ LoadCache(p) \/ AdoptCache(p) \/ StartBuild(p)
BuilderStep ==
  \E b \in DOMAIN builders :
    \/ Stat(b) \/ Walk(b) \/ Write(b) \/ Rename(b) \/ RenameFails(b)
    \/ Swap(b) \/ BuildFails(b) \/ EndBuild(b)

-----------------------------------------------------------------------------
\* "the source mmdb is newer than what's cached": a list, in memory or on disk,
\* that passes for the one of the present database was walked out of it, however
\* builders, pages, releases and restarts interleave.
ListsHonest ==
  \A k \in Kind : \A list \in {index[k], disk[k]} :
    list # NoList /\ list.stamp = source[k] => list.is = source[k]

\* As long as pages are opened the lists are those of the last release in the
\* end, although builds fail and an older builder may finish last.
ListsCatchUp ==
  \A k \in Kind :
    []<>(\E p \in DOMAIN pages : p.pc = "look" /\ p.kind = k)
      => <>[](source[k] # 0 => index[k].stamp = source[k])
=============================================================================
