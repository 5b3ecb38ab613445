------------------------------ MODULE PageProofs ------------------------------
(***************************************************************************)
(* TLAPS proofs about PageAllocator, for any memory map, any amount of      *)
(* memory and any requests: no two clients ever hold the same page, and the *)
(* assertions of free_pages never fail.                                     *)
(*                                                                          *)
(* Pages held are intervals, so that they share no page exactly when one    *)
(* ends before the other starts; what the clients do to their regions is    *)
(* then linear arithmetic on the bounds.                                    *)
(***************************************************************************)
EXTENDS PageAllocator, ListLemmas

-----------------------------------------------------------------------------
(* Rounding and searching.                                                  *)

\* A request is rounded up to a block that holds it.
LEMMA RoundUpAbove ==
  ASSUME NEW n \in Requests
  PROVE  RoundUp(n) \in Nat \ {0} /\ n \in Nat \ {0} /\ n <= RoundUp(n)
<1> DEFINE A == {m \in Blocks : m >= n}
<1>1. n \in Nat \ {0} /\ A \subseteq Nat /\ A # {}
  BY BlockAssumption
<1>2. PICK m \in A : \A y \in A : m <= y
  BY <1>1, LeastElement
<1>3. \E k \in Blocks : k >= n /\ \A j \in Blocks : j >= n => k <= j
  BY <1>2
<1>4. RoundUp(n) \in Blocks /\ RoundUp(n) >= n
  BY <1>3 DEF RoundUp
<1> QED
  BY <1>1, <1>4, BlockAssumption

\* A size is rounded down to a block within it.
LEMMA RoundDownBelow ==
  ASSUME NEW n \in Nat \ {0}
  PROVE  RoundDown(n) \in Nat \ {0} /\ RoundDown(n) <= n
<1> DEFINE A == {n - m : m \in {k \in Blocks : k <= n}}
<1>1. A \subseteq Nat /\ n - 1 \in A
  BY BlockAssumption
<1>2. PICK x \in A : \A y \in A : x <= y
  BY <1>1, LeastElement
<1>3. PICK m \in Blocks : m <= n /\ x = n - m
  BY <1>2
<1>4. ASSUME NEW j \in Blocks, j <= n PROVE n - j \in A
  <2>1. j \in {k \in Blocks : k <= n}
    BY <1>4
  <2> QED
    BY <2>1, Zenon
<1>5. ASSUME NEW j \in Blocks, j <= n PROVE j <= m
  <2>1. x <= n - j
    BY <1>2, <1>4, <1>5
  <2> QED
    BY <1>3, <2>1, BlockAssumption
<1>6. RoundDown(n) \in Blocks /\ RoundDown(n) <= n
  BY <1>3, <1>5 DEF RoundDown
<1> QED
  BY <1>6, BlockAssumption

\* Everything in a run that allocate_pages finds is available.
LEMMA FoundIsAvailable ==
  ASSUME NEW d, NEW nr \in Nat, NEW n \in Nat \ {0}, NEW b \in 0 .. nr - 1,
         b = AllocatePages(d, nr, n)
  PROVE  \A p \in b .. b + n - 1 : p \in Frames /\ d[p] = "AVAILABLE"
<1> DEFINE fit == {c \in 0 .. nr - 1 : Fits(d, c, n)}
<1>1. fit # {}
  BY MemoryAssumption DEF AllocatePages
<1>2. fit \subseteq Nat
  OBVIOUS
<1>3. \E x \in fit : \A y \in fit : x <= y
  BY <1>1, <1>2, LeastElement
<1>4. b \in fit
  BY <1>1, <1>3 DEF AllocatePages
<1> QED
  BY <1>4 DEF Fits, TypeAt

-----------------------------------------------------------------------------
(* Regions as intervals.                                                    *)

IsRegion(r) ==
  /\ r = Region(r.kind, r.base, r.size)
  /\ r.kind \in Kinds /\ r.base \in Nat /\ r.size \in Nat \ {0}

Apart(r, s) == r.base + r.size <= s.base \/ s.base + s.size <= r.base

\* Regions share no page when one ends before the other starts.
LEMMA ApartIsDisjoint ==
  ASSUME NEW r, NEW s, IsRegion(r), IsRegion(s)
  PROVE  (Pages(r) \cap Pages(s) = {}) <=> Apart(r, s)
<1>1. r.base \in Nat /\ r.size \in Nat \ {0} /\ s.base \in Nat /\ s.size \in Nat \ {0}
  BY DEF IsRegion
<1>2. ASSUME Pages(r) \cap Pages(s) = {} PROVE Apart(r, s)
  <2>1. r.base \in Pages(r) /\ s.base \in Pages(s)
    BY <1>1 DEF Pages
  <2>2. r.base \notin Pages(s) /\ s.base \notin Pages(r)
    BY <2>1, <1>2
  <2> QED
    BY <1>1, <2>2 DEF Pages, Apart
<1>3. ASSUME Apart(r, s) PROVE Pages(r) \cap Pages(s) = {}
  BY <1>1, <1>3 DEF Pages, Apart
<1> QED
  BY <1>2, <1>3

\* The field values of a region that is put together.
LEMMA RegionFields ==
  ASSUME NEW k \in Kinds, NEW b \in Nat, NEW n \in Nat \ {0}
  PROVE  /\ IsRegion(Region(k, b, n))
         /\ Region(k, b, n).kind = k /\ Region(k, b, n).base = b /\ Region(k, b, n).size = n
BY DEF IsRegion, Region

Held(R, d) == \A r \in R : \A p \in Pages(r) : p \in Frames /\ d[p] = "ALLOCATED"
Separate(R) == \A r, s \in R : r # s => Apart(r, s)
Typed(R) == \A r \in R : IsRegion(r)
Owned(R, d) == Typed(R) /\ Separate(R) /\ Held(R, d)

\* Owned is what the invariants say of regions.
LEMMA OwnedIff ==
  ASSUME Typed(regions)
  PROVE  RegionsOwned <=> Separate(regions) /\ Held(regions, pgd)
<1>1. \A r, s \in regions : (Pages(r) \cap Pages(s) = {}) <=> Apart(r, s)
  BY ApartIsDisjoint DEF Typed
<1>2. \A p : TypeAt(pgd, p) = "ALLOCATED" <=> (p \in Frames /\ pgd[p] = "ALLOCATED")
  BY DEF TypeAt
<1> QED
  BY <1>1, <1>2 DEF RegionsOwned, Separate, Held

\* A run of available pages is apart from everything that is held.
LEMMA AvailableIsApart ==
  ASSUME NEW R, NEW d, Owned(R, d), NEW b \in Nat, NEW n \in Nat \ {0},
         \A p \in b .. b + n - 1 : p \in Frames /\ d[p] = "AVAILABLE",
         NEW r \in R
  PROVE  r.base + r.size <= b \/ b + n <= r.base
<1>1. IsRegion(r)
  BY DEF Owned, Typed
<1>2. r.base \in Nat /\ r.size \in Nat \ {0}
  BY <1>1 DEF IsRegion
<1>3. \A p \in Pages(r) : p \notin b .. b + n - 1
  BY DEF Owned, Held
<1>4. r.base \in Pages(r) /\ b \notin Pages(r)
  BY <1>2, <1>3 DEF Pages
<1>5. r.base \notin b .. b + n - 1
  BY <1>3, <1>4
<1> QED
  BY <1>2, <1>4, <1>5 DEF Pages

\* Marking a run as allocated holds old regions and new pages of the run.
LEMMA HeldAfterAlloc ==
  ASSUME NEW R, NEW d, Held(R, d), NEW b \in Nat, NEW n \in Nat \ {0},
         \A p \in b .. b + n - 1 : p \in Frames,
         NEW N, \A x \in N : \A p \in Pages(x) :
                   p \in b .. b + n - 1 \/ \E r \in R : p \in Pages(r)
  PROVE  Held(N, Marked(d, b .. b + n - 1, "ALLOCATED"))
BY DEF Held, Marked

-----------------------------------------------------------------------------
(* What allocations do to regions.                                          *)

\* A new region within the run.
LEMMA AddRegion ==
  ASSUME NEW R, NEW d, Owned(R, d), NEW b \in Nat, NEW n \in Nat \ {0},
         NEW m \in Nat \ {0}, m <= n, NEW k \in Kinds,
         \A p \in b .. b + n - 1 : p \in Frames /\ d[p] = "AVAILABLE"
  PROVE  Owned(R \cup {Region(k, b, m)}, Marked(d, b .. b + n - 1, "ALLOCATED"))
<1> DEFINE x == Region(k, b, m)
           N == R \cup {x}
<1>1. IsRegion(x) /\ x.base = b /\ x.size = m
  BY RegionFields
<1>2. Typed(N)
  BY <1>1 DEF Owned, Typed
<1>3. \A r \in R : r.base + r.size <= b \/ b + n <= r.base
  BY AvailableIsApart
<1>4. \A r \in R : r.base \in Nat /\ r.size \in Nat \ {0}
  BY DEF Owned, Typed, IsRegion
<1>5. \A r \in R : Apart(r, x) /\ Apart(x, r)
  BY <1>1, <1>3, <1>4 DEF Apart
<1>6. Separate(N)
  BY <1>5 DEF Owned, Separate
<1>7. \A p \in Pages(x) : p \in b .. b + n - 1
  BY <1>1 DEF Pages
<1>8. Held(N, Marked(d, b .. b + n - 1, "ALLOCATED"))
  <2>1. \A y \in N : \A p \in Pages(y) :
           p \in b .. b + n - 1 \/ \E r \in R : p \in Pages(r)
    BY <1>7
  <2> HIDE DEF N
  <2> QED
    BY <2>1, HeldAfterAlloc DEF Owned
<1> QED
  BY <1>2, <1>6, <1>8 DEF Owned

\* A region that grows into the run, at its end or before its start.
LEMMA GrowRegion ==
  ASSUME NEW R, NEW d, Owned(R, d), NEW b \in Nat, NEW n \in Nat \ {0},
         NEW m \in Nat \ {0}, m <= n,
         \A p \in b .. b + n - 1 : p \in Frames /\ d[p] = "AVAILABLE",
         NEW r \in R, NEW c \in Nat,
         \/ r.base + r.size = b /\ c = r.base
         \/ r.base = b + m /\ c = b
  PROVE  Owned((R \ {r}) \cup {Region(r.kind, c, r.size + m)},
               Marked(d, b .. b + n - 1, "ALLOCATED"))
<1>0. IsRegion(r) /\ r.kind \in Kinds /\ r.base \in Nat /\ r.size \in Nat \ {0}
  BY DEF Owned, Typed, IsRegion
<1> DEFINE x == Region(r.kind, c, r.size + m)
           N == (R \ {r}) \cup {x}
<1>1. IsRegion(x) /\ x.base = c /\ x.size = r.size + m
  BY <1>0, RegionFields
<1>2. Typed(N)
  BY <1>1 DEF Owned, Typed
<1>3. \A s \in R : s.base + s.size <= b \/ b + n <= s.base
  BY AvailableIsApart
<1>4. \A s \in R : s.base \in Nat /\ s.size \in Nat \ {0}
  BY DEF Owned, Typed, IsRegion
<1>5. \A s \in R \ {r} : Apart(r, s)
  BY DEF Owned, Separate
<1>6. \A s \in R \ {r} : Apart(s, x) /\ Apart(x, s)
  BY <1>0, <1>1, <1>3, <1>4, <1>5 DEF Apart
<1>7. Separate(N)
  BY <1>6 DEF Owned, Separate
<1>8. \A p \in Pages(x) : p \in b .. b + n - 1 \/ p \in Pages(r)
  BY <1>0, <1>1 DEF Pages
<1>9. Held(N, Marked(d, b .. b + n - 1, "ALLOCATED"))
  <2>1. \A y \in N : \A p \in Pages(y) :
           p \in b .. b + n - 1 \/ \E s \in R : p \in Pages(s)
    BY <1>8
  <2> HIDE DEF N
  <2> QED
    BY <2>1, HeldAfterAlloc DEF Owned
<1> QED
  BY <1>2, <1>7, <1>9 DEF Owned

\* The regions after the segments that held top have become plain segments.
Demoted(R) ==
  LET old == {r \in R : r.kind = "top"}
  IN (R \ old) \cup {Region("seg", r.base, r.size) : r \in old}

\* Changing the kind of regions changes no page.
LEMMA DemotedOwned ==
  ASSUME NEW R, NEW d, Owned(R, d)
  PROVE  Owned(Demoted(R), d)
<1> DEFINE From(x, r) ==
             /\ IsRegion(x) /\ x.base = r.base /\ x.size = r.size
             /\ x = r \/ (r.kind = "top" /\ x = Region("seg", r.base, r.size))
<1>1. \A x \in Demoted(R) : \E r \in R : From(x, r)
  <2> TAKE x \in Demoted(R)
  <2>1. CASE x \in R
    BY <2>1 DEF Owned, Typed
  <2>2. CASE x \notin R
    <3>1. PICK r \in R : r.kind = "top" /\ x = Region("seg", r.base, r.size)
      BY <2>2 DEF Demoted
    <3>2. r.base \in Nat /\ r.size \in Nat \ {0}
      BY DEF Owned, Typed, IsRegion
    <3>3. IsRegion(x) /\ x.base = r.base /\ x.size = r.size
      BY <3>1, <3>2, RegionFields DEF Kinds
    <3> QED
      BY <3>1, <3>3
  <2> QED
    BY <2>1, <2>2
<1>2. Typed(Demoted(R))
  BY <1>1 DEF Typed
<1>3. Held(Demoted(R), d)
  <2>1. \A x \in Demoted(R) : \E r \in R : Pages(x) = Pages(r)
    BY <1>1 DEF Pages
  <2> QED
    BY <2>1 DEF Owned, Held
<1>4. Separate(Demoted(R))
  <2> SUFFICES ASSUME NEW x \in Demoted(R), NEW y \in Demoted(R), x # y PROVE Apart(x, y)
    BY DEF Separate
  <2>1. PICK r \in R : From(x, r)
    BY <1>1
  <2>2. PICK s \in R : From(y, s)
    BY <1>1
  <2>3. r # s
    <3> SUFFICES ASSUME r = s PROVE FALSE
      OBVIOUS
    <3>1. r.kind = "top"
      BY <2>1, <2>2
    <3>2. r \notin Demoted(R)
      <4>1. Region("seg", 0, 0).kind = "seg" /\ \A b, n : Region("seg", b, n).kind = "seg"
        BY DEF Region
      <4> QED
        BY <3>1, <4>1 DEF Demoted
    <3> QED
      BY <2>1, <2>2, <3>2
  <2>4. Apart(r, s)
    BY <2>3 DEF Owned, Separate
  <2> QED
    BY <2>1, <2>2, <2>4 DEF Apart
<1> QED
  BY <1>2, <1>3, <1>4 DEF Owned

\* sys_alloc: the mapping is appended, prepended or becomes the new top.
LEMMA ExtendedOwned ==
  ASSUME Owned(regions, pgd), NEW b \in Nat, NEW n \in Nat \ {0},
         NEW m \in Nat \ {0}, m <= n,
         \A p \in b .. b + n - 1 : p \in Frames /\ pgd[p] = "AVAILABLE"
  PROVE  Owned(Extended(b, m), Marked(pgd, b .. b + n - 1, "ALLOCATED"))
<1> DEFINE append == {r \in regions : r.kind = "top" /\ r.base + r.size = b}
           prepend == {r \in regions : r.kind \in {"top", "seg"} /\ r.base = b + m}
<1>0. \A r \in regions : IsRegion(r) /\ r.base \in Nat /\ r.size \in Nat \ {0}
  BY DEF Owned, Typed, IsRegion
<1>1. CASE append # {}
  <2>1. PICK r \in append : TRUE
    BY <1>1
  <2>2. ASSUME NEW s \in append PROVE s = r
    BY <1>0, <2>1 DEF Owned, Separate, Apart
  <2>3. append = {r}
    BY <2>1, <2>2
  <2>4. Extended(b, m) = (regions \ {r}) \cup {Region(r.kind, r.base, r.size + m)}
    <3>1. Extended(b, m) = (regions \ append) \cup {Region("top", q.base, q.size + m) : q \in append}
      BY <1>1 DEF Extended
    <3>2. r.kind = "top"
      BY <2>1
    <3> HIDE DEF append
    <3> QED
      BY <2>3, <3>1, <3>2
  <2>5. r \in regions /\ r.base \in Nat /\ r.base + r.size = b
    BY <1>0, <2>1
  <2> HIDE DEF append
  <2>6. Owned((regions \ {r}) \cup {Region(r.kind, r.base, r.size + m)},
              Marked(pgd, b .. b + n - 1, "ALLOCATED"))
    BY <2>5, GrowRegion
  <2> QED
    BY <2>4, <2>6
<1>2. CASE append = {} /\ prepend # {}
  <2>1. PICK r \in prepend : TRUE
    BY <1>2
  <2>2. ASSUME NEW s \in prepend PROVE s = r
    BY <1>0, <2>1 DEF Owned, Separate, Apart
  <2>3. prepend = {r}
    BY <2>1, <2>2
  <2>4. Extended(b, m) = (regions \ {r}) \cup {Region(r.kind, b, r.size + m)}
    <3>1. Extended(b, m) = (regions \ prepend) \cup {Region(q.kind, b, q.size + m) : q \in prepend}
      BY <1>2 DEF Extended
    <3> HIDE DEF prepend
    <3> QED
      BY <2>3, <3>1
  <2>5. r \in regions /\ r.base = b + m
    BY <1>0, <2>1
  <2> HIDE DEF prepend
  <2>6. Owned((regions \ {r}) \cup {Region(r.kind, b, r.size + m)},
              Marked(pgd, b .. b + n - 1, "ALLOCATED"))
    BY <2>5, GrowRegion
  <2> QED
    BY <2>4, <2>6
<1>3. CASE append = {} /\ prepend = {}
  <2>1. Extended(b, m) = Demoted(regions) \cup {Region("top", b, m)}
    BY <1>3 DEF Extended, Demoted
  <2>2. Owned(Demoted(regions), pgd)
    BY DemotedOwned
  <2>3. "top" \in Kinds
    BY DEF Kinds
  <2>4. Owned(Demoted(regions) \cup {Region("top", b, m)},
              Marked(pgd, b .. b + n - 1, "ALLOCATED"))
    BY <2>2, <2>3, AddRegion
  <2> QED
    BY <2>1, <2>4
<1> QED
  BY <1>1, <1>2, <1>3

-----------------------------------------------------------------------------
(* What frees do to regions.                                                *)

\* Regions that keep none of the pages freed are still held.
LEMMA OwnedAfterFree ==
  ASSUME NEW R, NEW d, Owned(R, d), NEW S, NEW N, Typed(N), Separate(N),
         \A x \in N : \A p \in Pages(x) : p \notin S /\ \E r \in R : p \in Pages(r)
  PROVE  Owned(N, Marked(d, S, "AVAILABLE"))
BY DEF Owned, Held, Marked

\* munmap frees pages of the region it is given.
LEMMA MunmapWithin ==
  ASSUME NEW b \in Nat, NEW n \in Nat \ {0}
  PROVE  Munmap(b, n) \subseteq b .. b + n - 1
<1>1. RoundDown(n) \in Nat \ {0} /\ RoundDown(n) <= n
  BY RoundDownBelow
<1> QED
  BY <1>1 DEF Munmap

\* Whatever unused segments are released, only their own pages are freed.
LEMMA UnmapAllWithin ==
  ASSUME NEW R, Typed(R), NEW U, U \subseteq R, NEW p \in UnmapAll(U)
  PROVE  \E u \in U : p \in Pages(u)
<1>1. PICK u \in U : p \in Munmap(u.base, u.size)
  BY DEF UnmapAll
<1>2. u.base \in Nat /\ u.size \in Nat \ {0}
  BY DEF Typed, IsRegion
<1>3. p \in Pages(u)
  BY <1>1, <1>2, MunmapWithin DEF Pages
<1> QED
  BY <1>3

\* Different regions share no page.
LEMMA OwnedDisjoint ==
  ASSUME NEW R, NEW d, Owned(R, d), NEW r \in R, NEW s \in R, r # s, NEW p \in Pages(r)
  PROVE  p \notin Pages(s)
<1>1. IsRegion(r) /\ IsRegion(s) /\ Apart(r, s)
  BY DEF Owned, Typed, Separate
<1> QED
  BY <1>1, ApartIsDisjoint

\* free_pages of pages that are held: the assertions hold.
LEMMA FreeMarks ==
  ASSUME NEW R, Owned(R, pgd), NEW S, \A p \in S : \E r \in R : p \in Pages(r), FreePages(S)
  PROVE  pgd' = Marked(pgd, S, "AVAILABLE") /\ phase' = phase
<1>1. \A p \in S : TypeAt(pgd, p) = "ALLOCATED"
  BY DEF Owned, Held, TypeAt
<1> QED
  BY <1>1 DEF FreePages

\* Releasing whole regions.
LEMMA ReleaseOwned ==
  ASSUME Owned(regions, pgd), NEW U, U \subseteq regions,
         FreePages(UnmapAll(U)), regions' = regions \ U
  PROVE  Owned(regions', pgd') /\ phase' = phase /\ pgd' = Marked(pgd, UnmapAll(U), "AVAILABLE")
<1>1. \A p \in UnmapAll(U) : \E u \in U : p \in Pages(u)
  BY UnmapAllWithin DEF Owned
<1>2. phase' = phase /\ pgd' = Marked(pgd, UnmapAll(U), "AVAILABLE")
  BY <1>1, FreeMarks
<1>3. Typed(regions \ U) /\ Separate(regions \ U)
  BY DEF Owned, Typed, Separate
<1>4. \A x \in regions \ U : \A p \in Pages(x) : p \notin UnmapAll(U)
  BY <1>1, OwnedDisjoint
<1>5. Owned(regions \ U, Marked(pgd, UnmapAll(U), "AVAILABLE"))
  BY <1>3, <1>4, OwnedAfterFree
<1> QED
  BY <1>2, <1>5

\* Trimming the end of a region and releasing others.
LEMMA TrimOwned ==
  ASSUME Owned(regions, pgd), NEW r \in regions, NEW n \in Nat \ {0}, n < r.size,
         NEW U, U \subseteq regions \ {r}, NEW k \in Kinds,
         FreePages(Munmap(r.base + (r.size - n), n) \cup UnmapAll(U)),
         regions' = (regions \ ({r} \cup U)) \cup {Region(k, r.base, r.size - n)}
  PROVE  /\ Owned(regions', pgd') /\ phase' = phase
         /\ pgd' = Marked(pgd, Munmap(r.base + (r.size - n), n) \cup UnmapAll(U), "AVAILABLE")
<1> DEFINE x == Region(k, r.base, r.size - n)
           T == Munmap(r.base + (r.size - n), n)
           S == T \cup UnmapAll(U)
           N == (regions \ ({r} \cup U)) \cup {x}
<1>1. IsRegion(r) /\ r.base \in Nat /\ r.size \in Nat \ {0}
  BY DEF Owned, Typed, IsRegion
<1>2. IsRegion(x) /\ x.base = r.base /\ x.size = r.size - n
  BY <1>1, RegionFields
<1>3. \A p \in T : p \in Pages(r) /\ p \notin Pages(x)
  <2>1. T \subseteq r.base + (r.size - n) .. r.base + (r.size - n) + n - 1
    BY <1>1, MunmapWithin
  <2> HIDE DEF T, x
  <2> QED
    BY <1>1, <1>2, <2>1 DEF Pages
<1>4. \A p \in Pages(x) : p \in Pages(r)
  BY <1>1, <1>2 DEF Pages
<1>5. \A p \in UnmapAll(U) : \E u \in U : p \in Pages(u)
  BY UnmapAllWithin DEF Owned
<1> HIDE DEF T, x
<1>6. \A p \in S : \E s \in regions : p \in Pages(s)
  BY <1>3, <1>5
<1>7. phase' = phase /\ pgd' = Marked(pgd, S, "AVAILABLE")
  BY <1>6, FreeMarks DEF T
<1>8. Typed(N)
  BY <1>2 DEF Owned, Typed
<1>9. Separate(N)
  <2>1. \A s \in regions \ {r} : s.base \in Nat /\ s.size \in Nat \ {0} /\ Apart(r, s)
    BY DEF Owned, Typed, Separate, IsRegion
  <2>2. \A s \in regions \ {r} : Apart(x, s) /\ Apart(s, x)
    BY <1>1, <1>2, <2>1 DEF Apart
  <2> QED
    BY <2>2 DEF Owned, Separate
<1>10. ASSUME NEW y \in N, NEW p \in Pages(y)
       PROVE  p \notin S /\ \E s \in regions : p \in Pages(s)
  <2>1. CASE y = x
    <3>1. p \in Pages(r) /\ p \notin T
      BY <1>3, <1>4, <1>10, <2>1
    <3>2. p \notin UnmapAll(U)
      BY <1>5, <3>1, OwnedDisjoint
    <3> QED
      BY <3>1, <3>2
  <2>2. CASE y \in regions \ ({r} \cup U)
    <3>1. p \notin T
      BY <1>3, <1>10, <2>2, OwnedDisjoint
    <3>2. p \notin UnmapAll(U)
      BY <1>5, <1>10, <2>2, OwnedDisjoint
    <3> QED
      BY <1>10, <2>2, <3>1, <3>2
  <2> QED
    BY <2>1, <2>2
<1>11. Owned(N, Marked(pgd, S, "AVAILABLE"))
  <2> HIDE DEF N, S
  <2> QED
    BY <1>8, <1>9, <1>10, OwnedAfterFree
<1> QED
  BY <1>7, <1>11 DEF x, T

-----------------------------------------------------------------------------
(* The theorems.                                                            *)

\* The inductive invariant.
IInv == TypeOK /\ RegionsOwned /\ AssertionsHold

\* The part of the invariant that is about pages and regions.
Sound(d, R) == d \in [Frames -> Types] /\ Owned(R, d)

Parts ==
  /\ Sound(pgd, regions)
  /\ phase \in {"boot", "up", "failed", "halted"}
  /\ bootmap \in Seq(Entries) /\ blocks \in Seq(Entries)
  /\ lastPfn \in Nat /\ nrPages \in Nat
  /\ outcome \in {"none", "pages", "fault"}
  /\ (phase = "halted" => outcome = "fault")

\* The invariant in terms of intervals.
LEMMA IInvSplit == IInv <=> Parts
<1>1. Typed(regions) <=> \A r \in regions :
                            /\ r = Region(r.kind, r.base, r.size)
                            /\ r.kind \in Kinds /\ r.base \in Nat /\ r.size \in Nat \ {0}
  BY DEF Typed, IsRegion
<1>2. Typed(regions) => (RegionsOwned <=> Separate(regions) /\ Held(regions, pgd))
  BY OwnedIff
<1> QED
  BY <1>1, <1>2 DEF IInv, Parts, TypeOK, AssertionsHold, Sound, Owned

\* The same of the next state.
LEMMA IInvSplitNext == IInv' <=> Parts'
BY IInvSplit, PTL

\* Marking keeps the types of descriptors.
LEMMA MarkedType ==
  ASSUME NEW d \in [Frames -> Types], NEW S, NEW t \in Types
  PROVE  Marked(d, S, t) \in [Frames -> Types]
BY DEF Marked

\* An allocation for a request keeps pages and regions sound, whichever of the
\* three clients makes it.
LEMMA AllocSound ==
  ASSUME IInv, NEW n \in Requests, NEW b \in 0 .. nrPages - 1,
         Alloc(pgd, nrPages, RoundUp(n), b),
         \/ regions' = regions \cup {Region("vma", b, RoundUp(n))}
         \/ regions' = regions \cup {Region("chunk", b, n)}
         \/ regions' = Extended(b, n)
  PROVE  Sound(pgd', regions')
<1>1. RoundUp(n) \in Nat \ {0} /\ n \in Nat \ {0} /\ n <= RoundUp(n) /\ RoundUp(n) <= RoundUp(n)
  BY RoundUpAbove
<1>2. nrPages \in Nat /\ b \in Nat /\ pgd \in [Frames -> Types] /\ Owned(regions, pgd)
  BY IInvSplit DEF Parts, Sound
<1>3. \A p \in b .. b + RoundUp(n) - 1 : p \in Frames /\ pgd[p] = "AVAILABLE"
  BY <1>1, <1>2, FoundIsAvailable DEF Alloc
<1>4. pgd' = Marked(pgd, b .. b + RoundUp(n) - 1, "ALLOCATED") /\ pgd' \in [Frames -> Types]
  BY <1>2, MarkedType DEF Alloc, Types
<1>5. "vma" \in Kinds /\ "chunk" \in Kinds
  BY DEF Kinds
<1>6. CASE regions' = regions \cup {Region("vma", b, RoundUp(n))}
  <2>1. Owned(regions \cup {Region("vma", b, RoundUp(n))},
              Marked(pgd, b .. b + RoundUp(n) - 1, "ALLOCATED"))
    BY <1>1, <1>2, <1>3, <1>5, AddRegion
  <2> QED
    BY <1>4, <1>6, <2>1 DEF Sound
<1>7. CASE regions' = regions \cup {Region("chunk", b, n)}
  <2>1. Owned(regions \cup {Region("chunk", b, n)},
              Marked(pgd, b .. b + RoundUp(n) - 1, "ALLOCATED"))
    BY <1>1, <1>2, <1>3, <1>5, AddRegion
  <2> QED
    BY <1>4, <1>7, <2>1 DEF Sound
<1>8. CASE regions' = Extended(b, n)
  <2>1. Owned(Extended(b, n), Marked(pgd, b .. b + RoundUp(n) - 1, "ALLOCATED"))
    BY <1>1, <1>2, <1>3, ExtendedOwned
  <2> QED
    BY <1>4, <1>8, <2>1 DEF Sound
<1> QED
  BY <1>6, <1>7, <1>8

\* Clients that ask for pages keep the invariant.
LEMMA AllocStep ==
  ASSUME IInv, NEW n \in Requests, AllocatePhys(n) \/ MmapAlloc(n) \/ SysAlloc(n)
  PROVE  IInv'
<1>1. UNCHANGED <<bootmap, blocks, lastPfn, nrPages>> /\ phase = "up"
  BY DEF AllocatePhys, MmapAlloc, SysAlloc
<1>2. CASE AllocFails(RoundUp(n))
  <2>1. UNCHANGED <<pgd, regions>> /\ outcome' = "fault" /\ phase' \in {"up", "halted"}
    BY <1>2 DEF AllocFails
  <2> QED
    BY <1>1, <2>1, IInvSplit, IInvSplitNext DEF Parts
<1>3. CASE ~AllocFails(RoundUp(n))
  <2>1. phase' = phase
    BY <1>3 DEF AllocatePhys, MmapAlloc, SysAlloc
  <2>2. PICK b \in 0 .. nrPages - 1 :
          /\ Alloc(pgd, nrPages, RoundUp(n), b)
          /\ \/ regions' = regions \cup {Region("vma", b, RoundUp(n))}
             \/ regions' = regions \cup {Region("chunk", b, n)}
             \/ regions' = Extended(b, n)
    BY <1>3 DEF AllocatePhys, MmapAlloc, SysAlloc
  <2>3. Sound(pgd', regions') /\ outcome' = "pages"
    BY <2>2, AllocSound DEF Alloc
  <2> QED
    BY <1>1, <2>1, <2>3, IInvSplit, IInvSplitNext DEF Parts
<1> QED
  BY <1>2, <1>3

\* Clients that return pages keep the invariant.
LEMMA FreeStep ==
  ASSUME IInv,
         \/ \E r \in regions : FreeChunk(r)
         \/ \E U \in Unused : ReleaseUnusedSegments(U)
         \/ \E n \in Requests, r \in regions, U \in Unused : SysTrim(r, n, U)
  PROVE  IInv'
<1>1. UNCHANGED <<bootmap, blocks, lastPfn, nrPages, outcome>>
  BY DEF FreeChunk, ReleaseUnusedSegments, SysTrim
<1>2. pgd \in [Frames -> Types] /\ Owned(regions, pgd)
  BY IInvSplit DEF Parts, Sound
<1>3. \A S : Marked(pgd, S, "AVAILABLE") \in [Frames -> Types]
  BY <1>2, MarkedType DEF Types
<1>4. Sound(pgd', regions') /\ phase' = phase
  <2>1. CASE \E r \in regions : FreeChunk(r)
    <3>1. PICK r \in regions : FreeChunk(r)
      BY <2>1
    <3>2. UnmapAll({r}) = Munmap(r.base, r.size)
      BY DEF UnmapAll
    <3>3. {r} \subseteq regions /\ FreePages(UnmapAll({r})) /\ regions' = regions \ {r}
      BY <3>1, <3>2 DEF FreeChunk
    <3> QED
      BY <1>2, <1>3, <3>3, ReleaseOwned DEF Sound
  <2>2. CASE \E U \in Unused : ReleaseUnusedSegments(U)
    <3>1. PICK U \in Unused : ReleaseUnusedSegments(U)
      BY <2>2
    <3>2. U \subseteq regions
      BY <3>1 DEF Unused
    <3> QED
      BY <1>2, <1>3, <3>1, <3>2, ReleaseOwned DEF Sound, ReleaseUnusedSegments
  <2>3. CASE \E n \in Requests, r \in regions, U \in Unused : SysTrim(r, n, U)
    <3>1. PICK n \in Requests, r \in regions, U \in Unused : SysTrim(r, n, U)
      BY <2>3
    <3>2. n \in Nat \ {0} /\ n < r.size
      BY <3>1, BlockAssumption DEF SysTrim
    <3>3. U \subseteq regions \ {r} /\ "top" \in Kinds
      BY <3>1 DEF SysTrim, Unused, Kinds
    <3>4. /\ FreePages(Munmap(r.base + (r.size - n), n) \cup UnmapAll(U))
          /\ regions' = (regions \ ({r} \cup U)) \cup {Region("top", r.base, r.size - n)}
      BY <3>1 DEF SysTrim
    <3>5. /\ Owned(regions', pgd') /\ phase' = phase
          /\ pgd' = Marked(pgd, Munmap(r.base + (r.size - n), n) \cup UnmapAll(U), "AVAILABLE")
      BY <1>2, <3>2, <3>3, <3>4, TrimOwned
    <3> QED
      BY <1>3, <3>5 DEF Sound
  <2> QED
    BY <2>1, <2>2, <2>3
<1> QED
  BY <1>1, <1>4, IInvSplit, IInvSplitNext DEF Parts

\* Reading the memory map keeps the invariant.
LEMMA BootStep ==
  ASSUME IInv, AddPhysicalMemory
  PROVE  IInv'
<1> DEFINE entry == Head(bootmap)
<1>1. Parts
  BY IInvSplit
<1>2. bootmap # <<>> /\ entry \in Entries /\ Tail(bootmap) \in Seq(Entries)
  BY <1>1, HeadTailProperties DEF AddPhysicalMemory, Parts
<1>3. blocks' \in Seq(Entries)
  BY <1>1, <1>2, AppendProperties DEF AddPhysicalMemory, Parts
<1>4. lastPfn' \in Nat
  <2>1. entry.base \in Nat /\ entry.nr \in Nat
    BY <1>2, MemoryAssumption DEF Entries, Frames
  <2>2. SizeInPages(entry.nr) \in Nat
    BY <2>1, MemoryAssumption DEF SizeInPages
  <2>3. lastPfn' = lastPfn \/ (lastPfn' = (entry.base + SizeInPages(entry.nr)) - 1 /\ lastPfn' > lastPfn)
    BY DEF AddPhysicalMemory
  <2> HIDE DEF entry
  <2> QED
    BY <1>1, <2>1, <2>2, <2>3 DEF Parts
<1>5. bootmap' = Tail(bootmap) /\ UNCHANGED <<phase, nrPages, pgd, regions, outcome>>
  BY DEF AddPhysicalMemory
<1> QED
  BY <1>1, <1>2, <1>3, <1>4, <1>5, IInvSplitNext DEF Parts

\* So does setting up the descriptors and the kernel's page tables.
LEMMA SetupStep ==
  ASSUME IInv, InitialiseAllocators
  PROVE  IInv'
<1> DEFINE d == InitialTypes(lastPfn + 1)
<1>1. Parts /\ pgd \in [Frames -> Types]
  BY IInvSplit DEF Parts, Sound
<1>2. nrPages' = lastPfn + 1 /\ UNCHANGED <<bootmap, blocks, lastPfn>>
  BY DEF InitialiseAllocators
<1>3. d \in [Frames -> Types]
  BY <1>1 DEF InitialTypes, Types
<1> DEFINE none == {}
<1>4. Owned(none, d) /\ PgtBlock \in Nat \ {0} /\ PgtBlock <= PgtBlock /\ "pgt" \in Kinds
  BY BlockAssumption DEF Owned, Typed, Separate, Held, Kinds
<1> HIDE DEF d, none
<1>5. CASE UNCHANGED <<pgd, regions, outcome>> /\ phase' = "failed"
  BY <1>1, <1>2, <1>5, IInvSplitNext DEF Parts
<1>6. CASE phase' = "halted" /\ outcome' = "fault" /\ pgd' = d /\ regions' = {}
  BY <1>1, <1>2, <1>3, <1>4, <1>6, IInvSplitNext DEF Parts, Sound, none
<1>7. CASE /\ phase' = "up"
           /\ \E b \in 0 .. lastPfn : /\ Alloc(d, lastPfn + 1, PgtBlock, b)
                                       /\ regions' = {Region("pgt", b, PgtBlock)}
  <2>1. PICK b \in 0 .. lastPfn : /\ Alloc(d, lastPfn + 1, PgtBlock, b)
                                  /\ regions' = {Region("pgt", b, PgtBlock)}
    BY <1>7
  <2>2. lastPfn + 1 \in Nat /\ b \in Nat /\ b \in 0 .. (lastPfn + 1) - 1
    BY <1>1 DEF Parts
  <2>3. \A p \in b .. b + PgtBlock - 1 : p \in Frames /\ d[p] = "AVAILABLE"
    BY <1>4, <2>1, <2>2, FoundIsAvailable DEF Alloc
  <2>4. Owned(none \cup {Region("pgt", b, PgtBlock)}, Marked(d, b .. b + PgtBlock - 1, "ALLOCATED"))
    BY <1>4, <2>2, <2>3, AddRegion
  <2>5. pgd' = Marked(d, b .. b + PgtBlock - 1, "ALLOCATED") /\ pgd' \in [Frames -> Types]
    BY <1>3, <2>1, MarkedType DEF Alloc, Types
  <2>6. regions' = none \cup {Region("pgt", b, PgtBlock)} /\ outcome' = "pages"
    BY <2>1 DEF Alloc, none
  <2>7. Sound(pgd', regions')
    BY <2>4, <2>5, <2>6 DEF Sound
  <2> QED
    BY <1>1, <1>2, <1>7, <2>6, <2>7, IInvSplitNext DEF Parts
<1> QED
  BY <1>5, <1>6, <1>7 DEF InitialiseAllocators, d

\* The invariant holds when the boot loader hands over.
LEMMA InitIInv == Init => IInv
<1> SUFFICES ASSUME Init PROVE IInv
  OBVIOUS
<1>1. pgd \in [Frames -> Types] /\ regions = {} /\ bootmap \in Seq(Entries)
  BY MemoryAssumption DEF Init
<1>2. Sound(pgd, regions)
  BY <1>1 DEF Sound, Owned, Typed, Separate, Held
<1> QED
  BY <1>1, <1>2, IInvSplit, EmptySeq DEF Init, Parts

\* Every step keeps it.
LEMMA NextIInv == IInv /\ [Next]_vars => IInv'
<1> SUFFICES ASSUME IInv, [Next]_vars PROVE IInv'
  OBVIOUS
<1>1. CASE Next
  BY <1>1, AllocStep, FreeStep, BootStep, SetupStep DEF Next
<1>2. CASE UNCHANGED vars
  BY <1>2, IInvSplit, IInvSplitNext DEF Parts, vars
<1> QED
  BY <1>1, <1>2

\* No page of memory ever has two owners: whatever the memory map and the
\* requests, mapping, merging, trimming and releasing keep the regions of the
\* clients disjoint and marked as allocated.
THEOREM NoPageShared == Spec => []RegionsOwned
<1>1. Spec => []IInv
  BY InitIInv, NextIInv, PTL DEF Spec
<1>2. IInv => RegionsOwned
  BY DEF IInv
<1> QED
  BY <1>1, <1>2, PTL

\* The assertions of free_pages never fail.
THEOREM FreesAreSound == Spec => []AssertionsHold
<1>1. Spec => []IInv
  BY InitIInv, NextIInv, PTL DEF Spec
<1>2. IInv => AssertionsHold
  BY DEF IInv
<1> QED
  BY <1>1, <1>2, PTL
=============================================================================
