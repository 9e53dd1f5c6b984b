-------------------------- MODULE DemoReadsProofs --------------------------
(***************************************************************************)
(* Theorems about the listings of DemoReads, for every size of a page,     *)
(* every set of readers and whatever is written between two pages.         *)
(***************************************************************************)
EXTENDS DemoReads, DemoModelProofs

-----------------------------------------------------------------------------
(* The order in which rows are listed is a strict order of all the rows.   *)

LEMMA DigitsOf ==
  ASSUME NEW k \in Nat, k >= Radix
  PROVE  \E first, second \in Nat :
           /\ k = first * Radix + second /\ second < Radix
           /\ VersionRank(k) = first * (Radix + 1) + second
<1>1. Radix \in Nat /\ Radix > 1
  BY ReadsAssumption
<1>2. k \div Radix \in Nat /\ k % Radix \in Nat /\ k % Radix < Radix
  BY <1>1
<1>3. k = (k \div Radix) * Radix + (k % Radix)
  BY <1>1
<1>4. VersionRank(k) = (k \div Radix) * (Radix + 1) + (k % Radix)
  BY <1>1 DEF VersionRank
<1>. QED  BY <1>2, <1>3, <1>4

(* Multiples of a number that differ, differ by that number at least.      *)
LEMMA DigitsApart ==
  ASSUME NEW a \in Nat, NEW b \in Nat, NEW s \in Nat, NEW t \in Nat, NEW base \in Nat,
         s < base, t < base, a * base + s = b * base + t
  PROVE  a = b /\ s = t
<1>1. ASSUME NEW m \in Nat, NEW n \in Nat, m < n
      PROVE  m * base + base <= n * base
  <2>1. PICK d \in Nat : n = m + 1 + d
    BY <1>1, n - m - 1 \in Nat
  <2>2. n * base = m * base + base + d * base
    BY <2>1
  <2>3. d * base >= 0 /\ m * base \in Nat
    OBVIOUS
  <2>. QED  BY <2>2, <2>3
<1>2. a * base \in Nat /\ b * base \in Nat
  OBVIOUS
<1>3. ~(a < b)
  <2>1. SUFFICES ASSUME a < b PROVE FALSE
    OBVIOUS
  <2>2. a * base + base <= b * base
    BY <1>1, <2>1
  <2>. QED  BY <1>2, <2>2
<1>4. ~(b < a)
  <2>1. SUFFICES ASSUME b < a PROVE FALSE
    OBVIOUS
  <2>2. b * base + base <= a * base
    BY <1>1, <2>1
  <2>. QED  BY <1>2, <2>2
<1>. QED  BY <1>2, <1>3, <1>4

(* Two versions are written with different strings.                        *)
LEMMA RanksDiffer ==
  ASSUME NEW k \in Nat, NEW m \in Nat, VersionRank(k) = VersionRank(m)
  PROVE  k = m /\ VersionRank(k) \in Nat
<1>1. Radix \in Nat /\ Radix > 1
  BY ReadsAssumption
<1>2. \A n \in Nat : n < Radix =>
        VersionRank(n) = n * (Radix + 1) + Radix
  BY DEF VersionRank
<1>3. \A n \in Nat : \E first, second \in Nat :
        /\ VersionRank(n) = first * (Radix + 1) + second /\ second < Radix + 1
        /\ second = Radix => n = first
        /\ second # Radix => n = first * Radix + second
  <2> TAKE n \in Nat
  <2>1. CASE n < Radix
    <3>. Radix \in Nat
      BY <1>1
    <3> WITNESS n \in Nat, Radix \in Nat
    <3>. QED  BY <1>1, <1>2, <2>1
  <2>2. CASE n >= Radix
    <3>1. PICK first \in Nat, second \in Nat :
            /\ n = first * Radix + second /\ second < Radix
            /\ VersionRank(n) = first * (Radix + 1) + second
      BY <2>2, DigitsOf
    <3>2. second < Radix + 1 /\ second # Radix
      BY <1>1, <3>1
    <3>. QED  BY <3>1, <3>2
  <2>. QED  BY <1>1, <2>1, <2>2
<1>4. PICK a \in Nat, s \in Nat :
        /\ VersionRank(k) = a * (Radix + 1) + s /\ s < Radix + 1
        /\ s = Radix => k = a
        /\ s # Radix => k = a * Radix + s
  BY <1>3
<1>5. PICK b \in Nat, t \in Nat :
        /\ VersionRank(m) = b * (Radix + 1) + t /\ t < Radix + 1
        /\ t = Radix => m = b
        /\ t # Radix => m = b * Radix + t
  BY <1>3
<1>6. Radix + 1 \in Nat
  BY <1>1
<1> DEFINE base == Radix + 1
<1>7. a * base + s = b * base + t /\ s < base /\ t < base /\ base \in Nat
  BY <1>4, <1>5, <1>6
<1> HIDE DEF base
<1>8. a = b /\ s = t
  BY <1>7, DigitsApart
<1>9. a * base + s \in Nat
  BY <1>7
<1>. QED  BY <1>4, <1>5, <1>8, <1>9 DEF base

LEMMA RankType ==
  ASSUME NEW k \in Nat
  PROVE  VersionRank(k) \in Nat
BY RanksDiffer

LEMMA ListedStrictly ==
  ASSUME NEW e \in EntityIds
  PROVE  ~ListedBefore(e, e)
<1>1. e[1] \in Nat /\ e[2] \in Ids /\ IdOrder[e[2]] \in Nat /\ VersionRank(e[1]) \in Nat
  BY RankType, ReadsAssumption DEF EntityIds
<1>. QED  BY <1>1 DEF ListedBefore

LEMMA ListedInTurn ==
  ASSUME NEW e \in EntityIds, NEW f \in EntityIds, NEW g \in EntityIds,
         ListedBefore(e, f), ListedBefore(f, g)
  PROVE  ListedBefore(e, g)
<1>1. \A h \in EntityIds :
        h[1] \in Nat /\ h[2] \in Ids /\ IdOrder[h[2]] \in Nat /\ VersionRank(h[1]) \in Nat
  BY RankType, ReadsAssumption DEF EntityIds
<1>. QED  BY <1>1 DEF ListedBefore

LEMMA ListedEitherWay ==
  ASSUME NEW e \in EntityIds, NEW f \in EntityIds, e # f
  PROVE  ListedBefore(e, f) \/ ListedBefore(f, e)
<1>1. \A h \in EntityIds :
        /\ h[1] \in Nat /\ h[2] \in Ids /\ IdOrder[h[2]] \in Nat
        /\ VersionRank(h[1]) \in Nat /\ h = <<h[1], h[2]>>
  BY RankType, ReadsAssumption DEF EntityIds
<1>2. CASE e[1] # f[1]
  <2>1. VersionRank(e[1]) # VersionRank(f[1])
    BY <1>1, <1>2, RanksDiffer
  <2>. QED  BY <1>1, <2>1 DEF ListedBefore
<1>3. CASE e[1] = f[1]
  <2>1. e[2] # f[2]
    BY <1>1, <1>3
  <2>2. IdOrder[e[2]] # IdOrder[f[2]]
    BY <1>1, <2>1, ReadsAssumption
  <2>. QED  BY <1>1, <1>3, <2>2 DEF ListedBefore
<1>. QED  BY <1>2, <1>3

-----------------------------------------------------------------------------
(* The rows listed so far.                                                 *)

Listed(rows, last) == last = IF rows = <<>> THEN None ELSE rows[Len(rows)]

InOrder(rows) == \A i, j \in DOMAIN rows : i < j => ListedBefore(rows[i], rows[j])

Listing == [list : Listings \cup {None}, loop : BOOLEAN, pc : {"idle", "page", "done"},
            last : EntityIds \cup {None}, rows : Seq(EntityIds), steady : SUBSET EntityIds]

(* The rows of a list of a user or of a user and a status.                 *)
OfUser(list) == list.by \in {"user", "userStatus"}

(* The inductive invariant: the rows so far are in order and last is the   *)
(* key of the last of them; a row that matched all the time is among them  *)
(* or comes after last, so that the next request still finds it; and once  *)
(* a loop has ended none comes after.                                      *)
ReaderInv(c) ==
  /\ c \in Listing
  /\ c.pc # "idle" => c.list \in Listings
  /\ Listed(c.rows, c.last)
  /\ InOrder(c.rows)
  /\ c.pc = "page" =>
       c.steady \subseteq Matching(c.list, table) /\ c.steady \subseteq F!Range(c.rows) \cup Rest(c)
  /\ c.pc = "done" /\ c.loop => c.steady \subseteq F!Range(c.rows)
  /\ c.list # None /\ OfUser(c.list) => \A i \in DOMAIN c.rows : c.rows[i][1] = 0

ReadsInv == reader \in [Readers -> Listing] /\ \A r \in Readers : ReaderInv(reader[r])

LEMMA ReadsInvInit == ReadsInit => ReadsInv
<1> SUFFICES ASSUME ReadsInit PROVE ReadsInv
  OBVIOUS
<1>1. NoListing \in Listing
  BY DEF NoListing, Listing
<1>2. ReaderInv(NoListing)
  BY <1>1 DEF ReaderInv, NoListing, Listed, InOrder
<1>. QED  BY <1>1, <1>2 DEF ReadsInit, ReadsInv

LEMMA MatchingType ==
  ASSUME TypeInv, NEW list
  PROVE  Matching(list, table) \subseteq EntityIds
BY DEF Matching, TypeInv, TypeOK

(* A reader that starts.                                                   *)
LEMMA StartReader ==
  ASSUME TypeInv, NEW list \in Listings, NEW loop \in BOOLEAN
  PROVE  ReaderInv([NoListing EXCEPT !.list = list, !.loop = loop, !.pc = "page",
                                     !.steady = Matching(list, table)])
<1> DEFINE c == [NoListing EXCEPT !.list = list, !.loop = loop, !.pc = "page",
                                  !.steady = Matching(list, table)]
<1> DEFINE rows == Matching(list, table)
<1>1. rows \in SUBSET EntityIds /\ rows = Matching(list, table)
  BY MatchingType
<1>2. c.pc = "page" /\ c.list = list /\ c.last = None /\ c.rows = <<>> /\ c.steady = rows
  BY DEF NoListing
<1>3. Rest(c) = rows
  BY <1>2 DEF Rest
<1> HIDE DEF rows
<1>4. c \in Listing
  <2>1. <<>> \in Seq(EntityIds)
    OBVIOUS
  <2>. QED  BY <1>1, <2>1 DEF NoListing, Listing
<1> HIDE DEF c
<1>5. DOMAIN c.rows = {}
  BY <1>2
<1>6. Listed(c.rows, c.last) /\ InOrder(c.rows)
  BY <1>2, <1>5 DEF Listed, InOrder
<1>7. c.steady \subseteq Matching(c.list, table) /\ c.steady \subseteq F!Range(c.rows) \cup Rest(c)
  BY <1>2, <1>3 DEF rows
<1>. QED  BY <1>2, <1>4, <1>5, <1>6, <1>7 DEF ReaderInv, c

(* A row that matches and is a latest copy, for the lists of a user.       *)
LEMMA MatchesLatest ==
  ASSUME NEW list, OfUser(list), NEW e \in Matching(list, table)
  PROVE  e[1] = 0
BY DEF OfUser, Matching, Matches

(* Rows that go on after others.                                           *)
LEMMA AppendInOrder ==
  ASSUME NEW rows \in Seq(EntityIds), NEW page \in Seq(EntityIds),
         InOrder(rows), InOrder(page),
         \A i \in DOMAIN rows, j \in DOMAIN page : ListedBefore(rows[i], page[j])
  PROVE  InOrder(rows \o page)
<1> DEFINE all == rows \o page
<1>1. /\ all \in Seq(EntityIds) /\ Len(all) = Len(rows) + Len(page)
      /\ \A i \in 1..Len(all) :
           all[i] = IF i <= Len(rows) THEN rows[i] ELSE page[i - Len(rows)]
  OBVIOUS
<1> SUFFICES ASSUME NEW i \in 1..Len(all), NEW j \in 1..Len(all), i < j
             PROVE  ListedBefore(all[i], all[j])
  BY <1>1 DEF InOrder
<1>2. Len(rows) \in Nat /\ Len(page) \in Nat
      /\ DOMAIN rows = 1..Len(rows) /\ DOMAIN page = 1..Len(page)
  OBVIOUS
<1> HIDE DEF all
<1>3. CASE j <= Len(rows)
  <2>1. i \in DOMAIN rows /\ j \in DOMAIN rows /\ i <= Len(rows)
    BY <1>1, <1>2, <1>3
  <2>2. ListedBefore(rows[i], rows[j])
    BY <2>1 DEF InOrder
  <2>. QED  BY <1>1, <1>3, <2>1, <2>2
<1>4. CASE i <= Len(rows) /\ j > Len(rows)
  <2>1. j - Len(rows) \in DOMAIN page /\ i \in DOMAIN rows
    BY <1>1, <1>2, <1>4
  <2>2. all[i] = rows[i] /\ all[j] = page[j - Len(rows)]
    BY <1>1, <1>2, <1>4
  <2>. QED  BY <2>1, <2>2
<1>5. CASE i > Len(rows)
  <2>1. /\ i - Len(rows) \in DOMAIN page /\ j - Len(rows) \in DOMAIN page
        /\ i - Len(rows) < j - Len(rows)
    BY <1>1, <1>2, <1>5
  <2>2. ListedBefore(page[i - Len(rows)], page[j - Len(rows)])
    BY <2>1 DEF InOrder
  <2>. QED  BY <1>1, <1>2, <1>5, <2>2
<1>. QED  BY <1>2, <1>3, <1>4, <1>5

LEMMA AppendRange ==
  ASSUME NEW rows \in Seq(EntityIds), NEW page \in Seq(EntityIds)
  PROVE  F!Range(rows \o page) = F!Range(rows) \cup F!Range(page)
<1> DEFINE all == rows \o page
<1>1. /\ DOMAIN all = 1..(Len(rows) + Len(page)) /\ Len(rows) \in Nat /\ Len(page) \in Nat
      /\ DOMAIN rows = 1..Len(rows) /\ DOMAIN page = 1..Len(page)
      /\ \A i \in 1..(Len(rows) + Len(page)) :
           all[i] = IF i <= Len(rows) THEN rows[i] ELSE page[i - Len(rows)]
  OBVIOUS
<1> HIDE DEF all
<1>2. \A i \in DOMAIN all : all[i] \in F!Range(rows) \cup F!Range(page)
  <2> SUFFICES ASSUME NEW i \in DOMAIN all
               PROVE  all[i] \in F!Range(rows) \cup F!Range(page)
    OBVIOUS
  <2>1. CASE i <= Len(rows)
    BY <1>1, <2>1 DEF F!Range
  <2>2. CASE i > Len(rows)
    <3>1. i - Len(rows) \in DOMAIN page /\ all[i] = page[i - Len(rows)]
      BY <1>1, <2>2
    <3>. QED  BY <3>1 DEF F!Range
  <2>3. i \in Nat
    BY <1>1
  <2>. QED  BY <1>1, <2>1, <2>2, <2>3
<1>3. \A i \in DOMAIN rows : i \in DOMAIN all /\ all[i] = rows[i]
  BY <1>1
<1>4. \A j \in DOMAIN page : j + Len(rows) \in DOMAIN all /\ all[j + Len(rows)] = page[j]
  BY <1>1
<1>5. F!Range(rows) \cup F!Range(page) \subseteq F!Range(all)
  BY <1>3, <1>4, Zenon DEF F!Range
<1>6. F!Range(all) \subseteq F!Range(rows) \cup F!Range(page)
  BY <1>2, Zenon DEF F!Range
<1>. QED  BY <1>5, <1>6 DEF all

-----------------------------------------------------------------------------
(* The steps.                                                              *)

(* A step that leaves the table as it is.                                  *)
LEMMA SameTable ==
  ASSUME table' = table, reader' \in [Readers -> Listing],
         \A r \in Readers : ReaderInv(reader'[r])
  PROVE  ReadsInv'
<1>1. \A r \in Readers : ReaderInv(reader[r])'
  BY DEF ReaderInv, Matching, Rest
<1>. QED  BY <1>1 DEF ReadsInv

(* A page that is read.                                                    *)
LEMMA PageRead ==
  ASSUME TypeInv, ReadsInv, NEW r \in Readers, ReadPage(r)
  PROVE  ReadsInv'
<1> DEFINE c == reader[r]
           rest == Rest(c)
<1>1. /\ c \in Listing /\ c.pc = "page" /\ c.list \in Listings
      /\ Listed(c.rows, c.last) /\ InOrder(c.rows)
      /\ c.steady \subseteq Matching(c.list, table)
      /\ c.steady \subseteq F!Range(c.rows) \cup rest
      /\ OfUser(c.list) => \A i \in DOMAIN c.rows : c.rows[i][1] = 0
  <2>1. ReaderInv(c) /\ c.pc = "page"
    BY DEF ReadPage, ReadsInv
  <2>2. None \notin Listings
    BY ReadsAssumption
  <2>. QED  BY <2>1, <2>2 DEF ReaderInv
<1>2. rest \subseteq EntityIds /\ rest \subseteq Matching(c.list, table)
  BY MatchingType DEF Rest
<1>2a. PICK page \in Pages(rest) : \E more \in MoreAfter(page, rest) :
        reader' = [reader EXCEPT
          ![r].rows = @ \o page,
          ![r].last = IF page = <<>> THEN @ ELSE page[Len(page)],
          ![r].pc = IF GoesOn(c, more) THEN "page" ELSE "done"]
  BY DEF ReadPage
<1>3. PICK more \in MoreAfter(page, rest) :
        reader' = [reader EXCEPT
          ![r].rows = @ \o page,
          ![r].last = IF page = <<>> THEN @ ELSE page[Len(page)],
          ![r].pc = IF GoesOn(c, more) THEN "page" ELSE "done"]
  BY <1>2a
<1> DEFINE rows == c.rows \o page
           last == IF page = <<>> THEN c.last ELSE page[Len(page)]
           d == [c EXCEPT !.rows = rows, !.last = last,
                          !.pc = IF GoesOn(c, more) THEN "page" ELSE "done"]
<1>4. reader' = [reader EXCEPT ![r] = d]
  BY <1>3
<1>5. page \in Seq(rest) /\ page \in Seq(EntityIds) /\ IsPage(page, rest)
  <2>1. PICK n \in 0..PageSize : page \in [1..n -> rest]
    BY <1>2a DEF Pages
  <2>2. n \in Nat
    BY ReadsAssumption
  <2>3. page \in [1..n -> EntityIds]
    BY <1>2, <2>1
  <2>4. IsPage(page, rest)
    BY <1>2a DEF Pages
  <2>. QED  BY <2>1, <2>2, <2>3, <2>4
<1>6. InOrder(page)
  BY <1>5 DEF IsPage, InOrder
<1> HIDE DEF rows, last, d, rest, c
<1>7. /\ c.rows \in Seq(EntityIds) /\ c.last \in EntityIds \cup {None} /\ c.steady \subseteq EntityIds
      /\ None \notin EntityIds
  BY <1>1, ReadsAssumption DEF Listing
<1>8. /\ rows \in Seq(EntityIds)
      /\ F!Range(rows) = F!Range(c.rows) \cup F!Range(page)
  BY <1>5, <1>7, AppendRange DEF rows
<1>9. \A i \in DOMAIN page : page[i] \in rest
  BY <1>5
<1>10. InOrder(rows)
  <2>1. ASSUME NEW i \in DOMAIN c.rows, NEW j \in DOMAIN page
        PROVE  ListedBefore(c.rows[i], page[j])
    <3>1. c.rows # <<>> /\ Len(c.rows) \in DOMAIN c.rows /\ c.last = c.rows[Len(c.rows)]
      BY <1>1, <1>7, <2>1 DEF Listed
    <3>2. c.last \in EntityIds /\ c.rows[i] \in EntityIds
      BY <1>7, <2>1, <3>1
    <3>3. page[j] \in EntityIds /\ ListedBefore(c.last, page[j])
      BY <1>2, <1>7, <1>9, <2>1, <3>2 DEF Rest, rest
    <3>4. i = Len(c.rows) \/ i < Len(c.rows)
      BY <1>7, <2>1
    <3>5. CASE i < Len(c.rows)
      <4>1. ListedBefore(c.rows[i], c.last)
        BY <1>1, <2>1, <3>1, <3>5 DEF InOrder
      <4>. QED  BY <3>2, <3>3, <4>1, ListedInTurn
    <3>. QED  BY <3>1, <3>3, <3>4, <3>5
  <2>. QED  BY <1>1, <1>5, <1>6, <1>7, <2>1, AppendInOrder DEF rows
<1>11. Listed(rows, last)
  <2>1. CASE page = <<>>
    BY <1>1, <1>7, <2>1 DEF rows, last
  <2>2. CASE page # <<>>
    <3>1. Len(page) \in Nat /\ Len(page) > 0 /\ Len(c.rows) \in Nat
      BY <1>5, <1>7, <2>2
    <3>2. Len(rows) = Len(c.rows) + Len(page) /\ Len(rows) > 0
      BY <1>5, <1>7, <3>1 DEF rows
    <3>3. rows[Len(rows)] = page[Len(page)]
      BY <1>5, <1>7, <3>1, <3>2 DEF rows
    <3>. QED  BY <1>8, <2>2, <3>2, <3>3 DEF Listed, last
  <2>. QED  BY <2>1, <2>2
<1>12. last \in EntityIds \cup {None}
  BY <1>5, <1>7 DEF last
<1>13. OfUser(c.list) => \A i \in DOMAIN rows : rows[i][1] = 0
  <2> SUFFICES ASSUME OfUser(c.list), NEW i \in DOMAIN rows
               PROVE  rows[i][1] = 0
    OBVIOUS
  <2>1. rows[i] \in F!Range(c.rows) \cup F!Range(page)
    BY <1>8, Zenon DEF F!Range
  <2>2. \A e \in F!Range(c.rows) : e[1] = 0
    BY <1>1 DEF F!Range
  <2>3. \A e \in F!Range(page) : e \in Matching(c.list, table)
    BY <1>2, <1>9 DEF F!Range
  <2>. QED  BY <2>1, <2>2, <2>3, MatchesLatest
<1>14. /\ d \in Listing
       /\ d.rows = rows /\ d.last = last /\ d.list = c.list /\ d.steady = c.steady
       /\ d.loop = c.loop /\ d.pc = IF GoesOn(c, more) THEN "page" ELSE "done"
  BY <1>1, <1>8, <1>12 DEF Listing, d
(* What is left for the next request.                                      *)
<1>15. d.pc = "page" => d.steady \subseteq F!Range(rows) \cup Rest(d)
  <2> SUFFICES ASSUME NEW e \in c.steady, e \notin F!Range(rows)
               PROVE  e \in Rest(d)
    BY <1>14
  <2>1. e \in rest \ F!Range(page) /\ e \in Matching(d.list, table)
    BY <1>1, <1>8, <1>14
  <2>2. CASE page = <<>>
    BY <1>14, <2>1, <2>2 DEF Rest, rest, last
  <2>3. CASE page # <<>>
    <3>1. Len(page) \in DOMAIN page
      BY <1>5, <2>3
    <3>2. ListedBefore(page[Len(page)], e)
      BY <1>5, <2>1, <3>1 DEF IsPage
    <3>. QED  BY <1>14, <2>1, <2>3, <3>2 DEF Rest, last
  <2>. QED  BY <2>2, <2>3
(* A loop ends when nothing is left.                                       *)
<1>16. d.pc = "done" /\ d.loop => d.steady \subseteq F!Range(rows)
  <2> SUFFICES ASSUME d.pc = "done", d.loop
               PROVE  rest \subseteq F!Range(page)
    BY <1>1, <1>8, <1>14
  <2>1. more = FALSE
    BY <1>3, <1>14 DEF GoesOn, MoreAfter
  <2>2. rest \ F!Range(page) = {} \/ Len(page) # PageSize
    BY <1>3, <2>1 DEF MoreAfter
  <2>3. CASE Len(page) # PageSize
    <3>1. Len(page) < PageSize
      <4>1. PICK n \in 0..PageSize : page \in [1..n -> rest]
        BY <1>2a DEF Pages
      <4>2. Len(page) = n /\ PageSize \in Nat
        BY <4>1, ReadsAssumption
      <4>. QED  BY <2>3, <4>2
    <3>. QED  BY <1>5, <3>1 DEF IsPage
  <2>. QED  BY <2>2, <2>3
<1>17. ReaderInv(d)
  BY <1>1, <1>10, <1>11, <1>13, <1>14, <1>15, <1>16 DEF ReaderInv
<1>18. \A s \in Readers : ReaderInv(reader'[s])
  BY <1>4, <1>17 DEF ReadsInv
<1>19. reader' \in [Readers -> Listing]
  BY <1>4, <1>14 DEF ReadsInv
<1>20. table' = table
  BY DEF ReadPage, vars
<1>. QED  BY <1>18, <1>19, <1>20, SameTable

(* A reader that starts.                                                   *)
LEMMA ListingStarted ==
  ASSUME TypeInv, ReadsInv, NEW r \in Readers, NEW list \in Listings, NEW loop \in BOOLEAN,
         StartListing(r, list, loop)
  PROVE  ReadsInv'
<1> DEFINE c == [NoListing EXCEPT !.list = list, !.loop = loop, !.pc = "page",
                                  !.steady = Matching(list, table)]
<1>1. ReaderInv(c)
  BY StartReader
<1>2. reader' = [reader EXCEPT ![r] = c] /\ table' = table
  BY DEF StartListing, vars
<1> HIDE DEF c
<1>3. c \in Listing
  BY <1>1 DEF ReaderInv
<1>. QED  BY <1>1, <1>2, <1>3, SameTable DEF ReadsInv

(* A write while others read.                                              *)
LEMMA WrittenMeanwhile ==
  ASSUME TypeInv, ReadsInv, Write
  PROVE  ReadsInv'
<1>1. ASSUME NEW r \in Readers
      PROVE  reader'[r] \in Listing /\ ReaderInv(reader[r])'
  <2> DEFINE c == reader[r]
             kept == IF c.pc = "page" THEN c.steady \cap Matching(c.list, table')
                     ELSE c.steady
             d == [c EXCEPT !.steady = kept]
  <2>1. reader'[r] = d
    BY DEF Write
  <2>2. ReaderInv(c) /\ c \in Listing
    BY DEF ReadsInv, ReaderInv
  <2>3. c.steady \subseteq EntityIds
    BY <2>2 DEF Listing
  <2> HIDE DEF c
  <2>4. /\ d \in Listing /\ d.list = c.list /\ d.loop = c.loop /\ d.pc = c.pc
        /\ d.last = c.last /\ d.rows = c.rows /\ d.steady = kept /\ kept \subseteq c.steady
    BY <2>2, <2>3 DEF Listing
  <2>5. d.pc = "page" => d.steady \subseteq Matching(d.list, table')
    BY <2>4
  <2>6. \A e \in Rest(c) : d.last = None \/ ListedBefore(d.last, e)
    BY <2>4 DEF Rest
  <2>7. d.pc = "page" => d.steady \subseteq F!Range(d.rows) \cup Rest(c)
    BY <2>2, <2>4 DEF ReaderInv
  <2> HIDE DEF d, kept
  <2>8. ASSUME d.pc = "page", NEW e \in d.steady, e \notin F!Range(d.rows)
        PROVE  e \in Matching(d.list, table') /\ (d.last = None \/ ListedBefore(d.last, e))
    <3>1. e \in Rest(c)
      BY <2>7, <2>8
    <3>. QED  BY <2>5, <2>6, <2>8, <3>1
  <2>9. d.pc = "done" /\ d.loop => d.steady \subseteq F!Range(d.rows)
    BY <2>2, <2>4 DEF ReaderInv
  <2>10. /\ d \in Listing /\ (d.pc # "idle" => d.list \in Listings)
         /\ Listed(d.rows, d.last) /\ InOrder(d.rows)
         /\ d.list # None /\ OfUser(d.list) => \A i \in DOMAIN d.rows : d.rows[i][1] = 0
    BY <2>2, <2>4 DEF ReaderInv
  <2>. QED  BY <2>1, <2>5, <2>8, <2>9, <2>10 DEF ReaderInv, Matching, Rest
<1>2. DOMAIN reader' = Readers /\ reader' = [r \in DOMAIN reader' |-> reader'[r]]
  BY DEF Write
<1>. QED  BY <1>1, <1>2 DEF ReadsInv

LEMMA ReadsInvNext == TypeInv /\ ReadsInv /\ [ReadsNext]_readsVars => TypeInv' /\ ReadsInv'
<1> SUFFICES ASSUME TypeInv, ReadsInv, [ReadsNext]_readsVars
             PROVE  TypeInv' /\ ReadsInv'
  OBVIOUS
<1>1. [Next]_vars
  BY DEF ReadsNext, Write, Read, StartListing, ReadPage, readsVars
<1>2. ReadsInv'
  <2>1. CASE UNCHANGED readsVars
    BY <2>1 DEF readsVars, vars, ReadsInv, ReaderInv, Matching, Rest
  <2>. QED  BY <2>1, PageRead, ListingStarted, WrittenMeanwhile DEF ReadsNext, Read
<1>. QED  BY <1>1, <1>2, TypeNext

(* What a loop over pages (queryWithPagination and scanWithPagination,     *)
(* generic.model.ts 28-66) returns has every row that matched from its     *)
(* first page to its last, in the order of the keys and none twice, for    *)
(* every size of a page and whatever the methods of the model write        *)
(* meanwhile, whatever fails.                                              *)
THEOREM LoopsAreComplete == ReadsSpec => []LoopIsComplete
<1>1. ReadsInit => TypeInv
  BY TypeInit DEF ReadsInit
<1>2. ReadsInv => LoopIsComplete
  BY DEF ReadsInv, ReaderInv, InOrder, LoopIsComplete
<1>. QED  BY <1>1, <1>2, ReadsInvInit, ReadsInvNext, PTL DEF ReadsSpec

(* The rows are in a strict order, so the same row is not there twice, and *)
(* those of a user's list are latest copies.                               *)
LEMMA OneRowEach ==
  ASSUME NEW c, ReaderInv(c), c.list # None, OfUser(c.list),
         NEW i \in DOMAIN c.rows, NEW j \in DOMAIN c.rows, c.rows[i][2] = c.rows[j][2]
  PROVE  i = j
<1>1. /\ c.rows \in Seq(EntityIds) /\ InOrder(c.rows)
      /\ c.rows[i][1] = 0 /\ c.rows[j][1] = 0
  BY DEF ReaderInv, Listing
<1>2. i \in Nat /\ j \in Nat /\ c.rows[i] \in EntityIds /\ c.rows[j] \in EntityIds
  BY <1>1
<1>3. c.rows[i] = c.rows[j]
  BY <1>1, <1>2 DEF EntityIds
<1>4. ~ListedBefore(c.rows[i], c.rows[j]) /\ ~ListedBefore(c.rows[j], c.rows[i])
  BY <1>2, <1>3, ListedStrictly
<1>5. ~(i < j) /\ ~(j < i)
  BY <1>1, <1>4 DEF InOrder
<1>. QED  BY <1>2, <1>5

(* The list of the demos of a user (ByUser and ByUserAndStatus indexes)    *)
(* has one row per demo, while updates add versions to them.               *)
THEOREM ListsHaveOneRowPerDemo == ReadsSpec => []OneRowPerDemo
<1>1. ReadsInit => TypeInv
  BY TypeInit DEF ReadsInit
<1>2. ReadsInv => OneRowPerDemo
  <2> SUFFICES ASSUME ReadsInv, NEW r \in Readers, reader[r].list # None,
                      OfUser(reader[r].list),
                      NEW i \in DOMAIN reader[r].rows, NEW j \in DOMAIN reader[r].rows,
                      reader[r].rows[i][2] = reader[r].rows[j][2]
               PROVE  i = j
    BY DEF OneRowPerDemo, OfUser
  <2>1. ReaderInv(reader[r])
    BY DEF ReadsInv
  <2>. QED  BY <2>1, OneRowEach
<1>. QED  BY <1>1, <1>2, ReadsInvInit, ReadsInvNext, PTL DEF ReadsSpec

(* Nothing but the rows changes under the readers: what the theorems about *)
(* DemoModel say holds of a table that is listed too.                      *)
THEOREM ReadersChangeNothing == ReadsSpec => Spec
<1>1. ReadsInit => Init
  BY DEF ReadsInit
<1>2. [ReadsNext]_readsVars => [Next]_vars
  BY DEF ReadsNext, Write, Read, StartListing, ReadPage, readsVars
<1>. QED  BY <1>1, <1>2, PTL DEF ReadsSpec, Spec

=============================================================================
