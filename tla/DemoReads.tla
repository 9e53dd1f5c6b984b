----------------------------- MODULE DemoReads -----------------------------
(***************************************************************************)
(* Reading the demos while others write them: getAll and getAllById of     *)
(* demo.model.ts and the loops over pages of generic.model.ts.             *)
(*                                                                         *)
(* DynamoDB answers a query or a scan with a page of rows in the order of  *)
(* their keys and, when the page is full, with the key to go on from.      *)
(* query and scan ask until there is no such key; getAll and getAllById    *)
(* ask once.  Between two pages others write.  An index is a copy of the   *)
(* table that follows it: what is said here of the table holds of the      *)
(* index that is queried.                                                  *)
(***************************************************************************)
EXTENDS DemoModel, Sequences
F == INSTANCE Functions

CONSTANTS
  Readers,    \* processes that read
  Listings,   \* what they ask for: see Matches
  PageSize,   \* the rows in a page
  IdOrder,    \* IdOrder[id]: the place of id in the order of strings
  Radix       \* 10: the number of digits a version is written with

ASSUME ReadsAssumption ==
  /\ PageSize \in Nat \ {0} /\ Radix \in Nat \ {0, 1}
  /\ MaxVersion < Radix * Radix
  /\ IdOrder \in [Ids -> Nat]
  /\ \A i, j \in Ids : IdOrder[i] = IdOrder[j] => i = j
  /\ \A l \in Listings : l.by \in {"id", "user", "userStatus", "all"}
  /\ None \notin Listings \cup EntityIds

VARIABLE reader   \* reader[r]: the listing that r asks for

readsVars == <<vars, reader>>

(* A listing under way: what it asks for, whether it goes on after a page, *)
(* the last key of the pages so far and the keys of the rows in them.      *)
(* steady is a history variable: the rows that matched all the time since  *)
(* the start.                                                              *)
NoListing == [list |-> None, loop |-> FALSE, pc |-> "idle", last |-> None,
              rows |-> <<>>, steady |-> {}]

ReadsInit == Init /\ reader = [r \in Readers |-> NoListing]

-----------------------------------------------------------------------------
(* The order of the strings v{k}_{id}: digit after digit, where the _ that *)
(* follows the last digit of k is greater than any digit.                  *)
VersionRank(k) ==
  IF k < Radix THEN k * (Radix + 1) + Radix
  ELSE (k \div Radix) * (Radix + 1) + (k % Radix)

(* Is row e listed before row f (ScanIndexForward: false)?  A scan has an  *)
(* order of its own, any fixed one will do.                                *)
ListedBefore(e, f) ==
  \/ VersionRank(e[1]) > VersionRank(f[1])
  \/ e[1] = f[1] /\ IdOrder[e[2]] > IdOrder[f[2]]

(* Mistake: the version rows of a user are listed with the latest copies.  *)
MatchesAllVersions(list, tbl, e) ==
  \/ list.by = "all"
  \/ list.by = "id" /\ e[2] = list.id
  \/ list.by = "user" /\ tbl[e].body.data = list.user
  \/ list.by = "userStatus" /\ tbl[e].body = [data |-> list.user, status |-> list.status]

(* The condition of a listing on a row: a scan has none, ID_INDEX has the  *)
(* id, and the other two indexes begins_with(entityId, 'v0_').  The datum  *)
(* of a body stands for its userId.                                        *)
Matches(list, tbl, e) ==
  \/ list.by = "all"
  \/ list.by = "id" /\ e[2] = list.id
  \/ list.by = "user" /\ e[1] = 0 /\ tbl[e].body.data = list.user
  \/ /\ list.by = "userStatus" /\ e[1] = 0
     /\ tbl[e].body = [data |-> list.user, status |-> list.status]

Matching(list, tbl) == {e \in DOMAIN tbl : Matches(list, tbl, e)}

(* The rows that are left for a listing c.                                 *)
Rest(c) == {e \in Matching(c.list, table) : c.last = None \/ ListedBefore(c.last, e)}

(* What a request answers: rows in order, before all that it leaves, and   *)
(* less than a full page only when it leaves none.                         *)
IsPage(page, rest) ==
  /\ \A i, j \in DOMAIN page : i < j => ListedBefore(page[i], page[j])
  /\ \A i \in DOMAIN page : \A e \in rest \ F!Range(page) : ListedBefore(page[i], e)
  /\ Len(page) < PageSize => rest \subseteq F!Range(page)

Pages(rest) ==
  {page \in UNION {[1..n -> rest] : n \in 0..PageSize} : IsPage(page, rest)}

(* LastEvaluatedKey is there when rows are left, and may be when the page  *)
(* is full.                                                                *)
MoreAfter(page, rest) == {rest \ F!Range(page) # {}, Len(page) = PageSize}

-----------------------------------------------------------------------------
(* getAll, getAllById (one page) and query, scan (all of them).            *)
StartListing(r, list, loop) ==
  /\ reader[r].pc # "page"
  /\ reader' = [reader EXCEPT ![r] =
       [NoListing EXCEPT !.list = list, !.loop = loop, !.pc = "page",
                         !.steady = Matching(list, table)]]
  /\ UNCHANGED vars

(* Mistake: the first page is taken for all of them.                       *)
GoesOnNever(c, more) == FALSE

GoesOn(c, more) == c.loop /\ more

ReadPage(r) ==
  /\ reader[r].pc = "page"
  /\ LET rest == Rest(reader[r])
     IN  \E page \in Pages(rest) : \E more \in MoreAfter(page, rest) :
           reader' = [reader EXCEPT
             ![r].rows = @ \o page,
             ![r].last = IF page = <<>> THEN @ ELSE page[Len(page)],
             ![r].pc = IF GoesOn(reader[r], more) THEN "page" ELSE "done"]
  /\ UNCHANGED vars

(* A step of a writer: of the rows that were there since the start of a    *)
(* listing, those that match no more are out.                              *)
Write ==
  /\ Next
  /\ reader' = [r \in Readers |-> [reader[r] EXCEPT !.steady =
       IF reader[r].pc = "page" THEN @ \cap Matching(reader[r].list, table') ELSE @]]

Read ==
  \E r \in Readers :
    \/ \E list \in Listings, loop \in BOOLEAN : StartListing(r, list, loop)
    \/ ReadPage(r)

ReadsNext == Write \/ Read

ReadsSpec == ReadsInit /\ [][ReadsNext]_readsVars

-----------------------------------------------------------------------------
(* Correctness.                                                            *)

(* "Handle pagination of DynamoDB query responses in the backend"          *)
(* (demo.model.ts 130): what a loop over pages returns has every row that  *)
(* matched from its first page to its last, in the order of the keys and   *)
(* none twice, whatever is written between two pages.                      *)
LoopIsComplete ==
  \A r \in Readers : reader[r].pc = "done" /\ reader[r].loop =>
    /\ reader[r].steady \subseteq F!Range(reader[r].rows)
    /\ \A i, j \in DOMAIN reader[r].rows :
         i < j => ListedBefore(reader[r].rows[i], reader[r].rows[j])

(* The demos of a user are their latest copies, "begins_with(entityId,     *)
(* :latest)" (demo.model.ts 116): one row per demo even while updates add  *)
(* versions, though a scan lists a demo with each of its versions.         *)
OneRowPerDemo ==
  \A r \in Readers : reader[r].list # None /\ reader[r].list.by \in {"user", "userStatus"} =>
    \A i, j \in DOMAIN reader[r].rows :
      reader[r].rows[i][2] = reader[r].rows[j][2] => i = j

=============================================================================
