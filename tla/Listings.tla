-------------------------------- MODULE Listings --------------------------------
(***************************************************************************)
(* Listings that a client reads page by page while the rows change: the    *)
(* libraries of a user and the metadata of nodes, which go on after the    *)
(* last id, and the cards of an archive, which go on at an offset.         *)
(***************************************************************************)
EXTENDS Integers, SequencesExt

CONSTANTS
  RowCount,     \* ids are 1 .. RowCount
  PageSize,
  MaxListSteps  \* bound on the changes of a behaviour

\* A page size that is not positive is replaced by a default.
ASSUME ListBounds == {RowCount, MaxListSteps} \subseteq Nat /\ PageSize \in Nat \ {0}

ListRow == 1 .. RowCount

\* What a row is to the listings: not there; a media file; a directory of the
\* built-in type, without or with media in it; one in archive mode.
ItemKind == {"none", "file", "bare", "unit", "collection"}

Listing == {"libraries", "nodes", "directories", "video", "audio", "comic", "other"}
Keyset == {"libraries", "nodes", "directories"}

VARIABLES
  item,      \* id -> kind
  rank,      \* id -> sort_order
  scroll,    \* the client: what it lists, where it goes on, what it has got
  steady,    \* the rows its listing has shown ever since it began
  listSteps  \* changes so far

listVars == <<item, rank, scroll, steady, listSteps>>

\* The elements of S in the order that before gives them.
InOrder(S, before(_, _)) ==
  [i \in 1 .. Cardinality(S) |->
     CHOOSE c \in S : Cardinality({d \in S : before(d, c)}) = i - 1]

\* ScrollByUser and metadataQuery, which may ask for directories only.
Rows(l) ==
  {r \in ListRow : item[r] \notin (IF l = "directories" THEN {"none", "file"} ELSE {"none"})}

\* Collections are cards of video listings only.
Collections(l) == IF l = "video" THEN {"collection"} ELSE {}

\* The branches of unit_candidates, a union all; comics and other types are one
\* query.
CardBranches(l) ==
  CASE l \in {"video", "audio"} -> << {"file"}, {"unit"}, Collections(l) >>
    [] l = "comic" -> << {"bare", "unit", "collection"} >>
    [] OTHER -> << {"bare", "unit"} >>

\* The cards in the order of the listing.
Cards(l) ==
  LET found == {c \in ListRow \X DOMAIN CardBranches(l) : item[c[1]] \in CardBranches(l)[c[2]]}
      before(c, d) == \/ rank[c[1]] < rank[d[1]]
                      \/ rank[c[1]] = rank[d[1]] /\ c[1] < d[1]
                      \/ c[1] = d[1] /\ c[2] < d[2]
      sorted == InOrder(found, before)
  IN [i \in DOMAIN sorted |-> sorted[i][1]]

ShownIn(l) == IF l \in Keyset THEN Rows(l) ELSE Range(Cards(l))

\* At most n elements after the first k of s.
Slice(s, k, n) == SubSeq(s, k + 1, IF k + n < Len(s) THEN k + n ELSE Len(s))

\* The first n rows of listing l after the id.
After(l, id, n) == Slice(InOrder({r \in Rows(l) : r > id}, <), 0, n)

-----------------------------------------------------------------------------
NoScroll == [step |-> "idle", list |-> "libraries", after |-> 0, scope |-> "none",
             got |-> <<>>, total |-> 0, page |-> <<>>, sound |-> TRUE]

ListingsTypeOK ==
  /\ item \in [ListRow -> ItemKind]
  /\ rank \in [ListRow -> 1 .. 2]
  /\ scroll.step \in {"idle", "next", "authorize", "page", "done"}
  /\ scroll.list \in Listing
  /\ {scroll.after, scroll.total} \subseteq Nat
  /\ scroll.scope \in Listing \cup {"none"}
  /\ Range(scroll.got) \subseteq ListRow
  /\ scroll.sound \in BOOLEAN
  /\ steady \subseteq ListRow
  /\ listSteps \in 0 .. MaxListSteps

\* The kinds and the numbers that listing l tells apart.
KindsFor(l) == IF l \in Keyset THEN {"none", "file", "bare"} ELSE ItemKind
RanksFor(l) == IF l \in Keyset THEN {1} ELSE {1, 2}

ListingsStart ==
  /\ \E l \in Listing : /\ scroll = [NoScroll EXCEPT !.list = l]
                        /\ item \in [ListRow -> KindsFor(l)]
                        /\ rank = [r \in ListRow |-> IF l \in Keyset THEN 1 ELSE 1 + (r % 2)]
  /\ steady = {} /\ listSteps = 0

ScrollBegin ==
  /\ scroll.step = "idle"
  /\ scroll' = [scroll EXCEPT !.step = "next"]
  /\ steady' = ShownIn(scroll.list)
  /\ UNCHANGED <<item, rank, listSteps>>

\* What the client does with a page: it asks for the next one if it is told that
\* there is one.
Receive(page, more, after) ==
  scroll' = [scroll EXCEPT !.got = @ \o page, !.after = after, !.page = <<>>, !.total = 0,
                           !.step = IF more THEN "next" ELSE "done"]

\* Scroll: the libraries after the last id, then a check of the owner of each.
ScrollLibraries ==
  /\ scroll.step = "next" /\ scroll.list = "libraries"
  /\ scroll' = [scroll EXCEPT !.page = After("libraries", scroll.after, PageSize),
                              !.step = "authorize"]
  /\ UNCHANGED <<item, rank, steady, listSteps>>

\* A library that is gone by then fails the call, and the client asks again.
ScrollAuthorize ==
  /\ scroll.step = "authorize"
  /\ IF Range(scroll.page) \subseteq Rows("libraries")
       THEN Receive(scroll.page, Len(scroll.page) = PageSize,
                    IF scroll.page = <<>> THEN scroll.after ELSE Last(scroll.page))
       ELSE scroll' = [scroll EXCEPT !.page = <<>>, !.step = "next"]
  /\ UNCHANGED <<item, rank, steady, listSteps>>

\* A cursor that is taken for any query.
CursorFits_AnyQuery(l) == TRUE

\* The cursor names the query it was made for.
CursorFits(l) == scroll.scope \in {"none", l}

\* BrowseNodeMetadata asks for one row more than it returns.
BrowseMetadata ==
  LET rows == After(scroll.list, scroll.after, PageSize + 1)
      page == Slice(rows, 0, PageSize)
      more == Len(rows) > PageSize
  IN /\ scroll.step = "next" /\ scroll.list \in Keyset \ {"libraries"}
     /\ IF ~CursorFits(scroll.list)
          THEN scroll' = [NoScroll EXCEPT !.list = scroll.list] /\ steady' = {}
        ELSE /\ scroll' = [scroll EXCEPT !.got = @ \o page,
                             !.after = IF more THEN Last(page) ELSE 0,
                             !.scope = IF more THEN scroll.list ELSE "none",
                             !.step = IF more THEN "next" ELSE "done"]
             /\ UNCHANGED steady
     /\ UNCHANGED <<item, rank, listSteps>>

\* The client changes its filter, drops what it has got and goes on with the
\* cursor it has.
ChangeFilter ==
  /\ scroll.step = "next" /\ scroll.scope \in {"none", scroll.list}
  /\ \E l \in Keyset \ {"libraries", scroll.list} :
       /\ scroll.list \in Keyset \ {"libraries"}
       /\ scroll' = [scroll EXCEPT !.list = l, !.got = <<>>]
       /\ steady' = ShownIn(l)
  /\ UNCHANGED <<item, rank, listSteps>>

\* ListArchiveUnitsByBuiltInType counts the cards and then reads the page.
CountCards ==
  LET total == Len(Cards(scroll.list))
  IN /\ scroll.step = "next" /\ scroll.list \notin Keyset
     /\ IF total = 0 THEN Receive(<<>>, FALSE, scroll.after)
        ELSE scroll' = [scroll EXCEPT !.total = total, !.step = "page"]
     /\ UNCHANGED <<item, rank, steady, listSteps>>

ReadCards ==
  LET page == Slice(Cards(scroll.list), scroll.after, PageSize)
      next == scroll.after + Len(page)
  IN /\ scroll.step = "page"
     /\ Receive(page, page # <<>> /\ next < scroll.total, next)
     /\ UNCHANGED <<item, rank, steady, listSteps>>

\* Another request makes, deletes, restores, moves, sorts or changes a row.  An
\* offset stays right as long as the cards before it stay the same, and nothing
\* changes between the count and the page.
ListChange(r) ==
  /\ listSteps < MaxListSteps /\ scroll.step \in {"next", "authorize", "page"}
  /\ \E l \in {scroll.list} :
       /\ \E k \in KindsFor(l), n \in RanksFor(l) :
            /\ <<k, n>> # <<item[r], rank[r]>>
            /\ item' = [item EXCEPT ![r] = k]
            /\ rank' = [rank EXCEPT ![r] = n]
       /\ steady' = steady \cap ShownIn(l)'
       /\ scroll' = [scroll EXCEPT !.sound =
                       /\ @
                       /\ \/ l \in Keyset
                          \/ /\ scroll.step # "page"
                             /\ Slice(Cards(l)', 0, Len(scroll.got)) = scroll.got]
  /\ listSteps' = listSteps + 1

ListingsNext ==
  \/ ScrollBegin
  \/ ScrollLibraries \/ ScrollAuthorize
  \/ BrowseMetadata \/ ChangeFilter
  \/ CountCards \/ ReadCards
  \/ \E r \in ListRow : ListChange(r)

ListingsSpec == ListingsStart /\ [][ListingsNext]_listVars

-----------------------------------------------------------------------------
\* A client that followed a listing to its end has got every row that was there
\* all the time exactly once and no row twice: libraries and nodes whatever
\* changed in between, cards if nothing changed that was listed already or
\* between a count and its page.
ListedOnce ==
  scroll.step = "done" /\ (scroll.list \in Keyset \/ scroll.sound) =>
    /\ IsInjective(scroll.got)
    /\ steady \subseteq Range(scroll.got)
=============================================================================
