----------------------------- MODULE SiblingOrder -----------------------------
(***************************************************************************)
(* The order of the nodes of one directory: sort_order, then id.  A move   *)
(* reads the neighbours, renumbers the directory row by row when there is  *)
(* no room, and writes its node; the name sort lists the directory and     *)
(* writes it row by row.  Each is one READ COMMITTED transaction of        *)
(* several statements.  A move holds the advisory locks of the directories *)
(* it reads and writes; sorts, creations, deletions and restores take none *)
(* of them.  Numbers are scaled down: the steps are constants.             *)
(***************************************************************************)
EXTENDS Integers, FiniteSetsExt, Sequences

CONSTANTS
  Arranger,      \* the transactions that move a node or sort the directory
  SiblingCount,  \* ids are 1 .. SiblingCount
  MoveStep,      \* moveSortStep and comicSortStep (1024)
  MinGap,        \* moveMinSortGap (2)
  CreateStep,    \* what a creation adds to the largest number (15)
  MaxOrder,      \* moveMaxInt32
  Characters,    \* code points, less that of the digit 0
  DigitChars,    \* those that unicode.IsDigit accepts
  LowerOf,       \* unicode.ToLower
  SiblingNames,  \* the visible name of each node, a sequence of characters
  MaxOrderSteps  \* bound on the operations of a behaviour

ASSUME OrderStepsAssumption ==
  /\ {SiblingCount, MaxOrder, MaxOrderSteps} \subseteq Nat
  /\ {MoveStep, MinGap, CreateStep} \subseteq Nat \ {0}
  /\ MoveStep > MinGap + 1 /\ MoveStep > CreateStep
  /\ MaxOrder > (SiblingCount + 4) * MoveStep

\* Digits are not letters: they are their own lower case and that of nothing else.
ASSUME CharactersAssumption ==
  /\ Characters \subseteq Int
  /\ 0 .. 9 \subseteq DigitChars /\ DigitChars \subseteq Characters
  /\ LowerOf \in [Characters -> Int]
  /\ \A c \in Characters : c \in DigitChars => LowerOf[c] = c
  /\ \A c \in Characters : c \notin DigitChars => LowerOf[c] \notin DigitChars

Sibling == 1 .. SiblingCount

ASSUME SiblingNamesAssumption == SiblingNames \in [Sibling -> Seq(Characters)]

VARIABLES
  place,      \* "unborn", "here", "away" in another directory, or "deleted"
  sortOrder,  \* sort_order of the nodes that are here or deleted from here
  maxRead,    \* the largest number a running creation has read
  job,        \* the transaction of each arranger
  orderSteps  \* operations so far

orderVars == <<place, sortOrder, maxRead, job, orderSteps>>

Here == {n \in Sibling : place[n] = "here"}

\* The numbers are int32.
Int32 == -(MaxOrder + 1) .. MaxOrder
Wrapped(k) == IF k > MaxOrder THEN k - 2 * (MaxOrder + 1) ELSE k
NoCreation == MaxOrder + 1

\* A transaction puts node in front of before, or at the end when before is 0 or
\* the node itself; value is a number it has read or is going to write.  It
\* writes the numbers of plan to the rows of todo, and holds those of done.
\* known, for the properties: the nodes that have been here since a move began
\* and that no sort has written.
Job == [kind : {"none", "move", "sort"},
        step : {"idle", "read", "left", "list", "rows", "reread", "leftAgain", "shift", "write",
                "commit"},
        node : 0 .. SiblingCount, before : 0 .. SiblingCount,
        value : -(MaxOrder + 1) .. MaxOrder + MoveStep,
        plan : [Sibling -> Int32],
        todo : SUBSET Sibling, done : SUBSET Sibling, known : SUBSET Sibling]

NoJob == [kind |-> "none", step |-> "idle", node |-> 0, before |-> 0, value |-> 0,
          plan |-> [n \in Sibling |-> 0], todo |-> {}, done |-> {}, known |-> {}]

OrderTypeOK ==
  /\ place \in [Sibling -> {"unborn", "here", "away", "deleted"}]
  /\ sortOrder \in [Sibling -> Int32]
  /\ maxRead \in Int32 \cup {NoCreation}
  /\ job \in [Arranger -> Job]
  /\ orderSteps \in 0 .. MaxOrderSteps

\* One node in front of which there is no room, one created after it, one in another
\* directory, and others deleted or still to be created; the numbers are small or
\* nearly used up.
OrderStart ==
  /\ \E last \in {"unborn", "deleted"} :
       place = [n \in Sibling |-> CASE n <= 2 -> "here" [] n = 3 -> "away" [] OTHER -> last]
  /\ \E first \in {1, MaxOrder - CreateStep} :
       sortOrder = [n \in Sibling |->
                      CASE n = 1 -> first [] n = 2 -> first + CreateStep [] n = 3 -> 0
                        [] OTHER -> MoveStep - 1]
  /\ maxRead = NoCreation
  /\ job = [c \in Arranger |-> NoJob]
  /\ orderSteps = 0

OrderStep == orderSteps < MaxOrderSteps /\ orderSteps' = orderSteps + 1

-----------------------------------------------------------------------------
\* naturalCompare: -1, 0 or 1.  Digits of every script form runs, and only 0 is
\* a leading zero.
Digit(c) == c \in DigitChars
LowerCase(c) == LowerOf[c]
Sign(k) == IF k < 0 THEN -1 ELSE IF k > 0 THEN 1 ELSE 0

\* The end of the run of digits that starts at i, and the run without zeros.
RunEnd(s, i) == Min({j \in i .. Len(s) + 1 : j = Len(s) + 1 \/ ~Digit(s[j])})
Significant(s, i) == Min({j \in i .. RunEnd(s, i) : j = RunEnd(s, i) \/ s[j] # 0})

\* By the number of significant digits, by the first that differs, then by
\* the number of leading zeros.
CompareRuns(l, r, i, j) ==
  LET size == RunEnd(l, i) - Significant(l, i)
      differ == {k \in 0 .. size - 1 : l[Significant(l, i) + k] # r[Significant(r, j) + k]}
  IN IF size # RunEnd(r, j) - Significant(r, j)
       THEN Sign(size - (RunEnd(r, j) - Significant(r, j)))
     ELSE IF differ # {}
       THEN Sign(l[Significant(l, i) + Min(differ)] - r[Significant(r, j) + Min(differ)])
     ELSE Sign((RunEnd(l, i) - i) - (RunEnd(r, j) - j))

\* At the positions i and j; they are those of l and r from there on.
CompareFrom(l, r) ==
  LET from[i \in Nat] == [j \in Nat |->
        IF i > Len(l) \/ j > Len(r) THEN Sign(Len(l) - Len(r))
        ELSE IF Digit(l[i]) /\ Digit(r[j])
          THEN IF CompareRuns(l, r, i, j) # 0 THEN CompareRuns(l, r, i, j)
               ELSE from[RunEnd(l, i)][RunEnd(r, j)]
        ELSE IF LowerCase(l[i]) # LowerCase(r[j]) THEN Sign(LowerCase(l[i]) - LowerCase(r[j]))
        ELSE from[i + 1][j + 1]]
  IN from

NaturalCompare(l, r) == CompareFrom(l, r)[1][1]

-----------------------------------------------------------------------------
\* How listings order the nodes.
Before(a, b) == sortOrder[a] < sortOrder[b] \/ (sortOrder[a] = sortOrder[b] /\ a < b)

\* The numbers as a transaction sees them: its own writes, and otherwise what is
\* committed.
SeenBy(j) == [n \in Sibling |-> IF n \in j.done THEN j.plan[n] ELSE sortOrder[n]]

\* A statement that writes a row waits for the transaction that has written it.
Held(n) == \E c \in Arranger : n \in job[c].done
HeldByOther(c, n) == \E d \in Arranger \ {c} : n \in job[d].done

\* Moves no longer know the nodes of S.
NoLongerKnown(S) == [c \in Arranger |-> [job[c] EXCEPT !.known = @ \ S]]

MaxSortOrder(orders, nodes) == IF nodes = {} THEN 0 ELSE Max({orders[n] : n \in nodes})

\* What reindexParent writes: multiples of the step, in the order of the listing.
Reindexed ==
  [n \in Sibling |-> IF n \in Here THEN MoveStep * (1 + Cardinality({m \in Here : Before(m, n)}))
                     ELSE sortOrder[n]]

\* prevSortOrderBeforeNode: the largest number below right, 0 without one or when
\* it is that of t itself.
LeftOf(orders, t, right) ==
  LET below == {m \in Here : orders[m] < right}
      left == MaxSortOrder(orders, below)
  IN IF t \in below /\ orders[t] = left /\ \A m \in below : orders[m] = left => m <= t
       THEN 0 ELSE left

Midpoint(left, right) == left + ((right - left) \div 2)

\* moveMaxSafeSortBase
NearlyUsedUp(k) == k >= MaxOrder - 4 * MoveStep

-----------------------------------------------------------------------------
\* A MoveUnderWay without the lock of the directory.
MoveUnderWay_Ignored == FALSE

\* MoveNode.  Moves within a directory or into it run one at a time.
MoveUnderWay == \E c \in Arranger : job[c].kind = "move"

MoveStarts(c, n, t) ==
  /\ OrderStep
  /\ job[c] = NoJob /\ ~MoveUnderWay
  /\ place[n] \in {"here", "away"}
  /\ job' = [job EXCEPT ![c] = [NoJob EXCEPT !.kind = "move", !.step = "read", !.node = n,
                                             !.before = t, !.known = Here]]
  /\ UNCHANGED <<place, sortOrder, maxRead>>

ToTheEnd(j) == j.before \in {0, j.node}

\* A statement of c that commits nothing.
Statement(c, next) ==
  /\ job' = [job EXCEPT ![c] = next]
  /\ UNCHANGED <<place, sortOrder, maxRead, orderSteps>>

\* An error, a crash or a deadlock of row locks ends the transaction.
RollBack(c) == job[c] # NoJob /\ Statement(c, NoJob)

\* The target must be here; when it is read again after the renumbering it must only
\* be alive, and its number may be one of another directory.
TargetRead(c) ==
  LET j == job[c]
      next(number) ==
        [j EXCEPT !.step = IF @ = "read" THEN "left" ELSE "leftAgain", !.value = number]
  IN /\ j.step \in {"read", "reread"} /\ ~ToTheEnd(j)
     /\ \/ j.before \in Here /\ Statement(c, next(SeenBy(j)[j.before]))
        \/ /\ j.step = "reread" /\ place[j.before] = "away"
           /\ \E number \in Int32 : Statement(c, next(number))

\* resolveMoveBeforeRange and resolveMoveSortOrder: without room in front of the target
\* the directory is renumbered; if there is still none, the target and the nodes
\* behind it are shifted.
LeftRead(c) ==
  LET j == job[c]
      left == LeftOf(SeenBy(j), j.before, j.value)
      room == j.value - left
  IN \/ /\ j.step = "left" /\ room <= MinGap
        /\ Statement(c, [j EXCEPT !.step = "list"])
     \/ /\ j.step = "leftAgain" /\ room <= 1
        /\ Statement(c, [j EXCEPT !.step = "shift"])
     \/ /\ (j.step = "left" /\ room > MinGap) \/ (j.step = "leftAgain" /\ room > 1)
        /\ Statement(c, [j EXCEPT !.step = "write", !.value = Midpoint(left, @)])

MaxOrderRead(c) ==
  LET j == job[c]
      max == MaxSortOrder(SeenBy(j), Here)
  IN /\ j.step \in {"read", "reread"} /\ ToTheEnd(j)
     /\ Statement(c, IF j.step = "read" /\ NearlyUsedUp(max)
                        THEN [j EXCEPT !.step = "list"]
                        ELSE [j EXCEPT !.step = "write", !.value = Max({0, max}) + MoveStep])

\* reindexParent lists the directory, then writes the rows in that order.
ListSiblings(c) ==
  /\ job[c].step = "list"
  /\ Statement(c, [job[c] EXCEPT !.step = IF Here = {} THEN "reread" ELSE "rows",
                                 !.plan = Reindexed, !.todo = Here])

\* Rows are found by id, in whatever directory they are by now; one that was deleted
\* ends the transaction.
RowWrite(c) ==
  LET j == job[c]
  IN \E row \in j.todo :
       LET next == IF j.todo # {row} THEN "rows" ELSE IF j.kind = "sort" THEN "commit" ELSE "reread"
       IN /\ j.step = "rows" /\ \A m \in j.todo : j.plan[row] <= j.plan[m]
          /\ ~HeldByOther(c, row)
          /\ Statement(c, IF place[row] = "deleted" THEN NoJob
                             ELSE [j EXCEPT !.step = next, !.todo = @ \ {row},
                                            !.done = @ \cup {row}])

\* incrementSortOrderAfter, one statement.
Shift(c) ==
  LET j == job[c]
      right == {m \in Here : SeenBy(j)[m] >= j.value}
  IN /\ j.step = "shift" /\ \A m \in right : ~HeldByOther(c, m)
     /\ Statement(c, IF \E m \in right : SeenBy(j)[m] = MaxOrder THEN NoJob
                        ELSE [j EXCEPT !.step = "write", !.done = @ \cup right,
                                       !.plan = [m \in Sibling |->
                                                   IF m \in right THEN SeenBy(j)[m] + 1 ELSE @[m]]])

\* The node is written, in whatever directory it is by now.
NodeWrite(c) ==
  LET j == job[c]
  IN /\ j.step = "write" /\ ~HeldByOther(c, j.node)
     /\ Statement(c, IF place[j.node] = "deleted" \/ j.value > MaxOrder THEN NoJob
                        ELSE [j EXCEPT !.step = "commit", !.plan[j.node] = j.value,
                                       !.done = @ \cup {j.node}])

-----------------------------------------------------------------------------
\* SortDirectChildrenByName.
NameBefore(a, b) ==
  LET c == NaturalCompare(SiblingNames[a], SiblingNames[b]) IN c < 0 \/ (c = 0 /\ a < b)

\* SliceStable sorts by the comparison if that is an order, and otherwise leaves the
\* nodes in some order.
InNameOrder(S, plan) == \A a, b \in S : NameBefore(a, b) => plan[a] < plan[b]
SortPlans(S) ==
  LET plans == {plan \in [Sibling -> {0} \cup {MoveStep * k : k \in 1 .. Cardinality(S)}] :
                  /\ \A n \in Sibling \ S : plan[n] = 0
                  /\ \A n \in S : plan[n] # 0
                  /\ \A a, b \in S : plan[a] = plan[b] => a = b}
      ordered == \A a, b, d \in S : NameBefore(a, b) /\ NameBefore(b, d) => NameBefore(a, d)
  IN {plan \in plans : ordered => InNameOrder(S, plan)}

\* The rows are listed in one statement and written one by one.
SortStarts(c) ==
  /\ OrderStep
  /\ job[c] = NoJob /\ Here # {}
  /\ \E plan \in SortPlans(Here) :
       job' = [job EXCEPT ![c] = [NoJob EXCEPT !.kind = "sort", !.step = "rows", !.plan = plan,
                                               !.todo = Here]]
  /\ UNCHANGED <<place, sortOrder, maxRead>>

\* A transaction of either kind commits.
CommitRows(c) ==
  /\ job[c].step = "commit"
  /\ place' = [n \in Sibling |-> IF n = job[c].node THEN "here" ELSE place[n]]
  /\ sortOrder' = [n \in Sibling |->
                     IF n \in job[c].done /\ (n = job[c].node \/ place[n] = "here")
                       THEN job[c].plan[n] ELSE sortOrder[n]]
  /\ job' = [IF job[c].kind = "sort" THEN NoLongerKnown(job[c].done) ELSE job EXCEPT ![c] = NoJob]
  /\ UNCHANGED <<maxRead, orderSteps>>

-----------------------------------------------------------------------------
\* A move to another directory.  It holds the lock of the directory it read the node
\* in, which need not be this one any more.
MoveAway(n) ==
  /\ OrderStep
  /\ n \in Here /\ ~Held(n)
  /\ place' = [place EXCEPT ![n] = "away"]
  /\ sortOrder' = [sortOrder EXCEPT ![n] = 0]
  /\ job' = NoLongerKnown({n})
  /\ UNCHANGED maxRead

\* Creations hold the lock on the names of the directory, so one runs at a time.
CreateReadsMax ==
  /\ maxRead = NoCreation /\ \E n \in Sibling : place[n] = "unborn"
  /\ OrderStep
  /\ maxRead' = MaxSortOrder(sortOrder, Here)
  /\ UNCHANGED <<place, sortOrder, job>>

\* A creation whose transaction fails leaves no row.  The number is not checked
\* against the limit.
CreateInserts ==
  /\ maxRead # NoCreation
  /\ \/ \E n \in Sibling :
          /\ place[n] = "unborn" /\ \A m \in Sibling : place[m] = "unborn" => n <= m
          /\ place' = [place EXCEPT ![n] = "here"]
          /\ sortOrder' = [sortOrder EXCEPT ![n] = Wrapped(maxRead + CreateStep)]
     \/ UNCHANGED <<place, sortOrder>>
  /\ maxRead' = NoCreation
  /\ UNCHANGED <<job, orderSteps>>

DeleteSibling(n) ==
  /\ OrderStep
  /\ n \in Here /\ ~Held(n)
  /\ place' = [place EXCEPT ![n] = "deleted"]
  /\ job' = NoLongerKnown({n})
  /\ UNCHANGED <<sortOrder, maxRead>>

\* A restored node has the number it had, which another may have by now.
RestoreSibling(n) ==
  /\ OrderStep
  /\ place[n] = "deleted"
  /\ place' = [place EXCEPT ![n] = "here"]
  /\ UNCHANGED <<sortOrder, maxRead, job>>

Arrange(c) ==
  \/ \E n \in Sibling, t \in 0 .. SiblingCount : MoveStarts(c, n, t)
  \/ TargetRead(c) \/ LeftRead(c) \/ MaxOrderRead(c)
  \/ ListSiblings(c) \/ RowWrite(c) \/ Shift(c) \/ NodeWrite(c)
  \/ SortStarts(c) \/ CommitRows(c) \/ RollBack(c)

OrderNext ==
  \/ \E c \in Arranger : Arrange(c)
  \/ \E n \in Sibling : MoveAway(n) \/ DeleteSibling(n) \/ RestoreSibling(n)
  \/ CreateReadsMax \/ CreateInserts

OrderSpec == OrderStart /\ [][OrderNext]_orderVars

-----------------------------------------------------------------------------
\* The nodes of S are listed in the same order before and after a step.
OrderKept(S) == \A a, b \in S : Before(a, b) <=> Before(a, b)'

\* What a move leaves of the nodes that have been here since it began and that no sort
\* has written: their order, also when it renumbers them and whatever
\* equal numbers restores have left, and the moved node in its place.  One moved
\* in front of another is listed before it with nothing between the two but
\* nodes that share the other's number; one moved to the end is listed last.
MovesPlaceAsAsked ==
  [][\A c \in Arranger, n \in Sibling, t \in 0 .. SiblingCount :
        CommitRows(c) /\ job[c].kind = "move" /\ job[c].node = n /\ job[c].before = t =>
          LET others == job[c].known \ {n}
          IN /\ OrderKept(others)
             /\ t \in {0, n} => \A m \in others : Before(m, n)'
             /\ t \in others =>
                  /\ Before(n, t)'
                  /\ \A m \in others :
                       (Before(n, m) /\ Before(m, t))' => sortOrder'[m] = sortOrder'[t]]_orderVars

\* No character of the names lies between two of their digits, as between digits of
\* two scripts.
DigitsTogether(Names) ==
  LET chars == UNION {{s[i] : i \in DOMAIN s} : s \in Names}
  IN \A c \in chars \ DigitChars, d, e \in chars \cap DigitChars :
       ~(d < LowerCase(c) /\ LowerCase(c) < e)

\* A name sort leaves the nodes it listed and that are still here in the order of
\* their names, whatever ran while it wrote them.
SortsByName ==
  [][\A c \in Arranger : CommitRows(c) /\ job[c].kind = "sort" =>
       \A a, b \in job[c].done \cap Here :
         DigitsTogether({SiblingNames[n] : n \in job[c].done}) =>
           (NameBefore(a, b) <=> Before(a, b)')]_orderVars

\* The comparison of names is antisymmetric, orders names totally unless characters
\* lie between their digits, and names that differ in one number only by that
\* number.
NamesInNaturalOrder(Names) ==
  /\ \A a, b \in Names : NaturalCompare(a, b) = -NaturalCompare(b, a)
  /\ \A a, b, c \in Names :
       DigitsTogether({a, b, c}) /\ NaturalCompare(a, b) <= 0 /\ NaturalCompare(b, c) <= 0
         => NaturalCompare(a, c) <= 0
  /\ \A p \in Names, i, j \in 1 .. 11 :
       i < j /\ (p = <<>> \/ ~Digit(p[Len(p)])) =>
         NaturalCompare(p \o (IF i < 10 THEN <<i>> ELSE <<i \div 10, i % 10>>),
                        p \o (IF j < 10 THEN <<j>> ELSE <<j \div 10, j % 10>>)) < 0
=============================================================================
