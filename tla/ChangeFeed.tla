----------------------------- MODULE ChangeFeed -----------------------------
(***************************************************************************)
(* document.changes and document.list, read page by page while documents   *)
(* are written.  A trigger of the schema adds one row of document_changes  *)
(* to the transaction that adds an update, with the next AUTOINCREMENT id; *)
(* a reader follows the ids with a cursor.  A listing goes through the     *)
(* documents in the order of their ids and counts their updates.  Each     *)
(* page is one SELECT; commits, crashes and restarts come between pages.   *)
(***************************************************************************)
EXTENDS LocalWrite, FiniteSetsExt, SequencesExt

CONSTANTS
  Scope,   \* the documents of the namespace and community that the readers
           \* follow: the caller's own or, with a grant, planning's
  Rank,    \* the order of document ids
  Limit    \* the page size the readers ask for

\* validate_limit
ValidLimit(limit) == limit \in 1..500

ASSUME ScopeAssumption == Scope \subseteq Docs
ASSUME RankAssumption ==
  Rank \in [Docs -> Nat] /\ \A d, e \in Docs : Rank[d] = Rank[e] => d = e
ASSUME PageAssumption == ValidLimit(Limit)

VARIABLES
  documentChanges,  \* rows [hash, doc]; the position is the change_id
  feed,             \* a reader of document.changes: its cursor, what it saw
  listing           \* a reader of document.list: its cursor, what it owes and
                    \* found; and what finished listings got wrong (history)

feedVars == <<vars, documentChanges, feed, listing>>

NoFeed == [after |-> 0, seen |-> {}]
NoListing == [after |-> {}, owed |-> {}, found |-> <<>>, wrong |-> {}]

-----------------------------------------------------------------------------
(* Writing                                                                 *)

\* Seeded fault: changes are noted only for the first update of a document.
TriggerOnFirst ==
  documentChanges' = documentChanges \o
    SetToSeq({u \in documentUpdates' \ documentUpdates : UpdatesOf(u.doc) = {}})

\* The trigger, in the transaction of the INSERT.
Trigger ==
  documentChanges' = documentChanges \o SetToSeq(documentUpdates' \ documentUpdates)

Written == Next /\ Trigger /\ UNCHANGED <<feed, listing>>

-----------------------------------------------------------------------------
(* Reading                                                                 *)

\* Some core answers.
Served == \E c \in Cores : phase[c] = "up"

\* ORDER BY key LIMIT n
First(keys, n) == {k \in keys : Cardinality({j \in keys : j <= k}) <= n}

\* The last row shown.
Cursor(keys) == Max(First(keys, Limit))
HasMore(keys) == Cardinality(First(keys, Limit + 1)) > Limit

\* The rows behind a cursor, their page, and the cursor of the reply.
Changes(after) ==
  LET keys == {i \in DOMAIN documentChanges : documentChanges[i].doc \in Scope /\ i > after}
  IN [hashes |-> {documentChanges[i].hash : i \in First(keys, Limit)},
      next |-> IF keys = {} THEN after ELSE Cursor(keys),
      more |-> HasMore(keys)]

ReadChanges ==
  /\ Served
  /\ LET page == Changes(feed.after)
     IN feed' = [after |-> page.next, seen |-> feed.seen \cup page.hashes]
  /\ UNCHANGED <<vars, documentChanges, listing>>

\* GROUP BY document_id: a document with the number of its updates.
Summaries ==
  {[doc |-> d, revision |-> Cardinality(UpdatesOf(d))] : d \in {d \in Scope : UpdatesOf(d) # {}}}

\* Seeded fault: pages are counted (OFFSET) instead of continued after an id.
ListedFromOffset(after) ==
  {s \in Summaries : Cardinality({r \in Summaries : Rank[r.doc] < Rank[s.doc]})
                       >= Len(listing.found)}
ListedBehind(after) == {s \in Summaries : \A a \in after : Rank[s.doc] > a}

\* ORDER BY document_id: the row at place i has i - 1 rows before it.
InOrder(rows) ==
  [i \in 1..Cardinality(rows) |->
     CHOOSE s \in rows : Cardinality({r \in rows : Rank[r.doc] < Rank[s.doc]}) = i - 1]

List(after) ==
  LET rows == ListedBehind(after)
      keys == {Rank[s.doc] : s \in rows}
  IN [documents |-> InOrder({s \in rows : Rank[s.doc] \in First(keys, Limit)}),
      next |-> IF HasMore(keys) THEN {Cursor(keys)} ELSE {}]

\* Documents owed and not found at the revision they had, or found twice.
Wrong(owed, found) ==
  {s \in owed : ~\E f \in ToSet(found) : f.doc = s.doc /\ f.revision >= s.revision}
    \cup {found[i] : i \in {i \in DOMAIN found : \E j \in 1..i - 1 : found[j].doc = found[i].doc}}

ListDocuments ==
  /\ Served
  /\ LET page == List(listing.after)
         owed == IF listing.after = {} THEN Summaries ELSE listing.owed
         found == listing.found \o page.documents
     IN listing' =
          IF page.next # {}
          THEN [listing EXCEPT !.after = page.next, !.owed = owed, !.found = found]
          ELSE [NoListing EXCEPT !.wrong = listing.wrong \cup Wrong(owed, found)]
  /\ UNCHANGED <<vars, documentChanges, feed>>

-----------------------------------------------------------------------------
FeedInit == Init /\ documentChanges = <<>> /\ feed = NoFeed /\ listing = NoListing
FeedNext == Written \/ ReadChanges \/ ListDocuments
FeedSpec == FeedInit /\ [][FeedNext]_feedVars

-----------------------------------------------------------------------------
(* Properties                                                              *)

\* A reader that is told there is no more has been given every update of its
\* scope: no change becomes visible behind a cursor, whichever core commits it.
FeedTellsAll ==
  [][feed' # feed /\ ~Changes(feed.after).more =>
       feed'.seen = UNION {UpdatesOf(d) : d \in Scope}]_feedVars

\* A listing that has ended has shown every document that existed when it
\* began, once, at the revision it had then or a later one, although documents
\* are created in front of its cursor and behind it.
ListingIsComplete == listing.wrong = {}
=============================================================================
