----------------------------- MODULE FactHistory -----------------------------
(***************************************************************************)
(* fact.history read page by page while revisions are committed: a client  *)
(* asks for the first page and then, with the cursor of the last reply,    *)
(* for the next one until a reply has none.                                *)
(***************************************************************************)
EXTENDS Facts, SequencesExt

CONSTANT Limit   \* page size of the client, 1..MAX_FACT_HISTORY_PAGE

ASSUME LimitAssumption == Limit \in Nat \ {0}

\* The client: its claim, the cursor [at, hash] it sends next, the revisions it
\* was given in order, those that existed when it started, and the ones that
\* finished readings got wrong (history).
VARIABLE reader

NoReader == [claim |-> {}, cursor |-> {}, pages |-> <<>>, owed |-> {}, wrong |-> {}]

\* ORDER BY asserted_at_ms DESC, operation_hash DESC: the row at place i has
\* i - 1 newer ones.
Ordered(S) ==
  [i \in 1..Cardinality(S) |-> CHOOSE v \in S : Cardinality({w \in S : Newer(w, v)}) = i - 1]

\* The row comes after the cursor.
Behind(v, cursor) ==
  \A c \in cursor : v.at < c.at \/ (v.at = c.at /\ v.hash < c.hash)

\* Seeded fault: one row more is not fetched, so a full page has no cursor.
FetchedExactly(S) == SubSeq(Ordered(S), 1, IF Cardinality(S) < Limit THEN Cardinality(S) ELSE Limit)
\* LIMIT limit + 1
Fetched(S) == SubSeq(Ordered(S), 1, IF Cardinality(S) < Limit + 1 THEN Cardinality(S) ELSE Limit + 1)

\* Revisions owed and not shown, or shown before a newer one.
Wrong(owed, shown) ==
  (owed \ {v.hash : v \in ToSet(shown)})
    \cup {shown[i].hash : i \in {i \in 1..Len(shown) - 1 : shown[i].at <= shown[i + 1].at}}

\* A page behind a cursor, and the cursor of the reply.
Page(c, cursor) ==
  LET rows == Fetched({v \in RevisionsOf(c) : Behind(v, cursor)})
      hasMore == Len(rows) > Limit
      shown == IF hasMore THEN Front(rows) ELSE rows
  IN [revisions |-> shown,
      next |-> IF hasMore THEN {[at |-> Last(shown).at, hash |-> Last(shown).hash]} ELSE {}]

\* fact_history: the first page of a claim, or the page behind the cursor.
ReadPage(c) ==
  /\ reader.claim \in {{}, {c}}
  /\ LET page == Page(c, reader.cursor)
         pages == reader.pages \o page.revisions
         owed == IF reader.claim = {} THEN {v.hash : v \in RevisionsOf(c)} ELSE reader.owed
     IN reader' =
          IF page.next # {}
          THEN [reader EXCEPT !.claim = {c}, !.cursor = page.next, !.pages = pages, !.owed = owed]
          ELSE [NoReader EXCEPT !.wrong = reader.wrong \cup Wrong(owed, pages)]
  /\ UNCHANGED vars

HistoryInit == Init /\ reader = NoReader
HistoryNext ==
  \/ Next /\ UNCHANGED reader
  \/ \E c \in Claims : ReadPage(c)
HistorySpec == HistoryInit /\ [][HistoryNext]_<<vars, reader>>

\* A finished reading has shown every revision that existed at its start, none
\* twice, newest first, whatever was committed and however the clock moved
\* between the pages.
ReadingIsComplete == reader.wrong = {}
=============================================================================
