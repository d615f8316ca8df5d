-------------------------------- MODULE Store --------------------------------
(***************************************************************************)
(* The logs table (src/internal/storage/sqlite.go).  A row is              *)
(*   [id, entry, instant, text, rowid]                                     *)
(* where entry is what a sender wrote, instant when that was, and text the *)
(* timestamp as the driver stores it: the local time of the sender's zone, *)
(* written out.  Every comparison of the code, in ORDER BY as in DELETE,   *)
(* is between such texts.  Rows of one text come in the order of the index *)
(* on timestamp, read backwards: the latest rowid first.                   *)
(***************************************************************************)
EXTENDS Integers, SequencesExt

CONSTANTS MaxLimit,      \* 1000
          DefaultLimit   \* 100

ASSUME StoreAssumption == /\ MaxLimit \in Nat \ {0}
                          /\ DefaultLimit \in 1..MaxLimit

Ids(rows) == {r.id : r \in rows}

LastRowid(table) == Max({r.rowid : r \in table} \cup {0})

\* The rows a batch leaves: of entries with one identifier the last one stays.
Written(table, batch) ==
  {[id |-> batch[k].id, entry |-> batch[k].entry, instant |-> batch[k].instant,
    text |-> batch[k].text, rowid |-> LastRowid(table) + k] :
     k \in {k \in DOMAIN batch : \A j \in DOMAIN batch : j > k => batch[j].id # batch[k].id}}

\* Fault: INSERT without OR REPLACE, into a table whose identifier is no key.
InsertWithoutReplace(table, batch) == table \cup Written(table, batch)

\* INSERT OR REPLACE of a batch, in one transaction.
InsertLogs(table, batch) ==
  {r \in table : r.id \notin Ids(Range(batch))} \cup Written(table, batch)

\* A limit out of range is not cut down to MaxLimit: it becomes DefaultLimit.
EffectiveLimit(limit) == IF limit \in 1..MaxLimit THEN limit ELSE DefaultLimit

Newer(r, s) == \/ r.text > s.text
               \/ r.text = s.text /\ r.rowid > s.rowid

Rank(table, r) == Cardinality({s \in table : Newer(s, r)})

\* Fault: ORDER BY timestamp, oldest first.
QueryOldestFirst(table, limit, offset) ==
  {r \in table : Cardinality({s \in table : Newer(r, s)})
                   \in offset..(offset + EffectiveLimit(limit) - 1)}

\* ORDER BY timestamp DESC LIMIT ? OFFSET ?
QueryLogs(table, limit, offset) ==
  {r \in table : Rank(table, r) \in offset..(offset + EffectiveLimit(limit) - 1)}

\* Fault: the cutoff itself is deleted too.
DeleteUpTo(table, cutoff) == {r \in table : r.text > cutoff}

\* DELETE FROM logs WHERE timestamp < ?
DeleteOldLogs(table, cutoff) == {r \in table : r.text >= cutoff}
=============================================================================
