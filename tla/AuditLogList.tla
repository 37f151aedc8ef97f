---------------------------- MODULE AuditLogList ----------------------------
(***************************************************************************)
(* The list of the audit log (src/backend/internal/handler/                *)
(* audit_log_handler.go): each request counts the entries and, in a second *)
(* query, reads one page of them, the newest entries first, while the      *)
(* middleware adds others.  A client reads the log from the first page on. *)
(***************************************************************************)
EXTENDS Integers, FiniteSets

CONSTANTS MaxEntries,        \* bound on the ids of entries
          MaxPageSize,       \* bound on the page sizes that are asked for
          DefaultPageSize    \* the one for a request without one, 10 in the code

ASSUME AuditListAssumption ==
    /\ MaxEntries \in Nat /\ MaxPageSize \in Nat
    /\ DefaultPageSize \in Nat \ {0}

VARIABLES entries,     \* the ids of audit_logs that queries find
          pageQuery,   \* the page that the client asks for
          step,        \* what the handler does next for it
          total,       \* the number of entries it has counted
          read,        \* history: the entries of the pages answered so far
          before       \* history: the entries found when the client began

auditing == <<entries, pageQuery, step, total, read, before>>

Id == 1 .. MaxEntries

(* A parameter that is missing is 0.                                       *)
AuditListInit ==
    /\ entries \in SUBSET Id
    /\ pageQuery \in [page : {0, 1}, page_size : 0 .. MaxPageSize]
    /\ step = "count" /\ total = 0
    /\ read = {} /\ before = entries

Normalize(q) ==
    [page |-> IF q.page <= 0 THEN 1 ELSE q.page,
     page_size |-> IF q.page_size <= 0 THEN DefaultPageSize ELSE q.page_size]

(* How many entries come before entry i in the order of the list.          *)
Position(i) == Cardinality({j \in entries : j > i})

(* Mutant: the offset counts the page itself, not those before it. *)
OnNextPage(q, i) ==
    /\ q.page * q.page_size <= Position(i)
    /\ Position(i) < (q.page + 1) * q.page_size

(* Order, offset and limit of the query.                                   *)
OnPage(q, i) ==
    /\ (q.page - 1) * q.page_size <= Position(i)
    /\ Position(i) < q.page * q.page_size

(* Either query fails: the client is answered 500 and asks again.          *)
ListFails ==
    /\ step' = "count"
    /\ UNCHANGED <<entries, pageQuery, total, read, before>>

CountEntries ==
    /\ step = "count"
    /\ \/ ListFails
       \/ /\ step' = "find" /\ total' = Cardinality(entries)
          /\ UNCHANGED <<entries, pageQuery, read, before>>

FindEntries ==
    /\ step = "find"
    /\ \/ ListFails
       \/ /\ step' = "answered"
          /\ read' = read \cup {i \in entries : OnPage(Normalize(pageQuery), i)}
          /\ UNCHANGED <<entries, pageQuery, total, before>>

(* The client asks for the next page, if the total promises one.           *)
NextPage ==
    /\ step = "answered"
    /\ LET q == Normalize(pageQuery)
       IN  q.page * q.page_size < total /\ pageQuery' = [q EXCEPT !.page = @ + 1]
    /\ step' = "count"
    /\ UNCHANGED <<entries, total, read, before>>

(* A write was audited.  Ids are given in order but inserts may overlap:   *)
(* an entry may be found later than one with a greater id.                 *)
InsertEntry ==
    /\ \E i \in Id \ entries : entries' = entries \cup {i}
    /\ UNCHANGED <<pageQuery, step, total, read, before>>

AuditListNext == CountEntries \/ FindEntries \/ NextPage \/ InsertEntry

AuditListSpec == AuditListInit /\ [][AuditListNext]_auditing

-----------------------------------------------------------------------------
(* Who reads the log page by page misses no entry in between: of those     *)
(* that were there at the beginning, all that are newer than one already   *)
(* read have been read, although entries added meanwhile, before or        *)
(* between the pages, move the others on to later pages.  (The oldest may  *)
(* be left for a page that the total, counted first, does not promise.)    *)
NoEntrySkipped == \A i \in before, j \in read : i > j => i \in read
=============================================================================
