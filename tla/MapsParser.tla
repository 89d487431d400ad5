------------------------------ MODULE MapsParser ------------------------------
(***************************************************************************)
(* MapsParser::NextEntry (maps_parser.cc:184-234) under the loop of        *)
(* CollectIndirectRefTables and the search of FindGlobalRefTable           *)
(* (main.cc:511-548).  The parser asks the kernel for one mapping after    *)
(* another with an ioctl and falls back to the text of /proc/self/maps     *)
(* when the ioctl fails, which may be in the middle.  Other threads map    *)
(* and unmap memory all the time.                                          *)
(*                                                                         *)
(* Memory is an array of pages, a mapping a longest run of pages of one    *)
(* kind, as the kernel merges neighbours.  The kind "table" is read-write  *)
(* with the name of an indirect reference table, "heap" read-write with    *)
(* another name, "code" is not read-write, "free" is no mapping.           *)
(***************************************************************************)
EXTENDS Naturals

CONSTANTS Top,          \* the number of pages
          RefTable,     \* the page where the global reference table begins
          MaxChanges    \* bound on what other threads do to the memory

Pages == 1..Top
Kinds == {"table", "heap", "code", "free"}
Readable == {"table", "heap"}      \* kVmaRead | kVmaWrite

ASSUME MapsAssumption == Top \in Nat /\ RefTable \in Pages /\ MaxChanges \in Nat

VARIABLES mem,
          status_, procmap_query_failed_,
          query_addr,       \* where the next ioctl starts
          position,         \* where the next read of the text starts
          lines,            \* mappings read from the text, not yet handed out
                            \* (their addresses give the order)
          pc,
          entry,            \* the last mapping returned in this pass
          tables,           \* end of the table starting at each page, 0 if none
          changes,
          disturbed,        \* history: the mapping of RefTable has changed
          truncated         \* history: a read of the text ended in an error

parser == <<status_, procmap_query_failed_, query_addr>>
text == <<position, lines, truncated>>
memory == <<mem, changes, disturbed>>
vars == <<memory, parser, text, pc, entry, tables>>

Vmas == [start : Pages, end : 2..(Top + 1), kind : Kinds \ {"free"}]
NoEntry == [start |-> 0, end |-> 0, kind |-> "free"]

TypeOK ==
  /\ mem \in [Pages -> Kinds] /\ mem[RefTable] = "table"
  /\ status_ \in {"kTryIoctl", "kParseText", "kCompleted"}
  /\ procmap_query_failed_ \in BOOLEAN
  /\ query_addr \in 0..(Top + 1) /\ position \in 0..(Top + 1)
  /\ lines \subseteq Vmas
  /\ pc \in {"next", "body", "collected", "found", "missing"}
  /\ entry \in Vmas \cup {NoEntry}
  /\ tables \in [Pages -> {0} \cup 2..(Top + 1)]
  /\ changes \in 0..MaxChanges
  /\ disturbed \in BOOLEAN /\ truncated \in BOOLEAN

Init ==
  /\ mem \in [Pages -> Kinds] /\ mem[RefTable] = "table"
  /\ status_ = "kTryIoctl" /\ procmap_query_failed_ = FALSE
  /\ query_addr = 0 /\ position = 0 /\ lines = {}
  /\ pc = "next" /\ entry = NoEntry
  /\ tables = [p \in Pages |-> 0]
  /\ changes = 0 /\ disturbed = FALSE /\ truncated = FALSE

-----------------------------------------------------------------------------
(* The kernel.                                                             *)

IsRun(v) == /\ v.start < v.end
            /\ \A p \in v.start..(v.end - 1) : mem[p] = v.kind
            /\ v.start > 1 => mem[v.start - 1] # v.kind
            /\ v.end <= Top => mem[v.end] # v.kind

Mapped == {v \in Vmas : IsRun(v)}

\* The mapping that the table of global references lies in.
Table == {v \in Mapped : v.start <= RefTable /\ RefTable < v.end}

\* Another thread maps, unmaps or protects a page; the table stays mapped.
Change(p, k) ==
  /\ changes < MaxChanges /\ changes' = changes + 1
  /\ p # RefTable /\ mem[p] # k
  /\ mem' = [mem EXCEPT ![p] = k]
  /\ disturbed' = (disturbed \/ Table' # Table)
  /\ UNCHANGED <<parser, text, pc, entry, tables>>

\* The mappings that end after address a, in the order of their addresses:
\* what the ioctl (covering or next) and the text both go on with.
After(a) == {v \in Mapped : v.end > a}
FirstOf(vs) == CHOOSE v \in vs : \A w \in vs : v.start <= w.start

-----------------------------------------------------------------------------
(* NextEntry by the ioctl.                                                 *)

ByIoctl == pc = "next" /\ ~procmap_query_failed_ /\ status_ = "kTryIoctl"
Queried == {v \in After(query_addr) : v.kind \in Readable}

\* Fault: the next query starts where this mapping does.
SameAddress ==
  /\ ByIoctl /\ Queried # {}
  /\ entry' = FirstOf(Queried)
  /\ query_addr' = entry'.start
  /\ pc' = "body"
  /\ UNCHANGED <<memory, text, tables, status_, procmap_query_failed_>>

\* Fault: the next query starts a page after the end.
PastEnd ==
  /\ ByIoctl /\ Queried # {}
  /\ entry' = FirstOf(Queried)
  /\ query_addr' = entry'.end + 1
  /\ pc' = "body"
  /\ UNCHANGED <<memory, text, tables, status_, procmap_query_failed_>>

QueryFound ==
  /\ ByIoctl /\ Queried # {}
  /\ entry' = FirstOf(Queried)
  /\ query_addr' = entry'.end
  /\ pc' = "body"
  /\ UNCHANGED <<memory, text, tables, status_, procmap_query_failed_>>

\* ENOENT.
QueryNone ==
  /\ ByIoctl /\ Queried = {}
  /\ status_' = "kCompleted" /\ pc' = "collected"
  /\ UNCHANGED <<memory, text, tables, entry, procmap_query_failed_, query_addr>>

\* Fault: any error ends the iteration.
QueryStops ==
  /\ ByIoctl
  /\ status_' = "kCompleted" /\ pc' = "collected"
  /\ UNCHANGED <<memory, text, tables, entry, procmap_query_failed_, query_addr>>

\* EACCES and ENODEV are remembered, another error is not; both go on in the
\* same call with the text, from its beginning.
QueryFails ==
  /\ ByIoctl
  /\ procmap_query_failed_' \in BOOLEAN
  /\ status_' = "kParseText"
  /\ entry' = NoEntry
  /\ UNCHANGED <<memory, text, tables, pc, query_addr>>

-----------------------------------------------------------------------------
(* NextEntry by the text: ParseVmaEntry over a FileReader.                 *)

ByText == pc = "next" /\ (procmap_query_failed_ \/ status_ = "kParseText")

\* One read() brings the lines of the next mappings, as many as fit.
ReadLines(last) ==
  /\ ByText /\ lines = {} /\ last \in After(position)
  /\ lines' = {v \in After(position) : v.start <= last.start}
  /\ position' = last.end
  /\ UNCHANGED <<memory, parser, pc, entry, tables, truncated>>

\* The end of the text, or an error that the reader takes for it.
ReadEnd ==
  /\ ByText /\ lines = {}
  /\ \/ After(position) = {} /\ UNCHANGED truncated
     \/ truncated' = TRUE
  /\ status_' = "kCompleted" /\ pc' = "collected"
  /\ UNCHANGED <<memory, position, lines, tables, entry, procmap_query_failed_, query_addr>>

\* A mapping with other permissions is passed over.
SkipLine ==
  /\ ByText /\ lines # {} /\ FirstOf(lines).kind \notin Readable
  /\ lines' = lines \ {FirstOf(lines)}
  /\ UNCHANGED <<memory, parser, pc, entry, tables, position, truncated>>

TakeLine ==
  /\ ByText /\ lines # {} /\ FirstOf(lines).kind \in Readable
  /\ entry' = FirstOf(lines) /\ lines' = lines \ {entry'}
  /\ pc' = "body"
  /\ UNCHANGED <<memory, parser, tables, position, truncated>>

-----------------------------------------------------------------------------
(* The loop's body and the search.                                         *)

\* unordered_map::emplace: a table that starts at a known address is ignored.
Collect ==
  /\ pc = "body" /\ pc' = "next"
  /\ tables' = IF entry.kind = "table" /\ tables[entry.start] = 0
               THEN [tables EXCEPT ![entry.start] = entry.end] ELSE tables
  /\ UNCHANGED <<memory, parser, text, entry>>

Covers(p) == \E s \in Pages : s <= p /\ p < tables[s]

\* FindGlobalRefTable: the pointer in the JavaVM is believed if it points into
\* one of the tables.  The words around it (main.cc:531-533, :543) tell which
\* of the VM's words the pointer is: it is taken to be there, with a kind and
\* two sizes that pass; HookRestore has the search that finds no table.
FindGlobalRefTable ==
  /\ pc = "collected"
  /\ pc' = IF Covers(RefTable) THEN "found" ELSE "missing"
  /\ UNCHANGED <<memory, parser, text, entry, tables>>

Loader == \/ QueryFound \/ QueryNone \/ QueryFails
          \/ \E v \in Mapped : ReadLines(v)
          \/ ReadEnd \/ SkipLine \/ TakeLine \/ Collect \/ FindGlobalRefTable

Next == Loader \/ \E p \in Pages, k \in Kinds : Change(p, k)

Spec == Init /\ [][Next]_vars
FairSpec == Spec /\ WF_vars(Loader)

-----------------------------------------------------------------------------
\* The reference table is found (main.cc:511-548 over maps_parser.cc:184-234)
\* although mappings come and go around it and the ioctl may give up anywhere,
\* if its own mapping stays as it is and the text is read to the end.
TableFound == pc = "missing" => disturbed \/ truncated

\* A pass never returns the same mapping twice and never goes back
\* (maps_parser.cc:200): only the change from the ioctl to the text starts over.
EntriesAdvance == [][pc = "next" /\ pc' = "body" => entry'.end > entry.end]_vars

\* The iteration ends although other threads change the memory.
CollectEnds == <>(pc \in {"found", "missing"})

-----------------------------------------------------------------------------
(* The inductive invariant behind them.                                    *)

ModeInv ==
  /\ pc \in {"next", "body"} <=> status_ # "kCompleted"
  /\ procmap_query_failed_ => status_ # "kTryIoctl"
  /\ status_ = "kTryIoctl" => position = 0 /\ lines = {} /\ query_addr = entry.end
  /\ pc = "body" => entry \in Vmas

\* The lines lie apart, behind the last entry and before the next read.
OrderInv ==
  /\ status_ = "kParseText" => entry.end <= position
  /\ \A l \in lines : l.start < l.end /\ entry.end < l.end /\ l.end <= position
  /\ \A l, k \in lines : l.start < k.start => l.end <= k.start
  /\ \A l, k \in lines : l.start = k.start => l = k

\* What is known of a mapping that starts where the table's does is its own.
StartInv ==
  ~disturbed =>
    \A v \in Table :
      /\ tables[v.start] \in {0, v.end}
      /\ pc = "body" /\ entry.start = v.start => entry = v
      /\ \A l \in lines : l.start = v.start => l = v

\* The table is in the map already, in the body, in the lines that were read,
\* or not yet passed by the address the parser goes on from.
AheadInv ==
  ~disturbed /\ ~truncated =>
    \A v \in Table :
      \/ tables[v.start] = v.end
      \/ pc = "body" /\ entry = v
      \/ status_ = "kTryIoctl" /\ query_addr <= v.start
      \/ status_ = "kParseText" /\ (position <= v.start \/ v \in lines)

MapsInv == TypeOK /\ ModeInv /\ OrderInv /\ StartInv /\ AheadInv /\ TableFound
=============================================================================
